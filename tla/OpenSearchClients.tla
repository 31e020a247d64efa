-------------------------- MODULE OpenSearchClients --------------------------
(***************************************************************************)
(* The parts of the library that keep their state in OpenSearch: the       *)
(* conversations of components/memory/opensearch, the agent memories of    *)
(* components/agent/memory/opensearch, the indexer, the retriever and the  *)
(* loader.  Their calls come from the host and pass no gate.  The target   *)
(* of a call is the document or the index it names; for a conversation the *)
(* second object is the conversation as the process holds it.              *)
(***************************************************************************)
EXTENDS ToolSteps

conversationCalls == {"conversation_new", "conversation_get", "conversation_list",
                      "conversation_delete", "conversation_append", "conversation_load"}
memoryStoreCalls == {"memory_new", "memory_store", "memory_retrieve", "memory_delete",
                     "memory_delete_by_filter", "memory_list", "memory_count"}
documentCalls == {"indexer_new", "indexer_store", "ensure_mappings", "lookup_source_hash",
                  "bulk_lookup_source_hashes", "delete_by_source_ids", "reconcile",
                  "retriever_new", "retriever_retrieve", "loader_new", "loader_load"}
clientChecks == {"conversation_check", "memory_check", "file_conversation_check"}

\* The index is asked for and created where it is missing.  Two processes that
\* start at once may both find it missing; the creation of the second fails.
EnsureIndex(seen) ==
    Read("target") \o When(seen["target"] = "none", Write("target", "ours", {"none"}))

conversation_new(p, seen) ==
    Check(p, "configuration") \o Check(p, "client") \o EnsureIndex(seen) \o Answer("opened")

\* A conversation the process holds is returned as it is; else its document is
\* read, or, if wanted, created.  All under the lock of the store.
conversation_get(p, seen) ==
    Recall("copy")
        \o (IF seen["copy"] \in Present THEN Answer("opened")
            ELSE Read("target")
                     \o (IF seen["target"] \in Present
                         THEN Check(p, "document") \o Keep("copy", seen["target"])
                         ELSE Require(p.mode = "create", "not found")
                                  \o Write("target", "ours", {"none"}) \o Keep("copy", "ours")))
        \o Answer("opened")

conversation_list(p) == Ask("page") \o Check(p, "hit") \o Ask("next page") \o Answer("data")

\* The document first: when that fails the process still holds the conversation.
conversation_delete(p) ==
    Write("target", "none", Present) \o Keep("copy", "none") \o Answer("done")

\* A message is added to the conversation that is held, and the document is
\* replaced by it whole, without a version; that this failed is not reported.
conversation_append(p) ==
    Keep("copy", "ours") \o Attempt("target", "ours") \o Answer("done")

\* The conversation that is held is replaced by the document.
conversation_load(p, seen) ==
    Read("target") \o MustExist(seen, "target") \o Check(p, "document")
        \o Keep("copy", seen["target"]) \o Answer("opened")

-----------------------------------------------------------------------------
\* An index that exists must have vectors of the dimension that is configured.
ValidateVectorDimension(p, seen) ==
    When(p.mode = "vectors",
         Ask("mapping")
             \o When(seen["target"] # "none", Check(p, "mapping") \o Check(p, "dimension")))

memory_new(p, seen) ==
    Check(p, "configuration") \o Check(p, "minimal score") \o Check(p, "client")
        \o EnsureIndex(seen) \o ValidateVectorDimension(p, seen)
        \o Check(p, "indexer") \o Check(p, "retriever") \o Answer("opened")

memory_delete(p) == Write("target", "none", Present) \o Answer("done")
memory_delete_by_filter(p) ==
    Check(p, "filter") \o Write("target", "none", Contents) \o Answer("done")
memory_list(p) == Ask("search") \o Check(p, "hit") \o Answer("data")
memory_count(p) == Ask("count") \o Answer("data")

-----------------------------------------------------------------------------
\* One vector for each document that has none.
EmbedBatch(p) == When(p.mode = "vectors", Ask("embed") \o Check(p, "number of vectors"))

\* A batch is embedded and sent; some of its documents may be refused, which is
\* an error of the call that leaves the others stored.
StoreBatch(p, nth) ==
    Check(p, nth \o " nil document") \o EmbedBatch(p) \o Check(p, nth \o " fields")
        \o Write("target", "ours", Contents) \o Check(p, nth \o " refused documents")

\* The batches one after the other: an error of one leaves those before stored.
indexer_store(p) == StoreBatch(p, "first") \o StoreBatch(p, "second") \o Answer("done")
memory_store(p) == indexer_store(p)

\* An index that is missing is created, one that is there has its mapping
\* completed where properties are configured.
EnsureIndexAndMapping(p, seen) ==
    Read("target")
        \o (IF seen["target"] = "none" THEN Write("target", "ours", {"none"})
            ELSE When(p.mode = "properties", Write("target", "ours", Present)))
indexer_new(p, seen) ==
    Check(p, "configuration") \o Check(p, "client")
        \o When(p.mode # "no index", EnsureIndexAndMapping(p, seen)) \o Answer("opened")
ensure_mappings(p, seen) ==
    Read("target") \o When(seen["target"] = "none", Answer("opened"))
        \o Write("target", "ours", Present) \o Answer("done")

\* The hash under which a source was indexed, and all of them by a scroll, which
\* is closed at the end, an error or not.
lookup_source_hash(p, seen) ==
    Check(p, "query") \o Read("target") \o When(seen["target"] = "none", Answer("data"))
        \o Check(p, "hit") \o Check(p, "hash") \o Answer("data")
ScrollAll(p) ==
    Check(p, "query") \o Ask("page") \o Check(p, "hit") \o Ask("next page") \o Try("close")
bulk_lookup_source_hashes(p) == ScrollAll(p) \o Answer("data")

DeleteSources(p) == Check(p, "query") \o Write("target", "none", Contents) \o Check(p, "failures")
delete_by_source_ids(p) == DeleteSources(p) \o Answer("done")

\* What the scroll found of sources that the caller has not seen is deleted; the
\* deletion goes by the source and takes what was indexed for it meanwhile.
reconcile(p, seen) ==
    Check(p, "query") \o Read("target") \o Check(p, "hit") \o Ask("next page")
        \o When(seen["target"] # "none", DeleteSources(p)) \o Try("close") \o Answer("opened")

-----------------------------------------------------------------------------
\* The search pipeline of a hybrid search is created where it is missing; the
\* retriever is built also when this has failed.
EnsureRRFPipeline(seen) ==
    Peek("target") \o When(seen["target"] = "none", Attempt("target", "ours"))
retriever_new(p, seen) ==
    Check(p, "configuration") \o Check(p, "no vector field") \o Check(p, "minimal score")
        \o Check(p, "client") \o When(p.mode = "pipeline", EnsureRRFPipeline(seen))
        \o Answer("opened")
retriever_retrieve(p) ==
    When(p.mode = "vectors", Ask("embed")) \o Ask("search") \o Check(p, "hit") \o Answer("data")
memory_retrieve(p) == retriever_retrieve(p)

loader_new(p) == Check(p, "configuration") \o Check(p, "client") \o Check(p, "parser") \o Answer("data")
\* A hit without content is left out.
ConvertHit(p) == Check(p, "hit source") \o Check(p, "hit hash")
loader_load(p) == Ask("search") \o ConvertHit(p) \o Answer("data")

-----------------------------------------------------------------------------
\* The health checks write, read and delete documents of a user of their own.
conversation_check(p) ==
    Check(p, "client") \o Check(p, "store") \o Try("index") \o Try("create a conversation")
        \o Try("append") \o Try("list") \o Try("delete") \o Try("clean up") \o Answer("data")
file_conversation_check(p) ==
    Check(p, "store") \o Try("create a conversation") \o Try("append") \o Try("list")
        \o Try("delete") \o Try("clean up") \o Answer("data")
memory_check(p) ==
    Check(p, "configuration") \o Check(p, "store") \o Try("count") \o Try("list")
        \o Try("store a document") \o Try("retrieve") \o Try("delete")
        \o Try("delete by filter") \o Answer("data")

ClientSteps(t, p, seen) ==
    CASE t = "conversation_new" -> conversation_new(p, seen)
      [] t = "conversation_get" -> conversation_get(p, seen)
      [] t = "conversation_list" -> conversation_list(p)
      [] t = "conversation_delete" -> conversation_delete(p)
      [] t = "conversation_append" -> conversation_append(p)
      [] t = "conversation_load" -> conversation_load(p, seen)
      [] t = "memory_new" -> memory_new(p, seen)
      [] t = "memory_store" -> memory_store(p)
      [] t = "memory_retrieve" -> memory_retrieve(p)
      [] t = "memory_delete" -> memory_delete(p)
      [] t = "memory_delete_by_filter" -> memory_delete_by_filter(p)
      [] t = "memory_list" -> memory_list(p)
      [] t = "memory_count" -> memory_count(p)
      [] t = "indexer_new" -> indexer_new(p, seen)
      [] t = "indexer_store" -> indexer_store(p)
      [] t = "ensure_mappings" -> ensure_mappings(p, seen)
      [] t = "lookup_source_hash" -> lookup_source_hash(p, seen)
      [] t = "bulk_lookup_source_hashes" -> bulk_lookup_source_hashes(p)
      [] t = "delete_by_source_ids" -> delete_by_source_ids(p)
      [] t = "reconcile" -> reconcile(p, seen)
      [] t = "retriever_new" -> retriever_new(p, seen)
      [] t = "retriever_retrieve" -> retriever_retrieve(p)
      [] t = "loader_new" -> loader_new(p)
      [] t = "loader_load" -> loader_load(p)
      [] t = "conversation_check" -> conversation_check(p)
      [] t = "memory_check" -> memory_check(p)
      [] t = "file_conversation_check" -> file_conversation_check(p)

ClientModes(t) ==
    CASE t = "conversation_get" -> {"get", "create"}
      [] t \in {"memory_new", "memory_store", "memory_retrieve", "indexer_store",
                "retriever_retrieve"} -> {"text", "vectors"}
      [] t = "indexer_new" -> {"no index", "index", "properties"}
      [] t = "retriever_new" -> {"plain", "pipeline"}
      [] OTHER -> {"plain"}
=============================================================================
