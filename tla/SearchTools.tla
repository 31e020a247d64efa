------------------------------ MODULE SearchTools ------------------------------
(***************************************************************************)
(* The tools that search and convert: components/tool/opensearch,          *)
(* opensearch_retriever, websearch and convertor.                          *)
(***************************************************************************)
EXTENDS ToolSteps

searchTools == {"opensearch_search", "opensearch_retriever", "web_search", "web_fetch",
                "convertor_object_tool"}

\* A point in time is opened, scrolled through and closed, which may fail
\* unnoticed; a page that is not full is the last one.
openPIT(p) == Check(p, "no indices") \o Ask("open PIT")
closePIT == Try("close PIT")
searchRequest(page) == Ask(page)
PitScroll(p) ==
    openPIT(p) \o searchRequest("page")
        \o When(p.mode # "one page", searchRequest("next page")) \o Check(p, "hit") \o closePIT

\* As a stream the search is made behind the answer, and its error breaks it.
opensearch_search(p) ==
    ValidateStruct(p) \o Check(p, "index name")
        \o When(p.mode # "stream", PitScroll(p)) \o Answer("data")

opensearch_check(p) ==
    Check(p, "no URLs") \o Check(p, "client") \o Try("health") \o Answer("data")

opensearch_retriever(p) == ValidateStruct(p) \o Ask("retrieve") \o Answer("data")

opensearch_retriever_check(p) ==
    Check(p, "no configurations") \o Check(p, "tool") \o Try("retrieve") \o Answer("data")

\* A search is tried again after an error that may pass, and once more when it
\* has found nothing.
searxngSearch == Ask("search")
SearchWithRetry(p) ==
    When(p.mode = "tried again", Try("search")) \o searxngSearch
web_search(p) ==
    Check(p, "query too long") \o Check(p, "no SearXNG") \o SearchWithRetry(p)
        \o Answer("data")

ValidateFetchURL(p) == Check(p, "URL") \o Check(p, "scheme") \o Check(p, "credentials in URL")
\* The host must resolve, and to no private address.
CheckSSRF(p) == Ask("lookup") \o Check(p, "private address")
\* One attempt for each user agent that may be blocked.
FetchURLWithRetry == Try("fetch") \o Ask("fetch as another agent")

\* The format is looked at when the page has come.
web_fetch(p) ==
    ValidateFetchURL(p) \o CheckSSRF(p) \o FetchURLWithRetry
        \o Check(p, "unsupported format") \o Answer("data")

websearch_check(p) == Try("search") \o Try("fetch") \o Answer("data")

convertor_object_tool(p) ==
    ValidateStruct(p) \o Check(p, "too large") \o Check(p, "input")
        \o Check(p, "output") \o Answer("data")

\* The tools from their configurations.
opensearch_new(p) == Check(p, "configuration") \o Check(p, "client") \o Check(p, "tool") \o Answer("data")
retrieverTool(p) == Check(p, "configuration") \o Check(p, "retriever") \o Check(p, "tool")
opensearch_retriever_new(p) == Check(p, "no index") \o retrieverTool(p) \o Answer("data")

SearchSteps(t, p, seen) ==
    CASE t = "opensearch_search" -> opensearch_search(p)
      [] t = "opensearch_check" -> opensearch_check(p)
      [] t = "opensearch_retriever" -> opensearch_retriever(p)
      [] t = "opensearch_retriever_check" -> opensearch_retriever_check(p)
      [] t = "web_search" -> web_search(p)
      [] t = "web_fetch" -> web_fetch(p)
      [] t = "websearch_check" -> websearch_check(p)
      [] t = "convertor_object_tool" -> convertor_object_tool(p)
      [] t = "opensearch_new" -> opensearch_new(p)
      [] t = "opensearch_retriever_new" -> opensearch_retriever_new(p)

SearchModes(t) ==
    CASE t = "opensearch_search" -> {"one page", "pages", "stream"}
      [] t = "web_search" -> {"plain", "tried again"}
      [] OTHER -> {"plain"}
=============================================================================
