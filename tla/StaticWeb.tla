------------------------------ MODULE StaticWeb ------------------------------
(***************************************************************************)
(* The static web connector (connectors/static_web.py) and its Scrapy      *)
(* worker: fixed pages requested in batches, a page that two reports in a  *)
(* row call gone is deleted, and one page that fails otherwise discards    *)
(* the batch.                                                              *)
(* Runs are invocations of the command line and may overlap; each commits  *)
(* its records and its checkpoint in one transaction (durable.py).         *)
(***************************************************************************)
EXTENDS Naturals, Sequences, FiniteSets

CONSTANTS
  WebUrls,   \* policy.start_urls, a sequence without duplicates
  WebLimit,  \* min(page_size, max_records_per_run)
  WebRuns    \* invocations in progress

ASSUME WebAssumption ==
  /\ WebLimit \in Nat \ {0}
  /\ \A i, j \in DOMAIN WebUrls : WebUrls[i] = WebUrls[j] => i = j
  /\ WebUrls # <<>> /\ WebUrls \in Seq({WebUrls[i] : i \in DOMAIN WebUrls})

VARIABLES
  webPolicy,  \* which version of the policy file is in place
  webStored,  \* connector_states: the checkpoint
  webRecord,  \* ingested_records of the source
  webRun,     \* the runs, each with the checkpoint it holds
  webGone,    \* history: committed reports in a row that found it gone, up to 2
  webAhead,   \* history: pages requested once more often than the others
  webClean    \* history: no two runs have overlapped, one policy

webHistory == <<webGone, webAhead, webClean>>
webVars == <<webPolicy, webStored, webRecord, webRun, webHistory>>
-----------------------------------------------------------------------------
WebPages == {WebUrls[i] : i \in DOMAIN WebUrls}

\* parse_page, request_failed and closed: what becomes of a request.  A 304
\* is a page while the HTTP cache holds its body and a blocked redirect after.
\* A callback that raises (a parser, a decoder) is logged by the crawler and
\* leaves the page in neither list of the result, which collect does not miss.
WebPresent == {"page", "not_modified_cached"}
WebMissing == {"not_found"}
WebDropped == {"callback_raised"}
WebBarrier == {"unauthorized", "forbidden", "captcha", "robots_forbidden", "redirect",
               "not_modified_uncached", "rate_limit", "boundary_rejected"}
WebDrift == {"non_html", "selector_missing", "short_text", "snapshot_missing"}
WebTransient == {"upstream", "request_failed", "unexpected_status"}
WebCritical == WebBarrier \cup WebDrift \cup WebTransient

WebKind(observation) ==
  CASE observation \in WebPresent -> "present"
    [] observation \in WebMissing -> "missing"
    [] observation \in WebDropped -> "dropped"
    [] OTHER -> "critical"

\* The value of a source without a checkpoint; policy 0 matches any policy.
WebFirst == [policy |-> 0, offset |-> 0, missing |-> {}, validators |-> {}]
WebIdle == [pc |-> "idle", view |-> WebFirst, asked |-> {}, present |-> {},
            missing |-> {}, deleted |-> {}]
WebSet(r, run) == webRun' = [webRun EXCEPT ![r] = run]
WebAlive(r) == webRun[r].pc # "idle"

WebInit ==
  /\ webPolicy = 1
  /\ webStored = WebFirst
  /\ webRecord = [u \in WebPages |-> "none"]
  /\ webRun = [r \in WebRuns |-> WebIdle]
  /\ webGone = [u \in WebPages |-> 0]
  /\ webAhead = {}
  /\ webClean = TRUE

\* The operator edits the policy: its hash changes.
WebEditPolicy ==
  /\ webPolicy' = 2
  /\ webClean' = FALSE
  /\ UNCHANGED <<webStored, webRecord, webRun, webGone, webAhead>>

\* main and the durable runner: a run holds the stored checkpoint.
WebStart(r) ==
  /\ ~WebAlive(r)
  /\ WebSet(r, [WebIdle EXCEPT !.pc = "collect", !.view = webStored])
  /\ webClean' = (webClean /\ \A q \in WebRuns \ {r} : ~WebAlive(q))
  /\ UNCHANGED <<webPolicy, webStored, webRecord, webGone, webAhead>>

\* collect: the pages from the offset, or from the start where there are none.
WebOffset(view) == IF view.offset < Len(WebUrls) THEN view.offset ELSE 0
WebEnd(view) ==
  IF WebOffset(view) + WebLimit < Len(WebUrls) THEN WebOffset(view) + WebLimit ELSE Len(WebUrls)

\* Mutant: a batch leaves its last page to the next one.
WebBatchShort(view) == {WebUrls[i] : i \in (WebOffset(view) + 1)..(WebEnd(view) - 1)}

WebBatch(view) == {WebUrls[i] : i \in (WebOffset(view) + 1)..WebEnd(view)}

\* Mutant: a page that is seen keeps its count.
WebCountedKept(view, present, missing) ==
  LET twice == missing \cap view.missing IN
  [missing |-> (view.missing \cup missing) \ twice, deleted |-> twice]

\* missing_counts (a set: a count is 1 or absent) and pending_deletions.
WebCounted(view, present, missing) ==
  LET twice == missing \cap view.missing IN
  [missing |-> ((view.missing \ present) \cup missing) \ twice, deleted |-> twice]

WebNextView(view, present, missing) ==
  [policy |-> webPolicy,
   offset |-> IF WebEnd(view) < Len(WebUrls) THEN WebEnd(view) ELSE 0,
   missing |-> WebCounted(view, present, missing).missing,
   validators |-> view.validators \cup present]

\* The worker requests the batch; without a critical failure it is built from
\* the pages that the worker reported, and the offset passes all of them.
WebCollect(r) ==
  LET view == webRun[r].view IN
  /\ webRun[r].pc = "collect"
  /\ view.policy \in {0, webPolicy}
  /\ \E seen \in [WebBatch(view) -> WebPresent \cup WebMissing \cup WebDropped] :
       LET present == {u \in DOMAIN seen : WebKind(seen[u]) = "present"}
           missing == {u \in DOMAIN seen : WebKind(seen[u]) = "missing"} IN
       WebSet(r, [pc |-> "commit", view |-> WebNextView(view, present, missing),
                  asked |-> DOMAIN seen, present |-> present, missing |-> missing,
                  deleted |-> WebCounted(view, present, missing).deleted])
  /\ UNCHANGED <<webPolicy, webStored, webRecord, webHistory>>

\* A critical failure of any page, a crash or a timeout of the worker, a
\* checkpoint of another policy, a failing archive: nothing is committed.
WebCollectFails(r) ==
  /\ webRun[r].pc = "collect"
  /\ \/ webRun[r].view.policy \notin {0, webPolicy}
     \/ \E o \in WebCritical : WebKind(o) = "critical"
  /\ WebSet(r, WebIdle)
  /\ UNCHANGED <<webPolicy, webStored, webRecord, webHistory>>

\* upsert_records, sync_deletions and mark_records_deleted in one commit; the
\* run goes on while there is more, up to its page limit.
WebCommit(r) ==
  LET run == webRun[r]
      ahead == webAhead \cup run.asked IN
  /\ run.pc = "commit"
  /\ webStored' = run.view
  /\ webRecord' = [u \in WebPages |->
       IF u \in run.present THEN "live"
       ELSE IF u \in run.deleted /\ webRecord[u] # "none" THEN "deleted" ELSE webRecord[u]]
  /\ \/ run.view.offset # 0 /\ WebSet(r, [WebIdle EXCEPT !.pc = "collect", !.view = run.view])
     \/ WebSet(r, WebIdle)
  /\ webGone' = [u \in WebPages |->
       IF u \in run.present THEN 0
       ELSE IF u \in run.missing /\ webGone[u] < 2 THEN webGone[u] + 1 ELSE webGone[u]]
  /\ webAhead' = IF ahead = WebPages THEN {} ELSE ahead
  /\ UNCHANGED <<webPolicy, webClean>>

\* The commit fails, or the process is killed.
WebBreak(r) ==
  /\ WebAlive(r)
  /\ WebSet(r, WebIdle)
  /\ UNCHANGED <<webPolicy, webStored, webRecord, webHistory>>

WebNext ==
  \/ WebEditPolicy
  \/ \E r \in WebRuns :
       WebStart(r) \/ WebCollect(r) \/ WebCollectFails(r) \/ WebCommit(r) \/ WebBreak(r)

WebSpec == WebInit /\ [][WebNext]_webVars
-----------------------------------------------------------------------------
WebView == [policy : 0..2, offset : 0..(Len(WebUrls) - 1),
            missing : SUBSET WebPages, validators : SUBSET WebPages]

WebRunType == [pc : {"idle", "collect", "commit"}, view : WebView,
               asked : SUBSET WebPages, present : SUBSET WebPages,
               missing : SUBSET WebPages, deleted : SUBSET WebPages]

WebTypeOK ==
  /\ webPolicy \in 1..2
  /\ webStored \in WebView
  /\ webRecord \in [WebPages -> {"none", "live", "deleted"}]
  /\ webRun \in [WebRuns -> WebRunType]
  /\ webGone \in [WebPages -> 0..2]
  /\ webAhead \subseteq WebPages
  /\ webClean \in BOOLEAN

\* A stored page is deleted exactly when the last two committed batches that
\* reported it, in whatever runs and with whatever discarded batches and visits
\* without a report between them, found it gone, and it comes back with the next
\* report that finds it; runs one by one.
WebDeletedWhenGoneTwice ==
  webClean => \A u \in WebPages :
    webRecord[u] # "none" => (webRecord[u] = "deleted" <=> webGone[u] = 2)

\* Batches, failures, page limits and pages without a report included, no page
\* is requested twice for committed batches before every other page was requested
\* once: the requested pages of the round are those before the stored offset.
WebRounds == webClean => webAhead = {WebUrls[i] : i \in 1..webStored.offset}

\* A conditional request is made only for a page whose body was stored, also
\* after a discarded batch: a 304 can never stand for a page nobody has seen.
WebValidatorsStored == \A u \in webStored.validators : webRecord[u] # "none"

\* The checkpoint and the records tell one story, whatever batches were cut,
\* discarded or repeated (static_web.py:197-240).
WebPagesTrue == WebDeletedWhenGoneTwice /\ WebRounds /\ WebValidatorsStored
=============================================================================
