---------------------------- MODULE SearchSlices ----------------------------
(***************************************************************************)
(* One SearXNG collection (connectors/searxng_worker.py,                   *)
(* connectors/searxng_results.py) and the summary its job keeps            *)
(* (collection_jobs.py): every pair of a query and an engine is a slice,   *)
(* read page by page; engines fail or stay silent on some pages.  What a   *)
(* run says of its coverage has to be what happened.                       *)
(***************************************************************************)
EXTENDS Naturals, Sequences, FiniteSets

CONSTANTS
  SliceCount,   \* pairs of a query and an engine, in the worker's order
  SlicePages,   \* policy.max_pages
  SliceMost,    \* policy.max_results_per_slice
  SlicePage,    \* bound: new results of one page
  SliceLimit,   \* limit of the request
  SliceReasons  \* reasons an answer can be given, a subset of SliceReason

SliceReason == {"captcha", "rate_limit", "timeout", "access_denied", "upstream",
                "schema_drift", "dependency_missing"}

ASSUME SliceAssumption ==
  /\ SliceCount \in Nat \ {0} /\ SlicePages \in Nat \ {0} /\ SliceMost \in Nat \ {0}
  /\ SlicePage \in Nat \ {0} /\ SliceLimit \in Nat
  /\ SliceReasons \subseteq SliceReason

VARIABLES
  slicePc,      \* where the job is
  slicePage,    \* page the worker asks for next
  sliceNow,     \* the slice being read: records, complete, reason
  sliceBrought, \* records of those slices: len(records)
  sliceDone,    \* diagnostics of the slices read so far
  sliceWarned,  \* warnings
  sliceFailed,  \* kinds of the failures
  sliceAnswer,  \* the worker's result
  sliceJob,     \* collection_jobs: status and coverage_status
  sliceStored,  \* records stored for each slice, with sample_complete
  sliceTruth    \* history: slices with a page that failed or an engine that did not answer

sliceVars == <<slicePc, slicePage, sliceNow, sliceBrought, sliceDone, sliceWarned, sliceFailed,
               sliceAnswer, sliceJob, sliceStored, sliceTruth>>
sliceOut == <<sliceAnswer, sliceJob, sliceStored>>
-----------------------------------------------------------------------------
SliceFresh == [count |-> 0, complete |-> TRUE, reason |-> "none"]
SliceNone == [status |-> "none", error |-> "none", diagnostics |-> <<>>]
SliceAt == Len(sliceDone) + 1

SliceInit ==
  /\ slicePc = "reading"
  /\ slicePage = 1
  /\ sliceNow = SliceFresh
  /\ sliceBrought = 0
  /\ sliceDone = <<>>
  /\ sliceWarned = {}
  /\ sliceFailed = {}
  /\ sliceAnswer = SliceNone
  /\ sliceJob = [status |-> "running", coverage |-> "none"]
  /\ sliceStored = <<>>
  /\ sliceTruth = {}

\* The slice ends after this page, or the next page is asked for.
SliceTurn(ends) ==
  /\ slicePc' = IF ends THEN "closing" ELSE "reading"
  /\ slicePage' = IF ends THEN 1 ELSE slicePage + 1
  /\ UNCHANGED <<sliceBrought, sliceDone, sliceOut>>

\* Mutant: a silent engine counts only where it gave no results.
SliceItemsQuiet(new, silent, reason) ==
  /\ slicePc = "reading"
  /\ sliceNow.count + new <= SliceMost
  /\ sliceNow' = [sliceNow EXCEPT !.count = @ + new]
  /\ sliceTruth' = IF silent THEN sliceTruth \cup {SliceAt} ELSE sliceTruth
  /\ SliceTurn(sliceNow.count + new = SliceMost \/ slicePage = SlicePages)
  /\ UNCHANGED <<sliceWarned, sliceFailed>>

\* collect: a page of results; new of them were not seen before in the slice.
\* unresponsive_engines is not empty where the engine was silent.
SliceItems(new, silent, reason) ==
  /\ slicePc = "reading"
  /\ sliceNow.count + new <= SliceMost
  /\ sliceNow' = [count |-> sliceNow.count + new,
                  complete |-> sliceNow.complete /\ ~silent,
                  reason |-> IF silent THEN reason ELSE sliceNow.reason]
  /\ sliceWarned' = IF silent THEN sliceWarned \cup {"unresponsive_engine"} ELSE sliceWarned
  /\ sliceTruth' = IF silent THEN sliceTruth \cup {SliceAt} ELSE sliceTruth
  /\ SliceTurn(sliceNow.count + new = SliceMost \/ slicePage = SlicePages)
  /\ UNCHANGED sliceFailed

\* An empty page is the last one of the slice.
SliceEmpty(silent, reason) ==
  /\ slicePc = "reading"
  /\ sliceNow' = [sliceNow EXCEPT !.complete = @ /\ ~silent,
                                  !.reason = IF silent THEN reason ELSE @]
  /\ sliceWarned' = sliceWarned \cup (IF silent THEN {"unresponsive_engine"} ELSE {})
                                \cup (IF slicePage = 1 THEN {"slice_empty"} ELSE {})
  /\ sliceTruth' = IF silent THEN sliceTruth \cup {SliceAt} ELSE sliceTruth
  /\ SliceTurn(TRUE)
  /\ UNCHANGED sliceFailed

\* _failure: the kind of an exception.  A read timeout is of kind upstream.
SliceKind(reason) == IF reason = "timeout" THEN "upstream" ELSE reason

\* Mutant: the reason of the failure is not kept.
SliceFailsUnnamed(new, reason) ==
  /\ slicePc = "reading"
  /\ sliceNow' = [sliceNow EXCEPT !.count = @ + new, !.complete = FALSE]
  /\ sliceNow.count + new < SliceMost
  /\ sliceFailed' = sliceFailed \cup {SliceKind(reason)}
  /\ sliceWarned' = sliceWarned \cup {"slice_unavailable"}
  /\ sliceTruth' = sliceTruth \cup {SliceAt}
  /\ SliceTurn(TRUE)

\* The request fails, or the page has new good results and then a bad one.
SliceFails(new, reason) ==
  /\ slicePc = "reading"
  /\ new > 0 => reason = "schema_drift"
  /\ reason # "captcha"
  /\ sliceNow.count + new < SliceMost
  /\ sliceNow' = [count |-> sliceNow.count + new, complete |-> FALSE, reason |-> reason]
  /\ sliceFailed' = sliceFailed \cup {SliceKind(reason)}
  /\ sliceWarned' = sliceWarned \cup {"slice_unavailable"}
  /\ sliceTruth' = sliceTruth \cup {SliceAt}
  /\ SliceTurn(TRUE)

\* The diagnostic of a slice; the records of an incomplete one are marked.
SliceDiagnostic(now) ==
  [count |-> now.count, reason |-> now.reason, complete |-> now.complete,
   status |-> IF now.complete THEN IF now.count > 0 THEN "complete" ELSE "empty"
              ELSE IF now.count > 0 THEN "partial" ELSE "failed"]

\* The error that is told, by priority.
SliceWorst(kinds) ==
  LET order == <<"rate_limit", "access_denied", "dependency_missing", "schema_drift", "upstream">>
      first == CHOOSE i \in DOMAIN order :
                 order[i] \in kinds /\ \A j \in 1..(i - 1) : order[j] \notin kinds
  IN order[first]

\* The end of collect.
SliceResult(brought, done) ==
  IF brought > SliceLimit
  THEN [SliceNone EXCEPT !.status = "error", !.error = "resource_exhausted"]
  ELSE IF brought = 0 /\ sliceFailed # {}
  THEN [status |-> "error", error |-> SliceWorst(sliceFailed), diagnostics |-> done]
  ELSE [status |-> "ok", error |-> "none", diagnostics |-> done]

SliceClose ==
  LET done == Append(sliceDone, SliceDiagnostic(sliceNow))
      brought == sliceBrought + sliceNow.count
      ends == brought > SliceLimit \/ Len(done) = SliceCount IN
  /\ slicePc = "closing"
  /\ sliceBrought' = brought
  /\ sliceDone' = done
  /\ sliceNow' = SliceFresh
  /\ slicePc' = IF ends THEN "answered" ELSE "reading"
  /\ sliceAnswer' = IF ends THEN SliceResult(brought, done) ELSE sliceAnswer
  /\ UNCHANGED <<slicePage, sliceWarned, sliceFailed, sliceJob, sliceStored, sliceTruth>>

\* _build_batch: the diagnostics agree with the records and cover the matrix.
SliceConsistent(answer) ==
  /\ answer.diagnostics # <<>> => Len(answer.diagnostics) = SliceCount
  /\ \A i \in DOMAIN answer.diagnostics : LET item == answer.diagnostics[i] IN
       /\ item.reason \in SliceReason \cup {"none"}
       /\ answer.status = "error" => item.count = 0
       /\ item.status \in {"complete", "partial"} <=> item.count > 0
       /\ item.status \in {"failed", "partial"} <=> item.reason # "none"

\* PAUSE_CATEGORIES of collection_jobs.py for the errors of the worker.
SlicePauses(error) == error \in {"rate_limit", "access_denied", "schema_drift", "resource_exhausted"}

SliceStop(status, coverage) ==
  /\ slicePc' = "done"
  /\ sliceJob' = [status |-> status, coverage |-> coverage]
  /\ UNCHANGED <<slicePage, sliceNow, sliceBrought, sliceDone, sliceWarned, sliceFailed,
                 sliceAnswer, sliceStored, sliceTruth>>

\* The answer is refused: an inconsistent one, or records of a category that
\* is not in the policy; the diagnostics are not kept.
SliceRefuse ==
  /\ slicePc = "answered"
  /\ ~SliceConsistent(sliceAnswer) \/ (sliceAnswer.status = "ok" /\ sliceBrought > 0)
  /\ SliceStop("paused", "none")

SliceError ==
  /\ slicePc = "answered"
  /\ sliceAnswer.status = "error" /\ SliceConsistent(sliceAnswer)
  /\ SliceStop(IF SlicePauses(sliceAnswer.error) THEN "paused" ELSE "failed",
               IF sliceAnswer.diagnostics = <<>> THEN "none" ELSE "failed")

\* Worker crash, time limit, database: no diagnostics.
SliceBreak ==
  /\ slicePc # "done"
  /\ SliceStop("failed", "none")

\* The coverage of the job: coverage_status of _execute.
SliceCoverage(brought, done) ==
  IF \E i \in DOMAIN done : done[i].status \in {"partial", "failed"}
  THEN IF brought > 0 THEN "partial" ELSE "failed"
  ELSE "complete"

SliceStore ==
  /\ slicePc = "answered"
  /\ sliceAnswer.status = "ok" /\ SliceConsistent(sliceAnswer)
  /\ slicePc' = "done"
  /\ sliceStored' = [i \in DOMAIN sliceDone |->
       [count |-> sliceDone[i].count, complete |-> sliceDone[i].complete]]
  /\ sliceJob' = [status |-> "succeeded", coverage |-> SliceCoverage(sliceBrought, sliceDone)]
  /\ UNCHANGED <<slicePage, sliceNow, sliceBrought, sliceDone, sliceWarned, sliceFailed,
                 sliceAnswer, sliceTruth>>

SliceNext ==
  \/ \E reason \in SliceReasons :
       \/ \E new \in 0..SlicePage, silent \in BOOLEAN : SliceItems(new, silent, reason)
       \/ \E silent \in BOOLEAN : SliceEmpty(silent, reason)
       \/ \E new \in 0..SlicePage : SliceFails(new, reason)
  \/ SliceClose \/ SliceRefuse \/ SliceError \/ SliceBreak \/ SliceStore

SliceSpec == SliceInit /\ [][SliceNext]_sliceVars
-----------------------------------------------------------------------------
SliceTypeOK ==
  /\ slicePc \in {"reading", "closing", "answered", "done"}
  /\ slicePage \in 1..SlicePages
  /\ sliceNow \in [count : 0..SliceMost, complete : BOOLEAN, reason : SliceReason \cup {"none"}]
  /\ sliceBrought \in 0..(SliceCount * SliceMost)
  /\ Len(sliceDone) <= SliceCount
  /\ sliceWarned \subseteq {"unresponsive_engine", "slice_empty", "slice_unavailable"}
  /\ sliceFailed \subseteq SliceReason
  /\ sliceAnswer.status \in {"none", "ok", "error"}
  /\ sliceJob \in [status : {"running", "succeeded", "paused", "failed"},
                   coverage : {"none", "complete", "partial", "failed"}]
  /\ sliceTruth \subseteq 1..SliceCount

\* What is stored and what the job says agree with what the engines did: a
\* stored record counts as complete exactly where every page of its slice was
\* answered, a job says "complete" only where that holds of every slice, and
\* "failed" only where nothing was stored.
SliceStoredTrue ==
  slicePc = "done" =>
    /\ \A i \in DOMAIN sliceStored : sliceStored[i].complete <=> i \notin sliceTruth
    /\ sliceJob.coverage = "complete" => sliceTruth = {}
    /\ sliceJob.status = "succeeded" /\ sliceTruth # {} => sliceJob.coverage \in {"partial", "failed"}
    /\ sliceJob.coverage = "failed" =>
         sliceTruth # {} /\ \A i \in DOMAIN sliceStored : sliceStored[i].count = 0

\* The connector never refuses what its own worker reports of a run, whatever
\* mixture of silent engines, failed pages and partial results it met: the two
\* processes agree on the diagnostics.
SliceAgreed == slicePc = "answered" => SliceConsistent(sliceAnswer)

\* Worker, connector and job say the same of a search, and it is true
\* (searxng_worker.py:215, searxng_results.py:147-252).
SliceCoverageTrue == SliceStoredTrue /\ SliceAgreed
=============================================================================
