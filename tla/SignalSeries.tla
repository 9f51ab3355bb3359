---------------------------- MODULE SignalSeries ----------------------------
(***************************************************************************)
(* Public search signals (connectors/public_search_signals.py,             *)
(* connectors/public_search_worker.py), their commit, and the series that  *)
(* api/trends.py serves.  The source scales every answer by its own peak,  *)
(* so two answers may not meet in one series; a later answer on the same   *)
(* dates replaces an earlier one.  Runs may overlap.                       *)
(***************************************************************************)
EXTENDS Naturals, FiniteSets

CONSTANTS
  SignalRuns,      \* runs of the connector in progress
  SignalKeywords,  \* keywords of the policies; policy 2 asks for all but one
  SignalDays,      \* bound: days, 1..SignalDays
  SignalWindow,    \* days of the policy's timeframe
  SignalFetches,   \* bound: answers of the source, each with a scale of its own
  SignalLimit      \* records a run may bring

ASSUME SignalAssumption ==
  /\ SignalKeywords # {}
  /\ SignalDays \in Nat \ {0} /\ SignalWindow \in Nat \ {0}
  /\ SignalFetches \in Nat /\ SignalLimit \in Nat

VARIABLES
  signalDay,      \* the date
  signalFetched,  \* answers of the source so far
  signalPolicy,   \* policy file: 1, or 2 with fewer keywords
  signalContext,  \* definition_hash of the observation context
  signalStored,   \* ingested_records: series, keyword, date, and the scale of the value
  signalMark,     \* checkpoint: the policy it is bound to (0: none), warnings
  signalRun       \* the runs

signalVars == <<signalDay, signalFetched, signalPolicy, signalContext, signalStored,
                signalMark, signalRun>>
signalWorld == <<signalDay, signalPolicy, signalContext>>
-----------------------------------------------------------------------------
SignalAsked(policy) == IF policy = 1 THEN SignalKeywords
                       ELSE SignalKeywords \ {CHOOSE k \in SignalKeywords : TRUE}

SignalPart == {"records", "empty", "rate_limit", "dependency_missing", "schema_drift", "upstream"}
SignalFailed(part) == part \notin {"records", "empty"}
SignalNoBatch == [records |-> {}, warnings |-> {}, error |-> "none"]
SignalIdle == [pc |-> "idle", policy |-> 1, context |-> 1, batch |-> SignalNoBatch]
SignalSet(p, r) == signalRun' = [signalRun EXCEPT ![p] = r]

SignalInit ==
  /\ signalDay = 1
  /\ signalFetched = 0
  /\ signalPolicy = 1 /\ signalContext = 1
  /\ signalStored = {}
  /\ signalMark = [policy |-> 0, warnings |-> {}]
  /\ signalRun = [p \in SignalRuns |-> SignalIdle]

SignalPassDay ==
  /\ signalDay < SignalDays
  /\ signalDay' = signalDay + 1
  /\ UNCHANGED <<signalFetched, signalPolicy, signalContext, signalStored, signalMark, signalRun>>

\* The policy file or the measurement catalog is replaced.
SignalEdit ==
  /\ \/ signalPolicy' = 2 /\ UNCHANGED signalContext
     \/ signalContext' = 2 /\ UNCHANGED signalPolicy
  /\ <<signalPolicy', signalContext'>> # <<signalPolicy, signalContext>>
  /\ UNCHANGED <<signalDay, signalFetched, signalStored, signalMark, signalRun>>

\* collect: validate, and the checkpoint is of this policy; otherwise the run
\* ends before the worker starts.
SignalStart(p) ==
  /\ signalRun[p].pc = "idle"
  /\ signalMark.policy \in {0, signalPolicy}
  /\ SignalSet(p, [SignalIdle EXCEPT !.pc = "worker", !.policy = signalPolicy,
                                     !.context = signalContext])
  /\ UNCHANGED <<signalWorld, signalFetched, signalStored, signalMark>>

\* Mutant: the dates of the answer are not part of the comparison group.
SignalGroupUndated(policy, dates) == [keywords |-> SignalAsked(policy), dates |-> {}]

\* comparison_group: the request and the dates of its index.
SignalGroup(policy, dates) == [keywords |-> SignalAsked(policy), dates |-> dates]

SignalIndex == {d \in 1..signalDay : d + SignalWindow > signalDay}

\* _trend_records, _suggestion_records, _enrich_record.
SignalTrends(r) ==
  {[metric |-> "interest", context |-> r.context, group |-> SignalGroup(r.policy, SignalIndex),
    keyword |-> k, date |-> d, scale |-> signalFetched + 1] :
     k \in SignalAsked(r.policy), d \in SignalIndex}
SignalSuggestions(r) ==
  {[metric |-> "rank", context |-> r.context, group |-> [keywords |-> {}, dates |-> {}],
    keyword |-> k, date |-> signalDay, scale |-> signalFetched + 1] : k \in SignalAsked(r.policy)}

SignalWarnings(trends, suggestions) ==
  {w \in {"trend_empty", "trend_unavailable", "suggestions_empty", "suggestions_unavailable"} :
     \/ w = "trend_empty" /\ trends = "empty"
     \/ w = "trend_unavailable" /\ SignalFailed(trends)
     \/ w = "suggestions_empty" /\ suggestions = "empty"
     \/ w = "suggestions_unavailable" /\ SignalFailed(suggestions)}

\* The error that is told where nothing was brought, by priority.
SignalError(trends, suggestions) ==
  LET failed == {part \in {trends, suggestions} : SignalFailed(part)}
      above == [rate_limit |-> {}, dependency_missing |-> {"rate_limit"},
                schema_drift |-> {"rate_limit", "dependency_missing"},
                upstream |-> {"rate_limit", "dependency_missing", "schema_drift"}]
  IN CHOOSE part \in failed : above[part] \cap failed = {}

\* The worker: both parts are tried whatever happens to the other.
SignalAnswer(p, trends, suggestions) ==
  LET r == signalRun[p]
      records == (IF trends = "records" THEN SignalTrends(r) ELSE {})
                   \cup (IF suggestions = "records" THEN SignalSuggestions(r) ELSE {})
      nothing == records = {} /\ (SignalFailed(trends) \/ SignalFailed(suggestions))
      error == IF nothing THEN SignalError(trends, suggestions)
               ELSE IF Cardinality(records) > SignalLimit THEN "resource_exhausted" ELSE "none" IN
  /\ r.pc = "worker"
  /\ signalFetched < SignalFetches
  /\ signalFetched' = signalFetched + 1
  /\ SignalSet(p, IF error # "none" THEN SignalIdle
                  ELSE [r EXCEPT !.pc = "commit",
                          !.batch = [records |-> records, error |-> error,
                                     warnings |-> SignalWarnings(trends, suggestions)]])
  /\ UNCHANGED <<signalWorld, signalStored, signalMark>>

\* A crash or a time limit of the worker, an envelope or a record that breaks
\* the contract, the archive, the database: nothing is stored.
SignalBreak(p) ==
  /\ signalRun[p].pc # "idle"
  /\ SignalSet(p, SignalIdle)
  /\ UNCHANGED <<signalWorld, signalFetched, signalStored, signalMark>>

SignalIdentity(record) == <<record.metric, record.context, record.group, record.keyword, record.date>>

\* The page transaction: every record replaces the one of its identity.
SignalCommit(p) ==
  LET r == signalRun[p]
      new == {SignalIdentity(record) : record \in r.batch.records} IN
  /\ r.pc = "commit"
  /\ signalStored' = {record \in signalStored : SignalIdentity(record) \notin new} \cup r.batch.records
  /\ signalMark' = [policy |-> r.policy, warnings |-> r.batch.warnings]
  /\ SignalSet(p, SignalIdle)
  /\ UNCHANGED <<signalWorld, signalFetched>>

SignalNext ==
  \/ SignalPassDay \/ SignalEdit
  \/ \E p \in SignalRuns :
       \/ SignalStart(p) \/ SignalBreak(p) \/ SignalCommit(p)
       \/ \E trends, suggestions \in SignalPart : SignalAnswer(p, trends, suggestions)

SignalSpec == SignalInit /\ [][SignalNext]_signalVars
-----------------------------------------------------------------------------
\* Mutant: the keyword set and its definition do not part the series.
SignalKeyPlain(record) == <<record.metric, record.keyword, record.group>>

\* api/trends.py: the key of a series.
SignalKey(record) == <<record.metric, record.keyword, record.context, record.group>>

\* A series served by list_trends: the points of a key; the first row of a
\* date is kept.
SignalSeriesOf(key) == {record \in signalStored : SignalKey(record) = key}
SignalServed == {SignalSeriesOf(SignalKey(record)) : record \in signalStored}

SignalTypeOK ==
  /\ signalDay \in 1..SignalDays
  /\ signalFetched \in 0..SignalFetches
  /\ signalPolicy \in 1..2 /\ signalContext \in 1..2
  /\ \A record \in signalStored :
       /\ record.metric \in {"interest", "rank"} /\ record.context \in 1..2
       /\ record.group.keywords \subseteq SignalKeywords
       /\ record.group.dates \subseteq 1..SignalDays
       /\ record.keyword \in SignalKeywords /\ record.date \in 1..SignalDays
       /\ record.scale \in 1..SignalFetches
  /\ signalMark.policy \in 0..2
  /\ \A p \in SignalRuns : signalRun[p].pc \in {"idle", "worker", "commit"}

\* A series of relative interest that is served holds the values of one answer
\* of the source, all of its dates and in the scale its companions of the same
\* request have, whatever days, edits, overlapping runs and partial answers
\* there were; and no date of a series has two values.
SignalOneScale ==
  \A series \in SignalServed :
    /\ \A one, other \in series : one.date = other.date => one = other
    /\ \A one \in series : one.metric = "interest" =>
         /\ \A other \in signalStored :
              other.metric = "interest" /\ other.context = one.context /\ other.group = one.group
                => other.scale = one.scale
         /\ {record.date : record \in series} = one.group.dates
=============================================================================
