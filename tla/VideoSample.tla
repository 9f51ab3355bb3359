---------------------------- MODULE VideoSample ----------------------------
(***************************************************************************)
(* One sample of YouTube search results (connectors/youtube_visibility*.py)*)
(* from the search in the worker process to the stored snapshot, and what  *)
(* the API and the trends make of it (api/visibility.py, api/trends.py).   *)
(* The analysis and the view of the API are two pieces of code that have to*)
(* agree: the view counts again and refuses what it finds different.       *)
(***************************************************************************)
EXTENDS Integers, FiniteSets, Sequences

CONSTANTS
  VideoBrands,   \* brands of the policy
  VideoIds,      \* videos
  VideoChannels, \* channels that a brand may name as its own
  VideoTop       \* top_k

ASSUME VideoAssumption == VideoTop \in Nat \ {0}

VARIABLES
  videoOfficial, \* official_channel_ids of each brand in the policy
  videoPc,       \* where run_connector_durably is with this source
  videoFound,    \* what the search returned, in its order, and whether it warned
  videoReport,   \* last_report
  videoStored    \* the snapshots in ingested_records

videoVars == <<videoOfficial, videoPc, videoFound, videoReport, videoStored>>
-----------------------------------------------------------------------------
VideoStranger == "stranger"   \* a channel no brand names
VideoNoChannel == "none"      \* the entry has no channel
VideoNoShare == -1            \* None

\* An entry of the search; an entry that is not valid has no usable id, title
\* or channel. `mentions' are the brands one of whose aliases is in the title.
VideoEntry ==
  [id : VideoIds, valid : BOOLEAN, mentions : SUBSET VideoBrands,
   channel : VideoChannels \cup {VideoStranger, VideoNoChannel}]

VideoNothing == [results |-> <<>>, warned |-> FALSE]

\* Mutant: two brands may name one channel.
VideoPolicyShared == [VideoBrands -> SUBSET VideoChannels]

\* The policies the file may hold: no channel belongs to two brands.
VideoPolicy ==
  {official \in [VideoBrands -> SUBSET VideoChannels] :
     \A a, b \in VideoBrands : a # b => official[a] \cap official[b] = {}}

VideoInit ==
  /\ videoOfficial \in VideoPolicy
  /\ videoPc = "idle"
  /\ videoFound = VideoNothing
  /\ videoReport = {}
  /\ videoStored = {}

\* validate: the connector file and the approval still agree.
VideoStart ==
  /\ videoPc = "idle"
  /\ videoPc' \in {"search", "failed"}
  /\ UNCHANGED <<videoOfficial, videoFound, videoReport, videoStored>>

\* The worker's search; entries are read up to top_k.
VideoSearch ==
  /\ videoPc = "search"
  /\ \E k \in 0..VideoTop : \E results \in [1..k -> VideoEntry], warned \in BOOLEAN :
       videoFound' = [results |-> results, warned |-> warned]
  /\ videoPc' = "answer"
  /\ UNCHANGED <<videoOfficial, videoReport, videoStored>>

\* The worker stops, has no yt_dlp, or the source fails or has a new schema.
VideoFails ==
  /\ videoPc \in {"search", "answer"}
  /\ videoPc' = "failed"
  /\ UNCHANGED <<videoOfficial, videoFound, videoReport, videoStored>>
-----------------------------------------------------------------------------
\* collect of the worker: valid entries keep their position in the list.
VideoValid(found) == {p \in DOMAIN found.results : found.results[p].valid}
VideoWarnings(found) ==
  (IF found.warned THEN {"extractor_warning"} ELSE {}) \cup
  (IF VideoValid(found) # DOMAIN found.results THEN {"invalid_entry"} ELSE {})

\* Mutant: a video that is listed twice is counted twice.
VideoFirstsAll(found) == VideoValid(found)

VideoFirsts(found) ==
  {p \in VideoValid(found) : \A q \in VideoValid(found) :
     found.results[q].id = found.results[p].id => p <= q}

VideoOrigin(entry, b) ==
  IF entry.channel \in videoOfficial[b] THEN "official"
  ELSE IF videoOfficial[b] # {} /\ entry.channel # VideoNoChannel THEN "third_party"
  ELSE "unverified"

\* The evidence: by position, the video and the origin of each matching brand.
VideoEvidence(found) ==
  [p \in VideoFirsts(found) |->
     LET entry == found.results[p]
     IN  [id |-> entry.id,
          matches |-> [b \in {c \in VideoBrands : c \in entry.mentions \/
                                                   entry.channel \in videoOfficial[c]}
                         |-> VideoOrigin(entry, b)]]]

VideoHits(evidence, b) == {p \in DOMAIN evidence : b \in DOMAIN evidence[p].matches}
VideoOf(evidence, b, origin) == {p \in VideoHits(evidence, b) : evidence[p].matches[b] = origin}

\* analyze_sample
VideoAnalyzed(found) ==
  LET evidence == VideoEvidence(found)
      counted == Cardinality(DOMAIN evidence)
      complete == /\ counted = VideoTop /\ VideoWarnings(found) = {}
                  /\ VideoFirsts(found) = VideoValid(found)
  IN  [results |-> counted, complete |-> complete, warnings |-> VideoWarnings(found),
       evidence |-> evidence,
       brands |-> [b \in VideoBrands |->
         LET hits == VideoHits(evidence, b)
         IN  [count |-> Cardinality(hits),
              share |-> IF complete THEN (100 * Cardinality(hits)) \div counted ELSE VideoNoShare,
              first |-> {p \in hits : \A q \in hits : p <= q},
              origins |-> [o \in {"official", "third_party", "unverified"} |->
                             Cardinality(VideoOf(evidence, b, o))]]]]

\* collect: the answer of the worker is analysed and archived.
VideoCollect ==
  /\ videoPc = "answer"
  /\ videoReport' = {VideoAnalyzed(videoFound)}
  /\ videoPc' = "collected"
  /\ UNCHANGED <<videoOfficial, videoFound, videoStored>>

\* The page transaction: the snapshot's identity is the policy and the time.
VideoCommit ==
  /\ videoPc = "collected"
  /\ videoStored' = videoStored \cup videoReport
  /\ videoPc' = "done"
  /\ UNCHANGED <<videoOfficial, videoFound, videoReport>>

VideoCommitFails ==
  /\ videoPc = "collected"
  /\ videoPc' = "failed"
  /\ UNCHANGED <<videoOfficial, videoFound, videoReport, videoStored>>

VideoNext ==
  \/ VideoStart \/ VideoSearch \/ VideoFails \/ VideoCollect \/ VideoCommit \/ VideoCommitFails

VideoSpec == VideoInit /\ [][VideoNext]_videoVars
-----------------------------------------------------------------------------
\* SnapshotView.consistent: the view of the API, which counts again.
VideoConsistent(r) ==
  /\ Cardinality(DOMAIN r.evidence) = r.results
  /\ r.results <= VideoTop
  /\ \A p, q \in DOMAIN r.evidence : r.evidence[p].id = r.evidence[q].id => p = q
  /\ \A p \in DOMAIN r.evidence : p <= VideoTop
  /\ r.complete => r.results = VideoTop /\ r.warnings = {}
  /\ \A b \in VideoBrands :
       LET hits == VideoHits(r.evidence, b)
       IN  /\ r.brands[b].count = Cardinality(hits)
           /\ r.brands[b].share = IF r.complete THEN (100 * Cardinality(hits)) \div r.results
                                  ELSE VideoNoShare
           /\ r.brands[b].first = {p \in hits : \A q \in hits : p <= q}
           /\ \A o \in DOMAIN r.brands[b].origins :
                r.brands[b].origins[o] = Cardinality(VideoOf(r.evidence, b, o))

\* The share points the trends serve for a brand.
VideoShares(b) ==
  {r.brands[b].share : r \in {s \in videoStored : VideoConsistent(s)}} \ {VideoNoShare}

\* health
VideoDegraded == \E r \in videoReport : ~r.complete
-----------------------------------------------------------------------------
VideoTypeOK ==
  /\ videoOfficial \in [VideoBrands -> SUBSET VideoChannels]
  /\ videoPc \in {"idle", "search", "answer", "collected", "done", "failed"}
  /\ videoFound.results \in Seq(VideoEntry) /\ Len(videoFound.results) <= VideoTop
  /\ videoFound.warned \in BOOLEAN
  /\ Cardinality(videoReport) <= 1
  /\ videoStored \subseteq videoReport

\* Every snapshot the connector stores is one the API serves: the view of
\* api/visibility.py refuses none of them. A share is served exactly when the
\* search gave top_k different valid videos without a warning, and then no
\* video counts as the official one of two brands.
VideoShareHonest ==
  /\ \A r \in videoStored : VideoConsistent(r)
  /\ videoStored # {} =>
       \A b \in VideoBrands :
         VideoShares(b) # {} <=>
           /\ ~videoFound.warned
           /\ Len(videoFound.results) = VideoTop
           /\ \A p, q \in 1..VideoTop :
                /\ videoFound.results[p].valid
                /\ p # q => videoFound.results[p].id # videoFound.results[q].id
  /\ \A r \in videoStored : ~VideoDegraded =>
       \A p \in DOMAIN r.evidence :
         Cardinality({b \in DOMAIN r.evidence[p].matches :
                        r.evidence[p].matches[b] = "official"}) <= 1
=============================================================================
