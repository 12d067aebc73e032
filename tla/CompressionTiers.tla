--------------------------- MODULE CompressionTiers ---------------------------
(***************************************************************************)
(* compressSession of the session-compression extension between its        *)
(* duplicate check and its answer (index.ts, rbac.ts, llm-compressor.ts,   *)
(* quality-scorer.ts, compressor.ts, timestamp-parser.ts): what the risk   *)
(* level allows, how each source is dated, which tier compresses it, the   *)
(* retries, the quality check with its rollback, and the totals.  One call *)
(* is one node process.  The tiers T0 to T3 are 0 to 3; a text is the      *)
(* length of its header and of its body, and its words.                    *)
(***************************************************************************)
EXTENDS Integers, Sequences, FiniteSets, FiniteSetsExt

CONSTANTS
  Inputs,          \* what compressSession is called with
  Answers,         \* texts the LLM may answer with
  Word,            \* the words of the texts
  NoText,          \* "no text in hand"
  MetadataLengths  \* how long the metadata of a digest may be

Tiers == 0..3
Found == {"none", "date", "unreadable"}  \* what a place says about the date
Text  == [header : Nat, body : Nat, words : Seq(Word)]
Source ==
  [kind : {"paste", "file", "notion"}, text : Text,
   front : Found, inline : Found, name : Found]

\* CompressInputV1, with the process's environment: whether llm_config and
\* the OpenAI key make a client, and whether there is a Notion key.
Input ==
  [risk : Nat, tier : Tiers, limit : Int, check : {"on", "off", "unset"},
   llm : BOOLEAN, notionKey : BOOLEAN, sources : Seq(Source)]

ASSUME InputsAssumption  == Inputs \subseteq Input /\ Inputs # {}
ASSUME AnswersAssumption == Answers \subseteq Text /\ NoText \notin Text
ASSUME MetadataAssumption ==
  MetadataLengths \subseteq Nat \ {0} /\ MetadataLengths # {}

VARIABLES
  stage,     \* where the call is
  input,     \* what it was called with
  tier,      \* the tier after autoTuneTier
  scoring,   \* enableQualityCheck
  llm,       \* whether llmCompressor is defined
  content,   \* the text of the source in hand
  stamp,     \* where its timestamp is said to be from, and where it is from
  attempt,   \* retries made for it
  text,      \* its compressed text
  draft,     \* the fields of its SessionDigest that are known so far
  summaries, \* the SessionDigests so far
  totals,    \* the aggregated metrics
  billed,    \* history: requests the LLM answered, and charged for
  wasted     \* history: those of them whose answer was empty

tiersVars == <<stage, input, tier, scoring, llm, content, stamp, attempt, text,
               draft, summaries, totals, billed, wasted>>

Over   == {"failed", "refused", "answered"}
Stages == {"authorize", "duplicate", "prepare", "load", "stamp", "compress",
           "ask", "backoff", "score", "write"}

\* Where a date can be from: one of the three places, the file's own time, or
\* the time of the call.  TimestampSource has no word for the last: it is
\* reported as "mtime".
Origins     == {"front_matter", "inline", "filename", "mtime", "now"}
Dated(from) == [source |-> IF from = "now" THEN "mtime" ELSE from,
                from   |-> from]
Stamps      == {Dated(from) : from \in Origins}

\* tier_used, tokens_used, quality_passed, rollback_occurred; madeBy and
\* llmText are history: the tier that did make the text, the LLM's text.
Blank == [tierUsed |-> tier, madeBy |-> 0, tokens |-> 0, scored |-> FALSE,
          passed |-> FALSE, rollback |-> FALSE, llmText |-> NoText]
-----------------------------------------------------------------------------
(* rbac.ts                                                                 *)

RiskLevelPolicies ==
  [level \in 0..2 |->
    [maxCharLimit        |-> <<100000, 10000, 5000>>[level + 1],
     allowedTiers        |-> 0..(3 - level),
     requireQualityCheck |-> level > 0,
     allowNotionSources  |-> level < 2]]

\* An unknown level gets the most restrictive policy.
GetPolicy == RiskLevelPolicies[IF input.risk \in 0..2 THEN input.risk ELSE 2]

\* Mutant: a tier that is not allowed becomes the next lower one.
AutoTuneByOne(requested) ==
  IF requested \in GetPolicy.allowedTiers THEN requested ELSE requested - 1

\* A tier that is not allowed becomes the highest that is.
AutoTuneTier(requested) ==
  IF requested \in GetPolicy.allowedTiers THEN requested
  ELSE Max(GetPolicy.allowedTiers)

RequiresQualityCheck == GetPolicy.requireQualityCheck
-----------------------------------------------------------------------------
(* compressor.ts                                                           *)

\* Mutant: more is dropped from the end than there is.
SliceUnbounded(length, room) ==
  IF length <= room THEN length
  ELSE IF room >= 0 THEN room ELSE length + room

\* body.slice(0, room): a negative room drops that much from the end.
Slice(length, room) ==
  IF length <= room THEN length
  ELSE IF room >= 0 THEN room ELSE Max({0, length + room})

\* Mutant: the two newlines between header and body are forgotten.
RoomUnpadded(header, limit) == limit - header

Room(header, limit) == limit - header - 2

\* The header stays, the body is cut.  Stripped markup and a cut at the end
\* of a sentence only make the body shorter still; another pass over a digest
\* that fits may find another header in it, but one that fits as well.
CompressDigest(t, limit) ==
  [t EXCEPT !.body = Slice(t.body, Room(t.header, limit))]

CharCount(t) == IF t.header > 0 THEN t.header + 2 + t.body ELSE t.body

\* The digest that is written and returned: session id, dates, the character
\* count and the hash come before the text.
FormatSessionDigest(compressed, metadata) ==
  [metadata |-> metadata, text |-> compressed]

DigestLength(digest) == digest.metadata + CharCount(digest.text)
-----------------------------------------------------------------------------
(* timestamp-parser.ts                                                     *)

Labels == <<"front_matter", "inline", "filename">>

\* The three places in the order they are tried; the name needs a path.
Tried(source) ==
  IF source.kind = "paste" THEN <<source.front, source.inline>>
  ELSE <<source.front, source.inline, source.name>>

\* Mutant: the last place that says something wins.
PlaceLast(places) ==
  LET says == {i \in DOMAIN places : places[i] # "none"}
  IN  IF says = {} THEN 0 ELSE Max(says)

\* `!date` is false for an Invalid Date too, so the first place that says
\* anything is the last that is tried.
Place(places) ==
  LET says == {i \in DOMAIN places : places[i] # "none"}
  IN  IF says = {} THEN 0 ELSE Min(says)

\* parseTimestamp, when it returns: an unreadable date, or no date and no
\* path, gives the time of the call.
ParseTimestamp(source) ==
  LET places == Tried(source)
      at     == Place(places)
  IN  IF at # 0
        THEN {Dated(IF places[at] = "date" THEN Labels[at] ELSE "now")}
        ELSE IF source.kind = "paste" THEN {Dated("now")}
        ELSE IF source.kind = "file"  THEN {Dated("mtime")}
        ELSE {}

\* statSync throws for a path that is a Notion URL, and for a file that is
\* gone by now.
StatThrows(source) == source.kind # "paste" /\ Place(Tried(source)) = 0
-----------------------------------------------------------------------------
(* quality-scorer.ts                                                       *)

\* Mutant: a word that both have may be counted again.
LcsSum(ref, sum) ==
  LET dp[cell \in (0..Len(ref)) \X (0..Len(sum))] ==
        LET i == cell[1]  j == cell[2] IN
        IF i = 0 \/ j = 0 THEN 0
        ELSE IF ref[i] = sum[j] THEN dp[<<i - 1, j>>] + 1
        ELSE Max({dp[<<i - 1, j>>], dp[<<i, j - 1>>]})
  IN  dp[<<Len(ref), Len(sum)>>]

\* The length of the longest common subsequence.
Lcs(ref, sum) ==
  LET dp[cell \in (0..Len(ref)) \X (0..Len(sum))] ==
        LET i == cell[1]  j == cell[2] IN
        IF i = 0 \/ j = 0 THEN 0
        ELSE IF ref[i] = sum[j] THEN dp[<<i - 1, j - 1>>] + 1
        ELSE Max({dp[<<i - 1, j>>], dp[<<i, j - 1>>]})
  IN  dp[<<Len(ref), Len(sum)>>]

Threshold(t) == CASE t = 1 -> 85 [] t = 2 -> 70 [] t = 3 -> 60 [] OTHER -> 50

\* calculateRougeL against the threshold, in per cent: the harmonic mean of
\* lcs / sum and lcs / ref is 2 * lcs / (sum + ref).
Passes(ref, sum, t) ==
  /\ ref # <<>> /\ sum # <<>>
  /\ 200 * Lcs(ref, sum) >= Threshold(t) * (Len(ref) + Len(sum))
-----------------------------------------------------------------------------
(* The call.                                                               *)

TiersTypeOK ==
  /\ stage \in Stages \cup Over
  /\ input \in Inputs
  /\ tier \in Tiers
  /\ scoring \in BOOLEAN /\ llm \in BOOLEAN
  /\ content \in Text \cup {NoText}
  /\ stamp \in Stamps
  /\ attempt \in Nat
  /\ text \in Text \cup {NoText}
  /\ stage \in {"stamp", "compress", "ask", "backoff", "score"} => content # NoText
  /\ stage \in {"score", "write"} => text # NoText
  /\ Len(summaries) <= Len(input.sources)
  /\ totals \in [tokens : Nat, rollbacks : Nat]
  /\ billed \in Nat /\ wasted \in Nat

TiersInit ==
  /\ stage = "authorize"
  /\ input \in Inputs
  /\ tier = input.tier
  /\ scoring = FALSE /\ llm = FALSE
  /\ content = NoText /\ stamp = Dated("now")
  /\ attempt = 0
  /\ text = NoText
  /\ draft = Blank
  /\ summaries = <<>>
  /\ totals = [tokens |-> 0, rollbacks |-> 0]
  /\ billed = 0 /\ wasted = 0

SourceInHand == input.sources[Len(summaries) + 1]

\* The context frame decides the tier, the limit and the quality check; an
\* enable_quality_check that is given comes before the policy's.
Authorize ==
  /\ stage = "authorize"
  /\ tier' = AutoTuneTier(input.tier)
  /\ scoring' = (\/ input.check = "on"
                 \/ input.check = "unset" /\ RequiresQualityCheck)
  /\ stage' = IF /\ input.limit <= GetPolicy.maxCharLimit
                 /\ tier' \in GetPolicy.allowedTiers
               THEN "duplicate" ELSE "failed"
  /\ UNCHANGED <<input, llm, content, stamp, attempt, text, draft, summaries,
                 totals, billed, wasted>>

\* SessionCompression says when a call is a duplicate.
PassDuplicateCheck ==
  /\ stage = "duplicate"
  /\ stage' \in {"prepare", "refused"}
  /\ UNCHANGED <<input, tier, scoring, llm, content, stamp, attempt, text,
                 draft, summaries, totals, billed, wasted>>

\* An LLM that is not available leaves llmCompressor undefined and the tier
\* as it is.  One Notion source needs the permission and the key.
Prepare ==
  /\ stage = "prepare"
  /\ llm' = (tier # 0 /\ input.llm)
  /\ LET notion == \E i \in DOMAIN input.sources :
                     input.sources[i].kind = "notion"
     IN  stage' = IF notion => GetPolicy.allowNotionSources /\ input.notionKey
                  THEN "load" ELSE "failed"
  /\ UNCHANGED <<input, tier, scoring, content, stamp, attempt, text, draft,
                 summaries, totals, billed, wasted>>

\* A file or a page may not be had; a page's request is awaited here.
LoadContent ==
  /\ stage = "load"
  /\ Len(summaries) < Len(input.sources)
  /\ draft' = Blank
  /\ \/ /\ content' = SourceInHand.text
        /\ stage' = "stamp"
     \/ /\ SourceInHand.kind # "paste"
        /\ stage' = "failed"
        /\ UNCHANGED content
  /\ UNCHANGED <<input, tier, scoring, llm, stamp, attempt, text, summaries,
                 totals, billed, wasted>>

\* Mutant: a source that cannot be dated is begun again.
StampAgain ==
  /\ stage = "stamp"
  /\ \/ stamp' \in ParseTimestamp(SourceInHand) /\ stage' = "compress"
     \/ StatThrows(SourceInHand) /\ stage' = "load" /\ UNCHANGED stamp
  /\ UNCHANGED <<input, tier, scoring, llm, content, attempt, text, draft,
                 summaries, totals, billed, wasted>>

Stamp ==
  /\ stage = "stamp"
  /\ \/ stamp' \in ParseTimestamp(SourceInHand) /\ stage' = "compress"
     \/ StatThrows(SourceInHand) /\ stage' = "failed" /\ UNCHANGED stamp
  /\ UNCHANGED <<input, tier, scoring, llm, content, attempt, text, draft,
                 summaries, totals, billed, wasted>>

\* The limits that compress() accepts.
LlmLimits == 10..100000

\* T0, or what compress() checks before it asks.
Compress ==
  /\ stage = "compress"
  /\ attempt' = 0
  /\ IF tier = 0 \/ ~llm
       THEN /\ text' = CompressDigest(content, input.limit)
            /\ stage' = "write"
       ELSE /\ stage' = IF CharCount(content) > 0 /\ input.limit \in LlmLimits
                        THEN "ask" ELSE "failed"
            /\ UNCHANGED text
  /\ UNCHANGED <<input, tier, scoring, llm, content, stamp, draft, summaries,
                 totals, billed, wasted>>

MaxRetries == 3

\* Mutant: the retries are not counted.
RetryForever == stage' = "backoff"

\* executeWithRetry, for an error that may pass.
Retry == stage' = IF attempt >= MaxRetries THEN "failed" ELSE "backoff"

\* The request is answered with a text, or without; fails in a way that may
\* pass (its time limit, the network, 429, 5xx); or is refused.
AskLLM ==
  /\ stage = "ask"
  /\ \/ \E reply \in Answers :
          /\ text' = reply
          /\ draft' = [draft EXCEPT !.madeBy = tier, !.tokens = 1,
                                    !.llmText = reply]
          /\ billed' = billed + 1
          /\ stage' = IF scoring THEN "score" ELSE "write"
          /\ UNCHANGED wasted
     \/ /\ billed' = billed + 1
        /\ wasted' = wasted + 1
        /\ Retry
        /\ UNCHANGED <<text, draft>>
     \/ /\ Retry
        /\ UNCHANGED <<text, draft, billed, wasted>>
     \/ /\ stage' = "failed"
        /\ UNCHANGED <<text, draft, billed, wasted>>
  /\ UNCHANGED <<input, tier, scoring, llm, content, stamp, attempt, summaries,
                 totals>>

Backoff ==
  /\ stage = "backoff"
  /\ attempt' = attempt + 1
  /\ stage' = "ask"
  /\ UNCHANGED <<input, tier, scoring, llm, content, stamp, text, draft,
                 summaries, totals, billed, wasted>>

\* Mutant: a rollback starts the fields of the digest afresh.
RolledBackAfresh(d) ==
  [d EXCEPT !.tierUsed = 0, !.madeBy = 0, !.rollback = TRUE, !.tokens = 0]

\* Mutant: the tier that was asked for is kept.
RolledBackInName(d) == [d EXCEPT !.rollback = TRUE, !.madeBy = 0]

\* The fallback tier is T0; what the LLM was paid stays.
RolledBack(d) ==
  [d EXCEPT !.tierUsed = 0, !.madeBy = 0, !.rollback = TRUE]

\* The text that is scored is the LLM's, before it is cut to the limit.
Score ==
  /\ stage = "score"
  /\ stage' = "write"
  /\ LET passed == Passes(content.words, text.words, tier)
         scored == [draft EXCEPT !.scored = TRUE, !.passed = passed]
     IN  /\ text' = IF passed THEN text
                    ELSE CompressDigest(content, input.limit)
         /\ draft' = IF passed THEN scored ELSE RolledBack(scored)
  /\ UNCHANGED <<input, tier, scoring, llm, content, stamp, attempt, summaries,
                 totals, billed, wasted>>

\* What is kept of a source: the digest as it is written and returned,
\* char_count, and as history the text the digest was made from.
SessionDigest(short, metadata) ==
  [digest |-> FormatSessionDigest(short, metadata), charCount |-> CharCount(short),
   given |-> text, stamp |-> stamp, fields |-> draft]

\* The last digest, the summary file, which may not be writable, and what
\* the report adds up.
WriteSummary ==
  /\ stage = "write"
  /\ \/ /\ stage' = "load"
        /\ \E metadata \in MetadataLengths :
             summaries' = Append(summaries,
               SessionDigest(CompressDigest(text, input.limit), metadata))
        /\ totals' = [tokens |-> totals.tokens + draft.tokens,
                      rollbacks |-> totals.rollbacks
                                      + (IF draft.rollback THEN 1 ELSE 0)]
     \/ /\ stage' = "failed"
        /\ UNCHANGED <<summaries, totals>>
  /\ UNCHANGED <<input, tier, scoring, llm, content, stamp, attempt, text,
                 draft, billed, wasted>>

\* Index, timeline and record follow; what may go wrong with those files is
\* in SessionCompression.
Answer ==
  /\ stage = "load"
  /\ Len(summaries) = Len(input.sources)
  /\ stage' = "answered"
  /\ UNCHANGED <<input, tier, scoring, llm, content, stamp, attempt, text,
                 draft, summaries, totals, billed, wasted>>

CallOver == stage \in Over /\ UNCHANGED tiersVars

TiersNext ==
  \/ Authorize \/ PassDuplicateCheck \/ Prepare \/ LoadContent \/ Stamp
  \/ Compress \/ AskLLM \/ Backoff \/ Score \/ WriteSummary \/ Answer
  \/ CallOver

\* One process that goes on whenever it can: an LLM request has a time limit
\* of 30 seconds, a delay is at most 10.  That Notion answers is assumed.
TiersSpec == TiersInit /\ [][TiersNext]_tiersVars /\ WF_tiersVars(TiersNext)

-----------------------------------------------------------------------------
(* Properties.                                                             *)

Fields == {summaries[i].fields : i \in DOMAIN summaries}

\* No risk level ever gets a tier above those its policy names, neither the
\* tier that is asked for, nor one that is used, nor one that is reported,
\* and no call is refused for its tier, since a tier is tuned down first.
TierAllowed ==
  /\ stage \notin {"authorize", "failed"} => tier \in GetPolicy.allowedTiers
  /\ stage = "failed" /\ input.limit <= GetPolicy.maxCharLimit
       => tier \in GetPolicy.allowedTiers
  /\ \A d \in Fields : {d.tierUsed, d.madeBy} \subseteq GetPolicy.allowedTiers

\* Reference for the score: the most words that can be picked from both texts,
\* in the order they stand in, so that what is picked is the same.
Rising(n, m) == {f \in [1..n -> 1..m] : \A j, k \in 1..n : j < k => f[j] < f[k]}
Share(s, t, n) ==
  \E f \in Rising(n, Len(s)), g \in Rising(n, Len(t)) :
    \A k \in 1..n : s[f[k]] = t[g[k]]
LongestCommon(s, t) == Max({n \in 0..Len(s) : Share(s, t, n)})

\* With the check on, a text of the LLM stays only if its score reaches the
\* tier's threshold; one that does not is replaced by the extract, the
\* rollback is reported, and nothing else is reported as one.
QualityKept ==
  \A i \in DOMAIN summaries :
    LET d    == summaries[i].fields
        ref  == input.sources[i].text.words
        sum  == d.llmText.words
        good == /\ Len(ref) + Len(sum) > 0
                /\ 200 * LongestCommon(ref, sum)
                     >= Threshold(tier) * (Len(ref) + Len(sum))
    IN  IF d.llmText = NoText
          THEN ~d.rollback /\ d.madeBy = 0
          ELSE /\ d.rollback <=> scoring /\ ~good
               /\ d.passed <=> scoring /\ good
               /\ d.madeBy = IF d.rollback THEN 0 ELSE tier

\* tier_used is the tier that made the text, except in one case: no LLM was
\* available, the extract was used all the same, and tier_used stays the tier
\* above T0 that was asked for.  Then, and only then, a digest with a tier
\* above T0 reports no tokens, so that the false tier can be told.
TierReportedRan ==
  \A d \in Fields :
    /\ d.tierUsed # d.madeBy <=> tier # 0 /\ ~llm
    /\ d.tierUsed # d.madeBy <=> d.tierUsed # 0 /\ d.tokens = 0

\* The report's total is everything the LLM was paid for the answered
\* requests, those whose text a rollback threw away included; only an empty
\* answer is paid and not reported.
SpendingReported ==
  stage = "answered" =>
    /\ totals.tokens = billed - wasted
    /\ totals.rollbacks = Cardinality({i \in DOMAIN summaries :
         summaries[i].fields.scored /\ ~summaries[i].fields.passed})

\* The limit is that of the text of a digest, which char_count counts; the
\* metadata comes on top of it in what is written and returned, which may so
\* be longer than char_limit by just that much.  The text keeps the limit if
\* the header of what it was made from leaves room for itself and two
\* newlines.  If it does not, as much as the header is too long by is dropped
\* from the end of the body, and at most all of it: the header stays.
DigestFits ==
  \A i \in DOMAIN summaries :
    LET s    == summaries[i]
        over == s.given.header + 2 - input.limit
    IN  /\ DigestLength(s.digest) = s.digest.metadata + s.charCount
        /\ over <= 0 => DigestLength(s.digest) <= s.digest.metadata + input.limit
        /\ over > 0 =>
             /\ s.digest.text.header = s.given.header
             /\ s.digest.text.body <= Max({0, s.given.body - over})

\* A source costs at most four requests, however empty answers and errors
\* mix, and a call at T0 costs none.
RequestsBounded ==
  /\ billed <= (MaxRetries + 1) * Len(input.sources)
  /\ tier = 0 => billed = 0

\* The timestamp is from the first of front matter, text and file name that
\* gives a date, and that place is reported.  "mtime" is reported when none
\* says anything, which is then the time of a file, but for a paste the time
\* of the call, and when the first that says something cannot be read, which
\* ends the search with the time of the call.
StampedByPriority ==
  \A i \in DOMAIN summaries :
    LET source == input.sources[i]
        stamped == summaries[i].stamp
        places == Tried(source)
        silent == \A k \in DOMAIN places : places[k] = "none"
        First(says) == \E k \in DOMAIN places :
          /\ places[k] = says
          /\ \A j \in 1..(k - 1) : places[j] = "none"
    IN  /\ stamped.source = "mtime" =>
             \/ silent /\ stamped.from = IF source.kind = "paste" THEN "now"
                                                              ELSE "mtime"
             \/ First("unreadable") /\ stamped.from = "now"
        /\ stamped.source # "mtime" =>
             /\ stamped.from = stamped.source
             /\ First("date")
             /\ \A k \in DOMAIN places :
                  places[k] = "date" /\ Labels[k] # stamped.from
                    => \E j \in 1..(k - 1) : Labels[j] = stamped.from

\* A call stays within what its risk level and its input allow: tiers, requests
\* and the length of the digests.
WithinPolicy == TiersTypeOK /\ TierAllowed /\ DigestFits /\ RequestsBounded

\* What a call answers is what it did: the tier, the spending, the rollbacks and
\* the place each date was taken from.
AnswerAccurate == TierReportedRan /\ SpendingReported /\ StampedByPriority

\* Every call ends: no mixture of retries, fallbacks and sources goes on
\* for ever.
CallEnds == <>(stage \in Over)
=============================================================================
