----------------------------- MODULE NewsSentiment -----------------------------
(***************************************************************************)
(* News on its way to a sentiment score: the sweep of the api service that *)
(* stores the articles it finds in the feed, once each (news_queue.py),    *)
(* and the loop of the sentiment-engine that takes the oldest articles     *)
(* that are not completed, classifies them as one batch and writes a score *)
(* for each.  The model is loaded once, when the process starts, and may   *)
(* fail to; a batch it cannot classify is scored as unknown and stays      *)
(* pending.  An article is a number, that of its row.                      *)
(* WriteScoreTwice is a faulty variant, kept to see the properties fail.   *)
(***************************************************************************)
EXTENDS Integers, SequencesExt, FiniteSetsExt

CONSTANTS
  Articles,       \* the articles that will be in the feed
  BadArticles,    \* those whose row raises when it is scored or written
  SentimentBatch, \* BATCH_SIZE
  MaxNewsFaults   \* bound: calls that raise, batches the model fails on, restarts

ASSUME NewsAssumption ==
  /\ IsFiniteSet(Articles) /\ BadArticles \subseteq Articles
  /\ SentimentBatch \in Nat \ {0}
  /\ MaxNewsFaults \in Nat

VARIABLES
  feed,        \* the articles in the feed
  news,        \* news_events, in the order of their ids
  completed,   \* those with sentiment_completed_at
  scores,      \* sentiment_scores: unknown or genuine, per article
  model,       \* FinbertClassifier.available
  sweepBatch,  \* the rows of this sweep it has not come to
  answer,      \* what the model said of them, "none" before it was asked
  newsFaults

newsVars == <<feed, news, completed, scores, model, sweepBatch, answer, newsFaults>>

Answers == {"unknown", "genuine"}
Scored == DOMAIN scores

NewsTypeOK ==
  /\ feed \subseteq Articles
  /\ news \in Seq(Articles) /\ IsInjective(news)
  /\ completed \subseteq Range(news)
  /\ Scored \subseteq Range(news) /\ \A a \in Scored : scores[a] \in Answers
  /\ model \in BOOLEAN
  /\ sweepBatch \in Seq(Articles) /\ Len(sweepBatch) <= SentimentBatch
  /\ answer \in Answers \cup {"none"}
  /\ newsFaults \in 0..MaxNewsFaults

NewsInit ==
  /\ feed = {}
  /\ news = <<>>
  /\ completed = {}
  /\ scores = <<>>
  /\ model \in BOOLEAN
  /\ sweepBatch = <<>>
  /\ answer = "none"
  /\ newsFaults = 0

-----------------------------------------------------------------------------
(* api: the news sweep. *)

Appears(a) ==
  /\ a \notin feed /\ a \notin Range(news)
  /\ feed' = feed \cup {a}
  /\ UNCHANGED <<news, completed, scores, model, sweepBatch, answer, newsFaults>>

StoreFeed(rows) ==
  /\ rows # {}
  /\ \E order \in SetToSeqs(rows) : news' = news \o order
  /\ UNCHANGED <<feed, completed, scores, model, sweepBatch, answer, newsFaults>>

\* _persist_events: one transaction that leaves out what is there already.
PersistEvents == StoreFeed(feed \ Range(news))

\* An article leaves the feed once it has been found there.
Leaves(a) ==
  /\ a \in feed /\ a \in Range(news)
  /\ feed' = feed \ {a}
  /\ UNCHANGED <<news, completed, scores, model, sweepBatch, answer, newsFaults>>

-----------------------------------------------------------------------------
(* sentiment-engine: sentiment_loop. *)

Pending(rows) == {i \in DOMAIN rows : rows[i] \notin completed}

\* ORDER BY id LIMIT, of the rows that are not completed.
Oldest(rows, limit) ==
  {i \in Pending(rows) : Cardinality({j \in Pending(rows) : j <= i}) <= limit}

FetchPending ==
  /\ sweepBatch = <<>>
  /\ \E order \in SetToSeqs(Oldest(news, SentimentBatch)) :
       /\ \A j, k \in DOMAIN order : j < k => order[j] < order[k]
       /\ sweepBatch' = [k \in DOMAIN order |-> news[order[k]]]
  /\ sweepBatch' # <<>>
  /\ answer' = "none"
  /\ UNCHANGED <<feed, news, completed, scores, model, newsFaults>>

\* classify_batch: one answer for all of them, unknown if the model is not
\* there or raises.
ClassifyBatch ==
  /\ sweepBatch # <<>> /\ answer = "none"
  /\ \/ answer' = (IF model THEN "genuine" ELSE "unknown") /\ UNCHANGED newsFaults
     \/ model /\ answer' = "unknown"
        /\ newsFaults < MaxNewsFaults /\ newsFaults' = newsFaults + 1
  /\ UNCHANGED <<feed, news, completed, scores, model, sweepBatch>>

WithScore(a) == [b \in Scored \cup {a} |-> IF b = a THEN answer ELSE scores[b]]

WriteScoreTwice(a) ==
  /\ scores' = WithScore(a)
  /\ completed' = completed

\* _write_result: one transaction.
WriteScore(a) ==
  /\ scores' = WithScore(a)
  /\ completed' = IF answer = "genuine" THEN completed \cup {a} ELSE completed

\* The row of a bad article raises; any other may, for once.
NextArticle ==
  /\ sweepBatch # <<>> /\ answer # "none"
  /\ LET a == Head(sweepBatch)
     IN  \/ a \notin BadArticles /\ WriteScore(a) /\ UNCHANGED newsFaults
         \/ a \in BadArticles /\ UNCHANGED <<scores, completed, newsFaults>>
         \/ /\ newsFaults < MaxNewsFaults /\ newsFaults' = newsFaults + 1
            /\ UNCHANGED <<scores, completed>>
  /\ sweepBatch' = Tail(sweepBatch)
  /\ UNCHANGED <<feed, news, model, answer>>

\* The process is restarted, and loads the model again.
RestartEngine ==
  /\ newsFaults < MaxNewsFaults
  /\ newsFaults' = newsFaults + 1
  /\ model' \in BOOLEAN
  /\ sweepBatch' = <<>>
  /\ answer' = "none"
  /\ UNCHANGED <<feed, news, completed, scores>>

SentimentStep == FetchPending \/ ClassifyBatch \/ NextArticle

NewsNext ==
  \/ \E a \in Articles : Appears(a) \/ Leaves(a)
  \/ PersistEvents
  \/ SentimentStep
  \/ RestartEngine

\* Both loops sleep and sweep for ever.
NewsSpec ==
  /\ NewsInit /\ [][NewsNext]_newsVars
  /\ WF_newsVars(PersistEvents) /\ WF_newsVars(SentimentStep)

-----------------------------------------------------------------------------
(* Properties. *)

\* An article is completed exactly when its score is the model's own: never
\* with a made-up one, and never left pending with a genuine one.
CompletedIsGenuine ==
  completed = {a \in Scored : scores[a] = "genuine"}

\* What the model has said of an article is never overwritten by "unknown".
GenuineKept ==
  \A a \in Scored : scores[a] = "genuine" => a \in DOMAIN scores' /\ scores'[a] = "genuine"

\* What is said of an article is what the model said of it, and stays so: every
\* step leaves the marks and the scores in agreement, and the genuine ones alone.
NewsSafe == []NewsTypeOK /\ [][CompletedIsGenuine' /\ GenuineKept]_newsVars

\* Once the model stays loaded every article gets its score, however many were
\* scored as unknown before, and although fewer bad ones than fill a batch are
\* fetched first in every sweep.
ArticlesAreScored ==
  (<>[]model /\ Cardinality(BadArticles) < SentimentBatch) =>
    <>[](Range(news) \ BadArticles \subseteq completed)
=============================================================================
