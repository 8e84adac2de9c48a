------------------------------- MODULE MCMarket -------------------------------
(***************************************************************************)
(* What is derived from the market data, for one run of TLC: the bars of   *)
(* the feature engine, the strength of the sectors, the verdict on a       *)
(* candidate, the scores of the news and the shadow states of the api.     *)
(* They share no state in the model; `focus', chosen at the start, says    *)
(* which of them this behaviour is about, and the others stay in one       *)
(* initial state of theirs.                                                *)
(***************************************************************************)
EXTENDS FeatureBars, NewsSentiment, ShadowStates, SectorStrength, Verdict

CONSTANTS hdfc, icici, tcs  \* the symbols of the sectors

VARIABLE focus

mcVars == <<barVars, newsVars, shadowVars, sectorVars, verdictVars, focus>>

\* The variables of the part in focus.
own ==
  CASE focus = "bars" -> barVars
    [] focus = "news" -> newsVars
    [] focus = "shadow" -> shadowVars
    [] focus = "sectors" -> sectorVars
    [] focus = "verdict" -> verdictVars

\* The evidence of a symbol: no trade, a watch, a clean breakout and a retest
\* that is not reliable.
Seen(t, s, d, clean_, chase, sure) ==
  [tier |-> t, setup |-> s, direction |-> d, clean |-> clean_,
   chased |-> chase, reliable |-> sure]

MCEvidence ==
  {Seen("NO_CHASE", "IDLE", "BULLISH", FALSE, FALSE, TRUE),
   Seen("EARLY_WATCH", "COILED", "BEARISH", FALSE, FALSE, TRUE),
   Seen("BREAKOUT_NOW", "COILED", "BULLISH", TRUE, TRUE, TRUE),
   Seen("RETEST_ENTRY", "IDLE", "BEARISH", FALSE, FALSE, FALSE)}

\* Two sectors, one with two symbols, which are strong or weak.
MCSectorOf == [m \in {hdfc, icici, tcs} |-> IF m = tcs THEN 2 ELSE 1]
Strong == [vwap |-> TRUE, ema |-> TRUE, change |-> 3, rsi |-> 70, volume |-> 200]
Weak == [vwap |-> FALSE, ema |-> FALSE, change |-> -3, rsi |-> 30, volume |-> 50]
MCReadings == {Strong, Weak}
MCIndexReadings == {[vwap |-> FALSE, change10 |-> -20, rsi |-> 45]}

\* No context, and contexts that support a rise, nothing and a fall.
Market(nifty, sector, points) ==
  [nifty10 |-> nifty, sector10 |-> sector, health |-> points]

MCContexts ==
  {Missing, Market(10, -5, 60), Market(0, 0, 50), Market(-30, 5, 40)}

MCInit ==
  /\ focus \in {"bars", "news", "shadow", "sectors", "verdict"}
  /\ BarsInit
  /\ NewsInit
  /\ focus # "news" => ~model
  /\ ShadowInit
  /\ focus # "shadow" => entry.tier = "NO_CHASE"
  /\ \E r \in {Unread, Weak} :
       /\ stored = [m \in Members |-> r]
       /\ focus # "sectors" => r = Unread
  /\ SectorInit
  /\ VerdictInit
  /\ focus # "verdict" =>
       context = Missing /\ quality = "unknown" /\ chaseable /\ ~gated /\ bullish

MCNext ==
  /\ UNCHANGED focus
  /\ \/ /\ focus = "bars" /\ BarsNext
        /\ UNCHANGED <<newsVars, shadowVars, sectorVars, verdictVars>>
     \/ /\ focus = "news" /\ NewsNext
        /\ UNCHANGED <<barVars, shadowVars, sectorVars, verdictVars>>
     \/ /\ focus = "shadow" /\ ShadowNext
        /\ UNCHANGED <<barVars, newsVars, sectorVars, verdictVars>>
     \/ /\ focus = "sectors" /\ SectorNext
        /\ UNCHANGED <<barVars, newsVars, shadowVars, verdictVars>>
     \/ /\ focus = "verdict" /\ VerdictNext
        /\ UNCHANGED <<barVars, newsVars, shadowVars, sectorVars>>

Of(part, A) == focus = part /\ A /\ UNCHANGED focus

\* The fairness of BarsSpec and of NewsSpec; only one of them has steps.
MCFairness ==
  /\ WF_own(Of("bars", FlushStep("main")) \/ Of("news", PersistEvents))
  /\ WF_own(\/ Of("bars", FlushStep("flusher") \/ TimedFlush)
            \/ Of("news", SentimentStep))
  /\ WF_own(Of("bars", CloserStep))
  /\ WF_own(Of("bars", ClockTicks))

MCSpec == MCInit /\ [][MCNext]_mcVars /\ MCFairness

-----------------------------------------------------------------------------

\* Nothing that waits to be worked on waits for ever: no open bar, no buffered
\* tick, no article.
WorkIsDone == EveryBarCloses /\ BufferDrains /\ ArticlesAreScored
=============================================================================
