------------------------------- MODULE Verdict -------------------------------
(***************************************************************************)
(* The unified verdict on a candidate (services/scanner, verdict_engine.py *)
(* and alignment.py): families of evidence read bullish, bearish or not at *)
(* all, their weights make a score for the candidate's direction, the      *)
(* score a band, and the hard gates a block.  The eight families of price  *)
(* structure share one weight.  Between two candidates of a symbol the     *)
(* caches the families are read from change one at a time, so a step       *)
(* changes one of them and judges the next candidate.                      *)
(*                                                                         *)
(* What a family is read from is abstracted to its read; the market's      *)
(* context is not, because it is read relative to the candidate: index and *)
(* sector move in tenths of a percent, the health is a score.  Scores are  *)
(* in tenths, a half is rounded up.  Reasons and reports are left out.     *)
(* ForBullish and MarketContextReversed are faulty variants, kept to see   *)
(* the properties fail.                                                    *)
(***************************************************************************)
EXTENDS Integers, FiniteSetsExt

CONSTANTS
  Read,      \* the families that can be read in this run
  Contexts   \* the market contexts of this run

\* alignment.py's families, under one weight.
StructureFamilies ==
  {"structure", "candlestick", "zone", "ict", "regime", "ma_regime", "donchian",
   "wyckoff"}

StructureClusterWeight == 25

\* FAMILY_WEIGHTS, with the nine families of which each has a weight of its own.
FamilyWeight(f) ==
  CASE f \in {"compression", "volume"} -> 6
    [] f = "relative_strength" -> 10
    [] f = "market_context" -> 13
    [] f \in {"accumulation", "microstructure", "futures_positioning",
               "options_positioning", "sentiment"} -> 8

\* The families that argue for a rise or are silent.
OneSided == {"compression", "volume"}

NoRead == "none"
Missing == [missing |-> TRUE]

\* What a family can read.
Reads(f) == {"bull", NoRead} \cup (IF f \in OneSided THEN {} ELSE {"bear"})

ASSUME VerdictAssumption ==
  /\ Read \subseteq StructureFamilies \cup
       {"accumulation", "compression", "relative_strength", "microstructure",
        "futures_positioning", "options_positioning", "sentiment", "volume"}
  /\ Contexts \subseteq [nifty10: Int, sector10: Int, health: 0..100] \cup {Missing}

VARIABLES
  read,       \* what each family reads
  context,    \* infusion:market_context, or nothing
  quality,    \* data_quality_score: unknown, or against the limits 80 and 90
  chaseable,  \* the candidate's trigger is near
  gated,      \* another hard gate is closed
  bullish,    \* the candidate's direction
  verdict     \* the band it was given

inputs == <<read, context, quality, chaseable, gated>>
verdictVars == <<inputs, bullish, verdict>>

Qualities == {"unknown", "full", "degraded", "failed"}

\* Worst first.
Bands ==
  <<"HARD_BLOCKED", "NO_EDGE", "DEVELOPING", "PRE_BREAKOUT_WATCH", "READY",
    "ARMED_CANDIDATE">>

Grade(v) == CHOOSE i \in DOMAIN Bands : Bands[i] = v

-----------------------------------------------------------------------------
(* The market's context, for a direction. *)

Bounded(x, limit) == IF x > limit THEN limit ELSE IF x < -limit THEN -limit ELSE x

\* _compute_directional_context, in tenths: 50 is neutral, the index moves it by
\* up to 20, the sector by up to 15, the health by up to 15.
DirectionalContext(c, up) ==
  LET sign == IF up THEN 1 ELSE -1
      score == 500 + sign * (Bounded(8 * c.nifty10, 200) + Bounded(6 * c.sector10, 150)
                             + 3 * (c.health - 50))
  IN  IF score < 0 THEN 0 ELSE IF score > 1000 THEN 1000 ELSE score

MarketContextReversed(c, up) ==
  IF c = Missing THEN NoRead
  ELSE LET score == DirectionalContext(c, up)
       IN  IF score > 530 THEN "bull" ELSE IF score < 470 THEN "bear" ELSE NoRead

\* _market_context_family: relative to the candidate, so for a bearish one what
\* supports it reads bearish.
MarketContext(c, up) ==
  IF c = Missing THEN NoRead
  ELSE LET score == DirectionalContext(c, up)
           supports == IF up THEN "bull" ELSE "bear"
           opposes == IF up THEN "bear" ELSE "bull"
       IN  IF score > 530 THEN supports ELSE IF score < 470 THEN opposes ELSE NoRead

-----------------------------------------------------------------------------
(* The weighted score. *)

\* What all families read for a candidate of this direction.
Absolute(r, c, up) ==
  [f \in Read \cup {"market_context"} |->
     IF f = "market_context" THEN MarketContext(c, up) ELSE r[f]]

Available(all) == {f \in DOMAIN all : all[f] # NoRead}

ForBullish(all, up) == {f \in DOMAIN all : all[f] = "bull"}

For(all, up) == {f \in DOMAIN all : all[f] = (IF up THEN "bull" ELSE "bear")}

\* _family_weights: the weight of a set of families, times the number of the
\* available structure families, who share theirs.
Weight(families, available) ==
  LET sharers == Cardinality(available \cap StructureFamilies)
      scale == IF sharers = 0 THEN 1 ELSE sharers
  IN  StructureClusterWeight * Cardinality(families \cap StructureFamilies)
        + scale * MapThenSumSet(FamilyWeight, families \ StructureFamilies)

\* directional_score, in tenths.
Score(all, up) ==
  LET available == Available(all)
      total == Weight(available, available)
  IN  IF available = {} THEN 0
      ELSE (2000 * Weight(For(all, up), available) + total) \div (2 * total)

\* _verdict_band
VerdictBand(score) ==
  IF score >= 850 THEN "ARMED_CANDIDATE"
  ELSE IF score >= 750 THEN "READY"
  ELSE IF score >= 650 THEN "PRE_BREAKOUT_WATCH"
  ELSE IF score >= 550 THEN "DEVELOPING"
  ELSE "NO_EDGE"

\* _hard_gates: bad data, or one of the others.
HardBlocked(dq, gate) == gate \/ dq = "failed"

\* compute_verdict: 85 alone does not arm.
Judge(r, c, up, dq, near, gate) ==
  LET all == Absolute(r, c, up)
      band == VerdictBand(Score(all, up))
      broad == Cardinality(For(all, up)) >= 5
  IN  IF HardBlocked(dq, gate) THEN "HARD_BLOCKED"
      ELSE IF band = "ARMED_CANDIDATE" /\ ~(near /\ dq # "degraded" /\ broad)
        THEN "READY"
      ELSE band

-----------------------------------------------------------------------------

VerdictTypeOK ==
  /\ read \in [Read -> {"bull", "bear", NoRead}]
  /\ \A f \in Read \cap OneSided : read[f] # "bear"
  /\ context \in Contexts
  /\ quality \in Qualities
  /\ chaseable \in BOOLEAN
  /\ gated \in BOOLEAN
  /\ bullish \in BOOLEAN
  /\ \E i \in DOMAIN Bands : verdict = Bands[i]

Judged ==
  verdict' = Judge(read', context', bullish, quality', chaseable', gated')

VerdictInit ==
  /\ read = [f \in Read |-> NoRead]
  /\ context \in Contexts
  /\ quality \in Qualities
  /\ chaseable \in BOOLEAN
  /\ gated \in BOOLEAN
  /\ bullish \in BOOLEAN
  /\ verdict = Judge(read, context, bullish, quality, chaseable, gated)

\* One family reads something else when the next candidate comes.
FamilyReads(f) ==
  /\ \E new \in Reads(f) \ {read[f]} : read' = [read EXCEPT ![f] = new]
  /\ UNCHANGED <<context, quality, chaseable, gated, bullish>>
  /\ Judged

ContextMoves ==
  /\ context' \in Contexts \ {context}
  /\ UNCHANGED <<read, quality, chaseable, gated, bullish>>
  /\ Judged

QualityMoves ==
  /\ quality' \in Qualities \ {quality}
  /\ UNCHANGED <<read, context, chaseable, gated, bullish>>
  /\ Judged

TriggerMoves ==
  /\ chaseable' = ~chaseable
  /\ UNCHANGED <<read, context, quality, gated, bullish>>
  /\ Judged

GateMoves ==
  /\ gated' = ~gated
  /\ UNCHANGED <<read, context, quality, chaseable, bullish>>
  /\ Judged

VerdictNext ==
  \/ \E f \in Read : FamilyReads(f)
  \/ ContextMoves \/ QualityMoves \/ TriggerMoves \/ GateMoves

VerdictSpec == VerdictInit /\ [][VerdictNext]_verdictVars

-----------------------------------------------------------------------------
(* Properties. *)

\* How a read stands to the candidate: 1 supports, -1 contradicts.
Stance(r) ==
  IF r = NoRead THEN 0 ELSE IF (r = "bull") = bullish THEN 1 ELSE -1

\* New evidence for a candidate never lowers its verdict and new evidence
\* against it never raises it, although every read changes the weights of the
\* families it shares one with and the total all of them are divided by.
BetterIsNeverWorse ==
  [][(read' # read)
       => LET better == \A f \in Read : Stance(read'[f]) >= Stance(read[f])
              worse == \A f \in Read : Stance(read'[f]) <= Stance(read[f])
          IN  /\ better => Grade(verdict') >= Grade(verdict)
              /\ worse => Grade(verdict') <= Grade(verdict)]_verdictVars

Opposite(r) == IF r = "bull" THEN "bear" ELSE IF r = "bear" THEN "bull" ELSE r

Mirrored(c) ==
  IF c = Missing THEN c
  ELSE [nifty10 |-> -c.nifty10, sector10 |-> -c.sector10, health |-> 100 - c.health]

\* A fall is judged as a rise is: turn every read and the whole market round, and
\* the candidate for the other direction is given the same verdict.  The families
\* that can only argue for a rise have to be silent.
FallsAreJudgedAlike ==
  (\A f \in Read \cap OneSided : read[f] = NoRead)
    => Judge([f \in Read |-> Opposite(read[f])], Mirrored(context), ~bullish,
             quality, chaseable, gated) = verdict

\* A verdict on a candidate owes nothing to its direction.
VerdictSafe == VerdictTypeOK /\ FallsAreJudgedAlike
=============================================================================
