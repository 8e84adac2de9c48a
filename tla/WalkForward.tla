----------------------------- MODULE WalkForward -----------------------------
(***************************************************************************)
(* The nightly question whether the scanner's filters should change        *)
(* (services/api, routes/backtest.py).  The archived outcomes are split in *)
(* time, a grid of profiles is measured on both sides of the split, the    *)
(* best is compared with the settings the scanner says it runs with, and   *)
(* the answer is stored for a person to read.  The scanner publishes its   *)
(* settings when it starts and every five minutes.  The scheduler and the  *)
(* dashboard may ask at the same time.                                     *)
(*                                                                         *)
(* A row is an outcome of a signal.  The query orders them by creation; a  *)
(* signal that is decided after a newer one comes between others, and what *)
(* is then archived is what a behaviour archives whose signals are decided *)
(* in turn, so that only those are kept.  Times are in minutes, a reward   *)
(* to risk in hundredths, a precision in tenths of a percent and a utility *)
(* in tenths.  Reading the rows and storing the answer is one step:        *)
(* between them the task only computes.  The Sharpe ratios, the costs and  *)
(* the candidates that are reported beside the choice are left out.        *)
(* PurgedTrainUnpurged is a faulty variant, kept to see the properties     *)
(* fail.                                                                   *)
(***************************************************************************)
EXTENDS Integers, FiniteSetsExt, SequencesExt

CONSTANTS
  Outcomes,     \* what a row can be, with its distance from the row before
  Profiles,     \* the grid, in the order of its loops
  LiveSettings, \* the settings the scanner can be deployed with
  MinTrain,     \* min_train, 30
  MinTest,      \* min_test, 15
  TrainPercent, \* train_pct, 70
  Embargo,      \* embargo_min, 5: a proposal leaves it at that
  Target,       \* the precision asked for, 80.0, in tenths
  Proposers,    \* who asks for a proposal
  MaxRows,      \* bound: archived outcomes
  MaxDeploys,   \* bound: deployments of the scanner
  MaxAnswers    \* bound: answers that are computed

ASSUME WalkForwardAssumption ==
  /\ Outcomes \subseteq
       [gap: Nat, lag: Nat, win: BOOLEAN, score: Nat, rr: Nat, grade: 0..4, session: STRING]
  /\ Profiles \in Seq([score: Nat, rr: Nat, grade: 0..4, session: STRING])
  /\ LiveSettings \subseteq [score: Nat, rr: Nat]
  /\ {MinTrain, MinTest, Embargo} \subseteq Nat \ {0}
  /\ TrainPercent \in 1..99
  /\ {MaxRows, MaxDeploys, MaxAnswers} \subseteq Nat
  /\ Target \in 0..1000

VARIABLES
  archive,    \* the decided signals, oldest first
  settings,   \* the settings the scanner runs with
  live,       \* infusion:scanner:live_config, or nothing
  asked,      \* what each proposer has read of it, or nothing
  proposal,   \* infusion:optimizer:proposal, or nothing
  deploys,
  answers

walkVars == <<archive, settings, live, asked, proposal, deploys, answers>>

Nothing == [nothing |-> TRUE]

\* _PROPOSAL_MIN_SCORE_DIVERGENCE and _PROPOSAL_MIN_RR_DIVERGENCE
ScoreDivergence == 5
RatioDivergence == 30

-----------------------------------------------------------------------------
(* The split. *)

\* Neither side smaller than its minimum.
SplitAt(total) ==
  LET cut == (total * TrainPercent) \div 100
      low == IF cut > total - MinTest THEN total - MinTest ELSE cut
  IN  IF low < MinTrain THEN MinTrain ELSE low

SplitTime(rows) == rows[SplitAt(Len(rows)) + 1].created

PurgedTrainUnpurged(rows) == 1..SplitAt(Len(rows))

\* _purge_and_embargo: the older rows whose outcome was known before the split.
PurgedTrain(rows) ==
  {i \in 1..SplitAt(Len(rows)) : rows[i].resolved < SplitTime(rows)}

\* ... and the newer ones, but for the first minutes.
EmbargoedTest(rows) ==
  {i \in SplitAt(Len(rows)) + 1..Len(rows) : rows[i].created >= SplitTime(rows) + Embargo}

\* LOW_SAMPLE before the split and after it.
Enough(rows) ==
  /\ Len(rows) >= MinTrain + MinTest
  /\ Cardinality(PurgedTrain(rows)) >= MinTrain
  /\ Cardinality(EmbargoedTest(rows)) >= MinTest

-----------------------------------------------------------------------------
(* The grid. *)

\* _row_matches_profile
Matches(r, p) ==
  /\ r.score >= p.score
  /\ r.rr >= p.rr
  /\ r.grade >= p.grade
  /\ p.session \in {"regular", r.session}

\* round(wins / decided * 100, 1), 0 for nothing decided.
Precision(wins, decided) ==
  IF decided = 0 THEN 0 ELSE (2000 * wins + decided) \div (2 * decided)

\* _profile_metrics, of one side of the split.
Metrics(rows, side, p) ==
  LET matched == {i \in side : Matches(rows[i], p)}
      n == Cardinality(matched)
  IN  [decided |-> n,
       precision |-> Precision(Cardinality({i \in matched : rows[i].win}), n),
       rr |-> IF n = 0 THEN 0
              ELSE (2 * MapThenSumSet(LAMBDA i : rows[i].rr, matched) + n) \div (2 * n)]

\* _walkforward_status; FORWARD_MIXED and FORWARD_FAILED differ in their words.
Standing(test) ==
  IF test.decided = 0 THEN "NO_FORWARD_TRADES"
  ELSE IF test.decided < MinTest THEN "FORWARD_BUILDING"
  ELSE IF test.precision >= Target THEN "FORWARD_TARGET_MET"
  ELSE "FORWARD_FAILED"

Utility(train, test) ==
  LET gap == IF test.decided = 0 THEN 0 ELSE train.precision - test.precision
  IN  120 * test.precision
        + 50 * (IF test.decided > 4 * MinTest THEN 4 * MinTest ELSE test.decided)
        + 20 * train.precision
        + 2 * test.rr
        - 35 * (IF gap > 0 THEN gap ELSE 0)
        - (IF Standing(test) = "FORWARD_TARGET_MET" THEN 0 ELSE 12000)
        - (IF Standing(test) = "FORWARD_BUILDING" THEN 4000 ELSE 0)

Measured(rows) ==
  [i \in DOMAIN Profiles |->
     LET train == Metrics(rows, PurgedTrain(rows), Profiles[i])
         test == Metrics(rows, EmbargoedTest(rows), Profiles[i])
     IN  [train |-> train, test |-> test, standing |-> Standing(test),
          utility |-> Utility(train, test)]]

\* "if train["decided"] < min_train: continue"
Trainable(m) == m.train.decided >= MinTrain

\* The key the profiles are sorted by.
Better(m, n) ==
  LET met(x) == IF x.standing = "FORWARD_TARGET_MET" THEN 1 ELSE 0
      key(x) == <<met(x), x.utility, x.test.precision, x.test.decided>>
  IN  \E k \in 1..4 :
        /\ key(m)[k] > key(n)[k]
        /\ \A j \in 1..k-1 : key(m)[j] = key(n)[j]

\* profiles[0], the first of the best in the order of the grid; 0 for none.
Recommended(measured) ==
  LET trained == {i \in DOMAIN measured : Trainable(measured[i])}
      best == {i \in trained : \A j \in trained : ~Better(measured[j], measured[i])}
  IN  IF trained = {} THEN 0 ELSE Min(best)

\* compute_walkforward: 0 when the sample is too small.
Choice(rows) == IF Enough(rows) THEN Recommended(Measured(rows)) ELSE 0

-----------------------------------------------------------------------------

Statuses == {"NO_PROPOSAL", "NO_DRIFT", "PROPOSED"}

\* What is stored: whether the walk-forward has a status, which it has not when the
\* rows could not be read.  The number of the rows there were is history.
Answers ==
  [status: Statuses, profile: 0..Len(Profiles), live: LiveSettings, read: BOOLEAN,
   rows: 0..MaxRows]

\* The rows come in the order of their creation, and a proposal has a profile.
WalkTypeOK ==
  /\ \A i \in DOMAIN archive :
       /\ archive[i].resolved >= archive[i].created
       /\ i > 1 => archive[i].created >= archive[i-1].created
  /\ Len(archive) <= MaxRows
  /\ settings \in LiveSettings
  /\ live \in LiveSettings \cup {Nothing}
  /\ asked \in [Proposers -> LiveSettings \cup {Nothing}]
  /\ proposal \in Answers \cup {Nothing}
  /\ proposal # Nothing =>
       /\ proposal.rows <= Len(archive)
       /\ proposal.profile = 0 <=> proposal.status = "NO_PROPOSAL"
  /\ deploys \in 0..MaxDeploys
  /\ answers \in 0..MaxAnswers

WalkInit ==
  /\ archive = <<>>
  /\ settings \in LiveSettings
  /\ live = settings
  /\ asked = [p \in Proposers |-> Nothing]
  /\ proposal = Nothing
  /\ deploys = 0
  /\ answers = 0

Row(o) ==
  LET created == IF archive = <<>> THEN 0 ELSE Last(archive).created + o.gap
  IN  [created |-> created, resolved |-> created + o.lag, win |-> o.win,
       score |-> o.score, rr |-> o.rr, grade |-> o.grade, session |-> o.session]

\* The tracker decides one more signal, which the query then returns.
Decided(o) ==
  /\ Len(archive) < MaxRows
  /\ archive' = Append(archive, Row(o))
  /\ UNCHANGED <<settings, live, asked, proposal, deploys, answers>>

\* The scanner is started with other settings and publishes them.
Deploy(s) ==
  /\ deploys < MaxDeploys
  /\ deploys' = deploys + 1
  /\ settings' = s
  /\ live' = s
  /\ UNCHANGED <<archive, asked, proposal, answers>>

\* Redis loses the settings and the proposal ...
RedisFlushed ==
  /\ deploys < MaxDeploys
  /\ deploys' = deploys + 1
  /\ live' = Nothing
  /\ proposal' = Nothing
  /\ UNCHANGED <<archive, settings, asked, answers>>

\* ... and the scanner publishes again: publish_live_config.
Republish ==
  /\ live' = settings
  /\ UNCHANGED <<archive, settings, asked, proposal, deploys, answers>>

\* _read_live_config: without it there is no answer.
ReadLiveConfig(p) ==
  /\ asked[p] = Nothing
  /\ live # Nothing
  /\ answers < MaxAnswers
  /\ answers' = answers + 1
  /\ asked' = [asked EXCEPT ![p] = live]
  /\ UNCHANGED <<archive, settings, live, proposal, deploys>>

Abs(x) == IF x < 0 THEN -x ELSE x

Diverged(p, s) ==
  \/ Abs(p.score - s.score) >= ScoreDivergence
  \/ Abs(p.rr - s.rr) >= RatioDivergence

\* What compute_optimizer_proposal answers.
Answer(rows, s) ==
  LET choice == Choice(rows)
      met == choice # 0 /\ Measured(rows)[choice].standing = "FORWARD_TARGET_MET"
  IN  [status |-> IF ~met THEN "NO_PROPOSAL"
                  ELSE IF Diverged(Profiles[choice], s) THEN "PROPOSED" ELSE "NO_DRIFT",
       profile |-> IF met THEN choice ELSE 0, live |-> s, read |-> TRUE,
       rows |-> Len(rows)]

ComputeProposal(p) ==
  /\ asked[p] # Nothing
  /\ proposal' = Answer(archive, asked[p])
  /\ asked' = [asked EXCEPT ![p] = Nothing]
  /\ UNCHANGED <<archive, settings, live, deploys, answers>>

\* The query fails, which is answered and stored as no proposal.
QueryFails(p) ==
  /\ asked[p] # Nothing
  /\ proposal' = [status |-> "NO_PROPOSAL", profile |-> 0, live |-> asked[p],
                  read |-> FALSE, rows |-> Len(archive)]
  /\ asked' = [asked EXCEPT ![p] = Nothing]
  /\ UNCHANGED <<archive, settings, live, deploys, answers>>

\* No connection, or the write fails: nothing is stored.
ComputeFails(p) ==
  /\ asked[p] # Nothing
  /\ asked' = [asked EXCEPT ![p] = Nothing]
  /\ UNCHANGED <<archive, settings, live, proposal, deploys, answers>>

WalkNext ==
  \/ \E o \in Outcomes : Decided(o)
  \/ \E s \in LiveSettings : Deploy(s)
  \/ RedisFlushed
  \/ Republish
  \/ \E p \in Proposers :
       \/ ReadLiveConfig(p) \/ ComputeProposal(p)
       \/ QueryFails(p) \/ ComputeFails(p)

WalkSpec == WalkInit /\ [][WalkNext]_walkVars

-----------------------------------------------------------------------------
(* Properties. *)

\* "information from inside the test period" does not reach the training side:
\* the last outcome that is trained on is known, and the embargo over, before
\* the first signal that is tested on comes.
TrainBeforeTest ==
  Len(archive) >= MinTrain + MinTest
    => \A i \in PurgedTrain(archive), j \in EmbargoedTest(archive) :
         archive[j].created > archive[i].resolved + Embargo

\* A proposal has a proof that was found going forward: at some moment there were
\* enough outcomes of its profile, and enough signals of it that came after that
\* moment and its embargo have met the target.
ProposalHasForwardProof ==
  (proposal # Nothing /\ proposal.status # "NO_PROPOSAL")
    => LET mine == {i \in 1..proposal.rows :
                      Matches(archive[i], Profiles[proposal.profile])}
       IN  \E now \in 0..SplitTime(SubSeq(archive, 1, proposal.rows)) :
             LET old == {i \in mine : archive[i].resolved < now}
                 new == {i \in mine : archive[i].created >= now + Embargo}
             IN  /\ Cardinality(old) >= MinTrain
                 /\ Cardinality(new) >= MinTest
                 /\ Precision(Cardinality({i \in new : archive[i].win}),
                              Cardinality(new)) >= Target

\* "Walk-forward has no profile currently meeting its out-of-sample target": the
\* record says so only if it is true of every profile that could be trained, or if
\* the rows could not be read, of which the record has no status.
NothingWithheld ==
  (proposal # Nothing /\ proposal.status = "NO_PROPOSAL" /\ proposal.read)
    => LET rows == SubSeq(archive, 1, proposal.rows)
       IN  Enough(rows)
             => \A i \in DOMAIN Profiles :
                  LET train == Metrics(rows, PurgedTrain(rows), Profiles[i])
                      test == Metrics(rows, EmbargoedTest(rows), Profiles[i])
                  IN  train.decided >= MinTrain => Standing(test) # "FORWARD_TARGET_MET"

\* A proposal is what its proof allows, and the proof looks forward only.
WalkSafe ==
  /\ WalkTypeOK
  /\ TrainBeforeTest
  /\ ProposalHasForwardProof
  /\ NothingWithheld

\* "The optimizer chooses a profile only from the older training window, then
\* reports how that same profile performs on the newer forward window": had one
\* of the newer signals ended the other way, the same profile would be chosen.
ChosenOnTraining ==
  Enough(archive)
    => \A i \in SplitAt(Len(archive))+1..Len(archive) :
         Choice([archive EXCEPT ![i].win = ~@]) = Choice(archive)
=============================================================================
