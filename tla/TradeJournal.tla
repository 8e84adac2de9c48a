----------------------------- MODULE TradeJournal -----------------------------
(***************************************************************************)
(* The paper-trade journal: a Redis list, newest row first, cut to         *)
(* MAX_JOURNAL_ROWS, that several tasks write without a lock:              *)
(*   scanner   logs every signal it emits (_auto_log_signal of the         *)
(*             scanner's engine), once for each signal id;                 *)
(*   route     the api's POST handlers, which log a signal in the same way *)
(*             or a trade the user enters;                                 *)
(*   user      the POST handlers that review or close a trade: they load   *)
(*             the list, change a row and rewrite the whole list;          *)
(*   monitor   lifecycle_monitor.py, which loads the list, looks up the    *)
(*             bars of every open row, and rewrites the list if a row has  *)
(*             come to an end.                                             *)
(* LPUSH and LTRIM are two calls; a rewrite is one transaction.            *)
(*                                                                         *)
(* A trade is a number; what a row says is its status, and whether it has  *)
(* the epoch that the monitor needs: the api's rows do and the scanner's   *)
(* do not.  The monitor also needs an entry, a stop and a first target     *)
(* above zero.  A trade comes with them or without, and no writer changes  *)
(* them, so Bare, a set of trades, says which the api's rows lack.  How    *)
(* the bars decide is left to TradeLifecycle.                              *)
(* RewrittenPushed and MonitorResolvesUntimed are faulty variants, kept to *)
(* see the properties fail.                                                *)
(***************************************************************************)
EXTENDS Integers, SequencesExt, FiniteSetsExt

CONSTANTS
  SignalIds,       \* the signals there are to log
  JournalRows,     \* MAX_JOURNAL_ROWS
  Openings,        \* the statuses _normalise_trade gives a row, or some of them
  Bare,            \* the trades posted without an entry, a stop or a target1,
                   \* which _normalise_trade then makes 0.0
  MaxTrades,       \* bound: rows begun in a behaviour
  MaxRewrites,     \* bound: reviews and outcomes the user posts
  MaxJournalFaults \* bound: tasks that fail or are restarted

ASSUME JournalAssumption ==
  /\ IsFiniteSet(SignalIds) /\ "none" \notin SignalIds
  /\ JournalRows \in Nat \ {0}
  /\ Openings \subseteq {"WATCH", "PLANNED", "BLOCKED"}
  /\ Bare \subseteq Nat
  /\ MaxTrades \in Nat /\ MaxRewrites \in Nat /\ MaxJournalFaults \in Nat

Loggers == {"scanner", "route"}
Rewriters == {"user", "monitor"}
NoSignal == "none"

VARIABLES
  journal,       \* JOURNAL_KEY
  signalIds,     \* JOURNAL_SIGNAL_IDS_KEY
  logging,       \* per logger: where it is, and its row
  rewriting,     \* per rewriter: where it is, the list it read and will write
  begun,         \* rows begun so far
  aged,          \* trades 1..aged are older than LIFECYCLE_TTL_MIN
  truth,         \* history: the rows, as the last writer of each has left them
  races,         \* history: rewrites of a list that had changed meanwhile
  rewrites,      \* reviews and outcomes posted so far
  journalFaults

journalVars == <<journal, signalIds, logging, rewriting, begun, aged, truth,
                 races, rewrites, journalFaults>>

Trades == 1..MaxTrades
Statuses == {"WATCH", "PLANNED", "BLOCKED", "CLOSED"}
OPEN_STATUSES == {"WATCH", "PLANNED"}

Row(trade, signal, status, epoch) ==
  [trade |-> trade, signal |-> signal, status |-> status, epoch |-> epoch]
NotLogging == [step |-> "idle", row |-> Row(0, NoSignal, "WATCH", FALSE)]
NotRewriting == [step |-> "idle", read |-> <<>>, rows |-> <<>>]

Rows == [trade : 0..MaxTrades, signal : SignalIds \cup {NoSignal}, status : Statuses,
         epoch : BOOLEAN]

\* Loggers between LPUSH and LTRIM, when the list may be longer than it should.
Trimming == {t \in Loggers : logging[t].step = "trim"}

JournalTypeOK ==
  /\ journal \in Seq(Rows)
  /\ Len(journal) <= JournalRows + journalFaults + Cardinality(Trimming)
  /\ signalIds \subseteq SignalIds
  /\ logging \in [Loggers -> [step : {"idle", "push", "trim"}, row : Rows]]
  /\ rewriting \in [Rewriters -> [step : {"idle", "resolve", "save"},
                                read : Seq(Rows), rows : Seq(Rows)]]
  /\ \A t \in Rewriters :
       /\ Len(rewriting[t].read) <= JournalRows
       /\ Len(rewriting[t].rows) = Len(rewriting[t].read)
  /\ begun \in 0..MaxTrades /\ aged \in 0..begun
  /\ truth \in Seq(Rows) /\ races \in {0, 1}
  /\ rewrites \in 0..MaxRewrites
  /\ journalFaults \in 0..MaxJournalFaults

JournalInit ==
  /\ journal = <<>>
  /\ signalIds = {}
  /\ logging = [t \in Loggers |-> NotLogging]
  /\ rewriting = [t \in Rewriters |-> NotRewriting]
  /\ begun = 0
  /\ aged = 0
  /\ truth = <<>>
  /\ races = 0
  /\ rewrites = 0
  /\ journalFaults = 0

-----------------------------------------------------------------------------
(* Logging a trade. *)

CutTo(rows, limit) == IF Len(rows) <= limit THEN rows ELSE SubSeq(rows, 1, limit)

Begin(t, signal, status) ==
  /\ begun < MaxTrades
  /\ begun' = begun + 1
  /\ logging' = [logging EXCEPT ![t] =
       [step |-> "push", row |-> Row(begun + 1, signal, status, t = "route")]]

\* SADD, and what follows if the id was new.

LogSignal(t, signal) ==
  /\ logging[t].step = "idle"
  /\ signal \notin signalIds
  /\ signalIds' = signalIds \cup {signal}
  /\ \E status \in IF t = "scanner" THEN {"WATCH"} ELSE Openings :
       Begin(t, signal, status)
  /\ UNCHANGED <<journal, rewriting, aged, truth, races, rewrites, journalFaults>>

\* create_journal_trade.
CreateTrade ==
  /\ logging["route"].step = "idle"
  /\ \E status \in Openings : Begin("route", NoSignal, status)
  /\ UNCHANGED <<journal, signalIds, rewriting, aged, truth, races, rewrites, journalFaults>>

PushRow(t) ==
  /\ logging[t].step = "push"
  /\ journal' = <<logging[t].row>> \o journal
  /\ truth' = Append(truth, logging[t].row)
  /\ logging' = [logging EXCEPT ![t].step = "trim"]
  /\ UNCHANGED <<signalIds, rewriting, begun, aged, races, rewrites, journalFaults>>

\* LTRIM.
TrimRows(t) ==
  /\ logging[t].step = "trim"
  /\ journal' = CutTo(journal, JournalRows)
  /\ logging' = [logging EXCEPT ![t] = NotLogging]
  /\ UNCHANGED <<signalIds, rewriting, begun, aged, truth, races, rewrites, journalFaults>>

-----------------------------------------------------------------------------
(* Rewriting the list. *)

\* load_rows.
LoadRows == CutTo(journal, JournalRows)

IsOpen(r) == r.status \in OPEN_STATUSES

Found(trade) == \E i \in DOMAIN LoadRows : LoadRows[i].trade = trade

\* What a review or an outcome makes of a row.
Reviewed(r, how) ==
  [r EXCEPT !.status = CASE how = "close" -> "CLOSED"
                         [] how = "taken" /\ r.status = "WATCH" -> "PLANNED"
                         [] OTHER -> r.status]

\* update_journal_discretion and update_journal_outcome, up to the rewrite.
UserLoads(trade) ==
  /\ rewriting["user"].step = "idle"
  /\ rewrites < MaxRewrites
  /\ Found(trade)
  /\ rewrites' = rewrites + 1
  /\ LET rows == LoadRows
     IN  \E how \in {"close", "taken"} :
           rewriting' = [rewriting EXCEPT !["user"] =
             [step |-> "save", read |-> rows,
              rows |-> [i \in DOMAIN rows |->
                 IF rows[i].trade = trade THEN Reviewed(rows[i], how) ELSE rows[i]]]]
  /\ UNCHANGED <<journal, signalIds, logging, begun, aged, truth, races, journalFaults>>

\* The monitor's sweep_once, up to where it waits for the bars.
MonitorLoads ==
  /\ rewriting["monitor"].step = "idle"
  /\ \E i \in DOMAIN LoadRows : IsOpen(LoadRows[i])
  /\ rewriting' = [rewriting EXCEPT !["monitor"] =
       [step |-> "resolve", read |-> LoadRows, rows |-> LoadRows]]
  /\ UNCHANGED <<journal, signalIds, logging, begun, aged, truth, races, rewrites, journalFaults>>

\* A row the monitor can decide, by its bars or by its age: an open one that
\* has an epoch and its levels.  Any other is passed over, however old it is.
Resolvable(r) == IsOpen(r) /\ r.epoch /\ r.trade \notin Bare

\* Some of the rows are decided, those in must among them.
Decide(able, must) ==
  LET rows == rewriting["monitor"].rows
  IN  \E decided \in SUBSET able :
        /\ must \subseteq decided
        /\ rewriting' = [rewriting EXCEPT !["monitor"] =
             IF decided = {} THEN NotRewriting
             ELSE [step |-> "save", read |-> rewriting["monitor"].read,
                   rows |-> [i \in DOMAIN rows |->
                     IF i \in decided THEN [rows[i] EXCEPT !.status = "CLOSED"]
                                      ELSE rows[i]]]]

Able == {i \in DOMAIN rewriting["monitor"].rows : Resolvable(rewriting["monitor"].rows[i])}

MonitorResolvesUntimed ==
  /\ rewriting["monitor"].step = "resolve"
  /\ Decide(Able, {})
  /\ UNCHANGED <<journal, signalIds, logging, begun, aged, truth, races, rewrites, journalFaults>>

\* The bars decide any of the rows, and the time to live those it is over for.
MonitorResolves ==
  /\ rewriting["monitor"].step = "resolve"
  /\ Decide(Able, {i \in Able : rewriting["monitor"].rows[i].trade <= aged})
  /\ UNCHANGED <<journal, signalIds, logging, begun, aged, truth, races, rewrites, journalFaults>>

RewrittenPushed(rows) == CutTo(Reverse(rows), JournalRows)

\* DEL, LPUSH from the last row to the first, LTRIM: the newest is first again.
Rewritten(rows) == CutTo(rows, JournalRows)

\* save_rows.
SaveRows(t) ==
  /\ rewriting[t].step = "save"
  /\ LET read == rewriting[t].read
         rows == rewriting[t].rows
         Written(r) == \E i \in DOMAIN rows : rows[i].trade = r.trade /\ rows[i] # read[i]
         New(r) == rows[CHOOSE i \in DOMAIN rows : rows[i].trade = r.trade]
     IN  /\ journal' = Rewritten(rows)
         /\ races' = IF CutTo(journal, JournalRows) = read THEN races ELSE 1
         /\ truth' = [i \in DOMAIN truth |->
              IF Written(truth[i]) THEN New(truth[i]) ELSE truth[i]]
  /\ rewriting' = [rewriting EXCEPT ![t] = NotRewriting]
  /\ UNCHANGED <<signalIds, logging, begun, aged, rewrites, journalFaults>>

-----------------------------------------------------------------------------

\* A call raises or the process is restarted, before or after Redis has
\* executed it.
LoggerFails ==
  /\ journalFaults < MaxJournalFaults
  /\ journalFaults' = journalFaults + 1
  /\ \E t \in Loggers :
       /\ logging[t].step # "idle"
       /\ journal' \in {journal} \cup (IF logging[t].step = "push"
                                         THEN {<<logging[t].row>> \o journal} ELSE {})
       /\ logging' = [logging EXCEPT ![t] = NotLogging]
  /\ UNCHANGED <<signalIds, rewriting, begun, aged, truth, races, rewrites>>

RewriterFails ==
  /\ journalFaults < MaxJournalFaults
  /\ journalFaults' = journalFaults + 1
  /\ \E t \in Rewriters :
       /\ rewriting[t].step # "idle"
       /\ rewriting' = [rewriting EXCEPT ![t] = NotRewriting]
  /\ UNCHANGED <<journal, signalIds, logging, begun, aged, truth, races, rewrites>>

\* Hours pass; no call takes that long.
TradeAges ==
  /\ aged < begun
  /\ \A t \in Loggers : logging[t].step = "idle"
  /\ \A t \in Rewriters : rewriting[t].step = "idle"
  /\ aged' = aged + 1
  /\ UNCHANGED <<journal, signalIds, logging, rewriting, begun, truth, races,
                 rewrites, journalFaults>>

LoggerStep == \E t \in Loggers : PushRow(t) \/ TrimRows(t)
MonitorStep == MonitorLoads \/ MonitorResolves \/ SaveRows("monitor")

JournalNext ==
  \/ \E t \in Loggers, signal \in SignalIds : LogSignal(t, signal)
  \/ CreateTrade
  \/ LoggerStep
  \/ \E trade \in Trades : UserLoads(trade)
  \/ SaveRows("user")
  \/ MonitorStep
  \/ LoggerFails
  \/ RewriterFails
  \/ TradeAges

\* Redis answers, the monitor's loop runs, and time passes.
JournalFairness ==
  /\ WF_journalVars(LoggerStep)
  /\ WF_journalVars(SaveRows("user"))
  /\ WF_journalVars(MonitorStep)
  /\ SF_journalVars(TradeAges)

JournalSpec == JournalInit /\ [][JournalNext]_journalVars /\ JournalFairness

-----------------------------------------------------------------------------
(* Properties. *)

RowSet == {journal[i] : i \in DOMAIN journal}

\* A signal is logged once, however often and by whomever it is posted, and
\* whatever rewrites bring old lists back.
OneRowPerSignal ==
  \A i, j \in DOMAIN journal :
    (i # j) => /\ journal[i].trade # journal[j].trade
               /\ journal[i].signal = journal[j].signal => journal[i].signal = NoSignal

\* As long as no rewrite has overlapped with another write - which save_rows
\* knows can happen - the list holds the newest rows, as many as it has room
\* for, each as its last writer has left it, whatever was trimmed or rewritten
\* in between.
AnsweredIsKept ==
  races = 0 =>
    \A i \in DOMAIN truth :
      i > Len(truth) + journalFaults - JournalRows => truth[i] \in RowSet

\* The list of trades, under all who write it.
JournalSafe == JournalTypeOK /\ OneRowPerSignal /\ AnsweredIsKept

\* The list as load_rows sees it has an open row the monitor can decide.
OpenAndDecidable == \E i \in DOMAIN LoadRows : Resolvable(LoadRows[i])

\* No open row that has an epoch and its three levels stays open for ever: the
\* monitor closes it, through all failures and overlapping rewrites, or it is
\* displaced.  The rows left out the monitor never closes: every row of the
\* scanner's, which lacks the epoch, and a row of the api's that was posted
\* without an entry, a stop or a target1.
OpenRowResolves == []<>(~OpenAndDecidable)
=============================================================================
