--------------------------- MODULE ScannerSignals ---------------------------
(***************************************************************************)
(* The signal path of the scanner service: one feature vector is evaluated *)
(* by every strategy in turn (engine.process_feature), each candidate goes *)
(* through the suppression gate (suppression.evaluate) and, if it passes,  *)
(* is published by a sequence of Redis commands (engine._publish_active).  *)
(* A second asyncio task sweeps the active set every minute                *)
(* (engine.cleanup_expired).  The two tasks interleave at every await, and *)
(* keys expire between any two commands.                                   *)
(*                                                                         *)
(* The scanner handles one feature vector at a time, so one candidate is   *)
(* in flight.  A Redis error ends the handler: main_loop logs it and       *)
(* acknowledges the message, so nothing is retried.  A process crash has   *)
(* the same effect on the path, since the consumer only asks for new       *)
(* messages, and it also ends the sweep.                                   *)
(*                                                                         *)
(* CheckCooldownSkipped and ExpireLegacyForgotten are faulty variants,     *)
(* kept to see the properties fail.                                        *)
(***************************************************************************)
EXTENDS RedisKeys, FiniteSets

CONSTANTS
  Symbols,       \* symbols the scanner follows
  NStrategies,   \* strategies, in the order they are registered
  SignalTtl,     \* settings.signal_ttl_sec, in ticks
  CooldownTtl,   \* settings.cooldown_sec, in ticks
  SweepPeriod    \* longest time between two starts of the sweep, in ticks

ASSUME ScannerAssumption ==
  /\ NStrategies \in Nat \ {0}
  /\ SignalTtl \in Nat \ {0}
  /\ CooldownTtl \in Nat \ {0}
  /\ SignalTtl <= CooldownTtl
  /\ SweepPeriod \in Nat \ {0}

Strategies == 1..NStrategies

\* A member "symbol:strategy_id" of the active set.
Pairs == Symbols \X Strategies

VARIABLES
  signalKey,   \* life of infusion:signal:{symbol}:{strategy}
  legacyKey,   \* life of infusion:signal:{symbol}
  active,      \* members of the ZSET infusion:signals:active
  cooldown,    \* ticks left of infusion:cooldown:{symbol}:{strategy}
  job,         \* the feature vector in hand: symbol, strategy, next step
  sweep,       \* the cleanup task: its step, the members it has yet to look at
  sweepAge,    \* ticks since the sweep last started
  emittedAge,  \* history: ticks since the pair was last put on scan:signals,
               \* capped at CooldownTtl
  unlogged,    \* history: pairs whose last signal has no journal row (yet)
  torn         \* history: pairs whose last publication was cut short

keys == <<signalKey, legacyKey, active, cooldown>>
sweepVars == <<sweep, sweepAge>>
history == <<emittedAge, unlogged, torn>>
vars == <<keys, job, sweepVars, history>>

GateSteps == {"duplicate", "cooldown", "quality"}

\* What is left to do after the XADD of _publish_active.
PublishSteps == {"hset_signal", "hset_legacy", "expire_signal", "expire_legacy",
                 "zadd", "journal", "set_cooldown"}

Steps == {"evaluate", "xadd"} \cup GateSteps \cup PublishSteps

Idle == [step |-> "idle"]
Jobs == {Idle} \cup [sym: Symbols, strat: Strategies, step: Steps]

Asleep == [step |-> "asleep"]
Sweeps == {Asleep} \cup [step: {"exists"}, left: SUBSET Pairs]
                   \cup [step: {"zrem"}, left: SUBSET Pairs, member: Pairs]

InHand == <<job.sym, job.strat>>

\* TRUE while pair p is between its XADD and the end of _publish_active.
InFlight(p) == job.step \in PublishSteps /\ InHand = p

TypeOK ==
  /\ signalKey \in [Pairs -> Life(SignalTtl)]
  /\ legacyKey \in [Symbols -> Life(SignalTtl)]
  /\ active \subseteq Pairs
  /\ cooldown \in [Pairs -> 0..CooldownTtl]
  /\ job \in Jobs
  /\ sweep \in Sweeps
  /\ sweepAge \in 0..SweepPeriod
  /\ emittedAge \in [Pairs -> 0..CooldownTtl]
  /\ unlogged \subseteq Pairs
  /\ torn \subseteq Pairs

Init ==
  /\ signalKey = [p \in Pairs |-> Absent]
  /\ legacyKey = [s \in Symbols |-> Absent]
  /\ active = {}
  /\ cooldown = [p \in Pairs |-> 0]
  /\ job = Idle
  /\ sweep = Asleep
  /\ sweepAge = 0
  /\ emittedAge = [p \in Pairs |-> CooldownTtl]
  /\ unlogged = {}
  /\ torn = {}

-----------------------------------------------------------------------------
(* The feature handler. *)

\* The loop over get_strategies(): on to the next one, or done with the vector.
NextStrategy ==
  job' = IF job.strat < NStrategies
           THEN [sym |-> job.sym, strat |-> job.strat + 1, step |-> "evaluate"]
           ELSE Idle

GoTo(step) == job' = [job EXCEPT !.step = step]

\* A closed, warmed-up bar of symbol s reaches the strategies.
ProcessFeature(s) ==
  /\ job = Idle
  /\ job' = [sym |-> s, strat |-> 1, step |-> "evaluate"]
  /\ UNCHANGED <<keys, sweepVars, history>>

\* The strategy returns no candidate; or one, which the F&O ban suppresses; or
\* one that goes on to the gates that read the scanner's own keys.
Evaluate ==
  /\ job.step = "evaluate"
  /\ NextStrategy \/ GoTo("duplicate")
  /\ UNCHANGED <<keys, sweepVars, history>>

\* A suppressed candidate only goes to the audit stream scan:suppressed.
CheckDuplicate ==
  /\ job.step = "duplicate"
  /\ IF InHand \in active THEN NextStrategy ELSE GoTo("cooldown")
  /\ UNCHANGED <<keys, sweepVars, history>>

CheckCooldownSkipped ==
  /\ job.step = "cooldown"
  /\ GoTo("quality")
  /\ UNCHANGED <<keys, sweepVars, history>>

CheckCooldown ==
  /\ job.step = "cooldown"
  /\ IF cooldown[InHand] > 0 THEN NextStrategy ELSE GoTo("quality")
  /\ UNCHANGED <<keys, sweepVars, history>>

\* Sector, regime, conviction, theta and precision gates: functions of the
\* candidate and of the market, which leave the scanner's keys alone.
CheckQuality ==
  /\ job.step = "quality"
  /\ NextStrategy \/ GoTo("xadd")
  /\ UNCHANGED <<keys, sweepVars, history>>

PublishStream ==
  /\ job.step = "xadd"
  /\ GoTo("hset_signal")
  /\ emittedAge' = [emittedAge EXCEPT ![InHand] = 0]
  /\ unlogged' = unlogged \cup {InHand}
  /\ torn' = torn \ {InHand}
  /\ UNCHANGED <<keys, sweepVars>>

HsetSignal ==
  /\ job.step = "hset_signal"
  /\ signalKey' = [signalKey EXCEPT ![InHand] = Touched(@)]
  /\ GoTo("hset_legacy")
  /\ UNCHANGED <<legacyKey, active, cooldown, sweepVars, history>>

HsetLegacy ==
  /\ job.step = "hset_legacy"
  /\ legacyKey' = [legacyKey EXCEPT ![job.sym] = Touched(@)]
  /\ GoTo("expire_signal")
  /\ UNCHANGED <<signalKey, active, cooldown, sweepVars, history>>

ExpireSignal ==
  /\ job.step = "expire_signal"
  /\ signalKey' = [signalKey EXCEPT ![InHand] = Expiring(@, SignalTtl)]
  /\ GoTo("expire_legacy")
  /\ UNCHANGED <<legacyKey, active, cooldown, sweepVars, history>>

ExpireLegacyForgotten ==
  /\ job.step = "expire_legacy"
  /\ GoTo("zadd")
  /\ UNCHANGED <<keys, sweepVars, history>>

ExpireLegacy ==
  /\ job.step = "expire_legacy"
  /\ legacyKey' = [legacyKey EXCEPT ![job.sym] = Expiring(@, SignalTtl)]
  /\ GoTo("zadd")
  /\ UNCHANGED <<signalKey, active, cooldown, sweepVars, history>>

AddActive ==
  /\ job.step = "zadd"
  /\ active' = active \cup {InHand}
  /\ GoTo("journal")
  /\ UNCHANGED <<signalKey, legacyKey, cooldown, sweepVars, history>>

\* _auto_log_signal.  A signal id is fresh for each candidate, so SADD always
\* adds it and the row is pushed.
AutoLogSignal ==
  /\ job.step = "journal"
  /\ unlogged' = unlogged \ {InHand}
  /\ GoTo("set_cooldown")
  /\ UNCHANGED <<keys, sweepVars, emittedAge, torn>>

SetCooldown ==
  /\ job.step = "set_cooldown"
  /\ cooldown' = [cooldown EXCEPT ![InHand] = CooldownTtl]
  /\ NextStrategy
  /\ UNCHANGED <<signalKey, legacyKey, active, sweepVars, history>>

\* A Redis command of the handler raises: the rest of the vector is skipped.
HandlerFails ==
  /\ job # Idle
  /\ torn' = IF job.step \in PublishSteps THEN torn \cup {InHand} ELSE torn
  /\ job' = Idle
  /\ UNCHANGED <<keys, sweepVars, emittedAge, unlogged>>

HandlerStep ==
  \/ Evaluate
  \/ CheckDuplicate
  \/ CheckCooldown
  \/ CheckQuality
  \/ PublishStream
  \/ HsetSignal
  \/ HsetLegacy
  \/ ExpireSignal
  \/ ExpireLegacy
  \/ AddActive
  \/ AutoLogSignal
  \/ SetCooldown

-----------------------------------------------------------------------------
(* The cleanup task. *)

\* ZRANGE: the members the sweep will look at, whatever happens meanwhile.
SweepStart ==
  /\ sweep = Asleep
  /\ sweepAge > 0
  /\ sweep' = [step |-> "exists", left |-> active]
  /\ sweepAge' = 0
  /\ UNCHANGED <<keys, job, history>>

\* EXISTS on the key of the member's symbol, not on the member's own key.
SweepExists(m) ==
  /\ sweep.step = "exists"
  /\ m \in sweep.left
  /\ sweep' = IF Exists(legacyKey[m[1]])
                THEN [step |-> "exists", left |-> sweep.left \ {m}]
                ELSE [step |-> "zrem", left |-> sweep.left \ {m}, member |-> m]
  /\ UNCHANGED <<keys, job, sweepAge, history>>

SweepRemove ==
  /\ sweep.step = "zrem"
  /\ active' = active \ {sweep.member}
  /\ sweep' = [step |-> "exists", left |-> sweep.left]
  /\ UNCHANGED <<signalKey, legacyKey, cooldown, job, sweepAge, history>>

SweepEnd ==
  /\ sweep.step = "exists"
  /\ sweep.left = {}
  /\ sweep' = Asleep
  /\ UNCHANGED <<keys, job, sweepAge, history>>

\* cleanup_loop logs the error and sleeps for another minute.
SweepFails ==
  /\ sweep # Asleep
  /\ sweep' = Asleep
  /\ UNCHANGED <<keys, job, sweepAge, history>>

SweepStep ==
  \/ SweepStart
  \/ \E m \in Pairs : SweepExists(m)
  \/ SweepRemove
  \/ SweepEnd

-----------------------------------------------------------------------------

\* A crash of the process ends both tasks; Redis keeps the keys.
Crash ==
  /\ job # Idle \/ sweep # Asleep
  /\ torn' = IF job.step \in PublishSteps THEN torn \cup {InHand} ELSE torn
  /\ job' = Idle
  /\ sweep' = Asleep
  /\ UNCHANGED <<keys, sweepAge, emittedAge, unlogged>>

\* Time passes for every key.
Tick ==
  /\ sweepAge' = IF sweepAge < SweepPeriod THEN sweepAge + 1 ELSE SweepPeriod
  /\ signalKey' = [p \in Pairs |-> Aged(signalKey[p])]
  /\ legacyKey' = [s \in Symbols |-> Aged(legacyKey[s])]
  /\ cooldown' = [p \in Pairs |-> Aged(cooldown[p])]
  /\ emittedAge' = [p \in Pairs |->
       IF emittedAge[p] < CooldownTtl THEN emittedAge[p] + 1 ELSE CooldownTtl]
  /\ UNCHANGED <<active, job, sweep, unlogged, torn>>

Next ==
  \/ \E s \in Symbols : ProcessFeature(s)
  \/ HandlerStep
  \/ SweepStep
  \/ HandlerFails
  \/ SweepFails
  \/ Crash
  \/ Tick

Spec == Init /\ [][Next]_vars

\* No command fails, and the sweep is never overdue: its loop sleeps a minute
\* between two runs.
FaultFreeNext ==
  \/ \E s \in Symbols : ProcessFeature(s)
  \/ HandlerStep
  \/ SweepStep
  \/ sweepAge < SweepPeriod /\ Tick

\* Redis answers every command in the end, the event loop runs both tasks and
\* time passes.  No fairness for ProcessFeature: the market may go quiet.
Fairness == WF_vars(HandlerStep) /\ WF_vars(SweepStep) /\ WF_vars(Tick)

FaultFreeSpec == Init /\ [][FaultFreeNext]_vars /\ Fairness

-----------------------------------------------------------------------------
(* Properties. *)

\* A pair is put on scan:signals at most once per cooldown, whatever the sweep
\* and the clock do between the commands of the handler; the one exception is
\* a publication that was cut short before it reached set_cooldown.
EmissionsSpaced ==
  job.step = "xadd" => emittedAge[InHand] = CooldownTtl \/ InHand \in torn

\* The cooldown outlives the signal: while the hash of a signal is there, its
\* pair is blocked by the cooldown, even if the sweep has already dropped it
\* from the active set because of the key it shares with other strategies.
LiveSignalInCooldown ==
  \A p \in Pairs :
    Exists(signalKey[p]) /\ ~InFlight(p) /\ p \notin torn => cooldown[p] > 0

\* A hash without an expiry would show a signal for ever.  HSET and EXPIRE are
\* separate commands: only a publication in flight, or one cut short, leaves
\* one behind, on its own key or on the one the strategies share.
NoImmortalSignal ==
  \A p \in Pairs :
    /\ signalKey[p] = NoExpiry => InFlight(p) \/ p \in torn
    /\ legacyKey[p[1]] = NoExpiry =>
         \E n \in Strategies : InFlight(<<p[1], n>>) \/ <<p[1], n>> \in torn

\* Every member leaves the active set in the end, although the sweep looks at
\* a key that the other strategies of the symbol keep alive.
ActiveMembersExpire ==
  \A p \in Pairs : (p \in active) ~> (p \notin active)

\* "auto-log every confirmed signal once" (_publish_active): the journal row
\* comes six commands after the XADD, and only a publication in flight, or one
\* cut short, is without it.
LoggedUnlessTorn ==
  \A p \in unlogged : InFlight(p) \/ p \in torn

\* What an emission leaves in Redis: nothing of it outlives its cooldown, and
\* nothing of it is missing, unless it was cut short.
SignalSafe ==
  /\ TypeOK
  /\ EmissionsSpaced
  /\ LiveSignalInCooldown
  /\ NoImmortalSignal
  /\ LoggedUnlessTorn

-----------------------------------------------------------------------------
(* The inductive strengthening of these invariants. *)

\* Pair p has no publication in flight, and its last one was completed.
Settled(p) == p \notin torn /\ ~InFlight(p)

\* The steps at which a hash may still lack its expiry.
SignalUnset == {"hset_signal", "hset_legacy", "expire_signal"}
LegacyUnset == SignalUnset \cup {"expire_legacy"}

\* The steps at which the journal row of an emission is still to come.
JournalDue == LegacyUnset \cup {"zadd", "journal"}

\* The cooldown covers what is missing of the spacing.
SpacingCovered ==
  \A p \in Pairs : Settled(p) => emittedAge[p] + cooldown[p] >= CooldownTtl

\* Once the cooldown gate is passed the cooldown stays down: only the pair in
\* hand could set it.
GatePassed ==
  job.step \in {"quality", "xadd"} => cooldown[InHand] = 0

SignalCovered ==
  \A p \in Pairs : Settled(p) => signalKey[p] <= cooldown[p]

ImmortalSignal ==
  \A p \in Pairs :
    /\ signalKey[p] = NoExpiry =>
         p \in torn \/ (job.step \in SignalUnset /\ InHand = p)
    /\ legacyKey[p[1]] = NoExpiry =>
         \/ \E n \in Strategies : <<p[1], n>> \in torn
         \/ job.step \in LegacyUnset /\ job.sym = p[1]

UnloggedInHand ==
  \A p \in unlogged : p \in torn \/ (job.step \in JournalDue /\ InHand = p)

IInv ==
  /\ TypeOK
  /\ SpacingCovered
  /\ GatePassed
  /\ SignalCovered
  /\ ImmortalSignal
  /\ UnloggedInHand
=============================================================================
