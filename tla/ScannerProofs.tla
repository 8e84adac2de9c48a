---------------------------- MODULE ScannerProofs ----------------------------
(***************************************************************************)
(* Safety of the scanner's three parts.  The signal path, for any number   *)
(* of symbols and strategies and any lives of the keys.  The pre-breakout  *)
(* machine, for any thresholds and lives: what the memory of a symbol says *)
(* agrees with the key that shows it, as long as no write was cut short.   *)
(* The watch episodes, for any prices, directions, distance of the stop    *)
(* and lives: what an episode promises the channel holds whatever the gate *)
(* lets through.                                                           *)
(***************************************************************************)
EXTENDS ScannerSignals, PreBreakout, WatchEpisodes, TLAPS

-----------------------------------------------------------------------------
(* The signal path. *)

\* How a step moves the handler: it stays, leaves for the next strategy, or
\* goes on to another step for the same pair.
LEMMA NextStrategyType ==
  ASSUME job \in [sym: Symbols, strat: Strategies, step: Steps], NextStrategy
  PROVE  /\ job' \in Jobs
         /\ job'.step \in {"idle", "evaluate"}
<1>1. CASE job.strat < NStrategies
  <2>1. job' = [sym |-> job.sym, strat |-> job.strat + 1, step |-> "evaluate"]
    BY <1>1 DEF NextStrategy
  <2>2. job.strat + 1 \in Strategies
    BY <1>1, ScannerAssumption DEF Strategies
  <2>3. QED
    BY <2>1, <2>2 DEF Jobs, Steps
<1>2. CASE ~(job.strat < NStrategies)
  BY <1>2 DEF NextStrategy, Jobs, Idle
<1>3. QED
  BY <1>1, <1>2

LEMMA JobInHand ==
  ASSUME job \in Jobs, job.step # "idle"
  PROVE  /\ job \in [sym: Symbols, strat: Strategies, step: Steps]
         /\ InHand \in Pairs
  BY DEF Jobs, Idle, InHand, Pairs

LEMMA GoToType ==
  ASSUME NEW step \in Steps, GoTo(step),
         job \in [sym: Symbols, strat: Strategies, step: Steps]
  PROVE  /\ job' \in Jobs
         /\ job'.step = step
         /\ job'.sym = job.sym
         /\ job'.strat = job.strat
         /\ InHand' = InHand
  BY DEF GoTo, Jobs, InHand

-----------------------------------------------------------------------------
(* Type correctness. *)

LEMMA LifeClosed ==
  ASSUME NEW max \in Nat, NEW life \in Life(max)
  PROVE  /\ Touched(life) \in Life(max)
         /\ Aged(life) \in Life(max)
         /\ \A ttl \in 0..max : Expiring(life, ttl) \in Life(max)
  BY DEF Life, Touched, Aged, Expiring, NoExpiry, Absent

LEMMA HandlerType ==
  ASSUME TypeOK, HandlerStep
  PROVE  TypeOK'
<1> USE DEF TypeOK
<1>0. job.step # "idle" /\ sweep' = sweep /\ sweepAge' = sweepAge
  BY DEF HandlerStep, Evaluate, CheckDuplicate, CheckCooldown, CheckQuality,
         PublishStream, HsetSignal, HsetLegacy, ExpireSignal, ExpireLegacy,
         AddActive, AutoLogSignal, SetCooldown, sweepVars
<1>1. /\ job \in [sym: Symbols, strat: Strategies, step: Steps]
      /\ InHand \in Pairs
  BY <1>0, JobInHand
<1>2. job.sym \in Symbols
  BY <1>1
<1>3. CASE Evaluate \/ CheckDuplicate \/ CheckCooldown \/ CheckQuality
  <2>1. job' \in Jobs
    BY <1>1, <1>3, NextStrategyType, GoToType
       DEF Evaluate, CheckDuplicate, CheckCooldown, CheckQuality, Steps, GateSteps
  <2>2. QED
    BY <1>0, <1>3, <2>1 DEF Evaluate, CheckDuplicate, CheckCooldown, CheckQuality,
       keys, history
<1>4. CASE PublishStream
  <2>1. job' \in Jobs
    BY <1>1, <1>4, GoToType DEF PublishStream, Steps, PublishSteps
  <2>2. 0 \in 0..CooldownTtl
    BY ScannerAssumption
  <2>3. QED
    BY <1>0, <1>1, <1>4, <2>1, <2>2 DEF PublishStream, keys
<1>5. CASE HsetSignal \/ ExpireSignal
  <2>1. job' \in Jobs
    BY <1>1, <1>5, GoToType DEF HsetSignal, ExpireSignal, Steps, PublishSteps
  <2>2. /\ Touched(signalKey[InHand]) \in Life(SignalTtl)
        /\ Expiring(signalKey[InHand], SignalTtl) \in Life(SignalTtl)
    BY <1>1, ScannerAssumption, LifeClosed
  <2>3. signalKey' \in [Pairs -> Life(SignalTtl)]
    BY <1>1, <1>5, <2>2 DEF HsetSignal, ExpireSignal
  <2>4. QED
    BY <1>0, <1>5, <2>1, <2>3 DEF HsetSignal, ExpireSignal, history
<1>6. CASE HsetLegacy \/ ExpireLegacy
  <2>1. job' \in Jobs
    BY <1>1, <1>6, GoToType DEF HsetLegacy, ExpireLegacy, Steps, PublishSteps
  <2>0. legacyKey[job.sym] \in Life(SignalTtl) /\ SignalTtl \in 0..SignalTtl
    BY <1>2, ScannerAssumption
  <2>2. /\ Touched(legacyKey[job.sym]) \in Life(SignalTtl)
        /\ Expiring(legacyKey[job.sym], SignalTtl) \in Life(SignalTtl)
    BY <2>0, ScannerAssumption, LifeClosed
  <2>3. legacyKey' \in [Symbols -> Life(SignalTtl)]
    BY <1>2, <1>6, <2>2 DEF HsetLegacy, ExpireLegacy
  <2>4. QED
    BY <1>0, <1>6, <2>1, <2>3 DEF HsetLegacy, ExpireLegacy, history
<1>7. CASE AddActive
  <2>1. job' \in Jobs
    BY <1>1, <1>7, GoToType DEF AddActive, Steps, PublishSteps
  <2>2. QED
    BY <1>0, <1>1, <1>7, <2>1 DEF AddActive, history
<1>8. CASE AutoLogSignal
  <2>1. job' \in Jobs
    BY <1>1, <1>8, GoToType DEF AutoLogSignal, Steps, PublishSteps
  <2>2. QED
    BY <1>0, <1>8, <2>1 DEF AutoLogSignal, keys
<1>9. CASE SetCooldown
  <2>1. job' \in Jobs
    BY <1>1, <1>9, NextStrategyType DEF SetCooldown
  <2>2. CooldownTtl \in 0..CooldownTtl
    BY ScannerAssumption
  <2>3. QED
    BY <1>0, <1>1, <1>9, <2>1, <2>2 DEF SetCooldown, history
<1>10. QED
  BY <1>3, <1>4, <1>5, <1>6, <1>7, <1>8, <1>9 DEF HandlerStep

LEMMA SweepType ==
  ASSUME TypeOK, SweepStep
  PROVE  TypeOK'
<1> USE DEF TypeOK
<1>1. CASE SweepStart
  <2>1. sweep' \in Sweeps
    BY <1>1 DEF SweepStart, Sweeps
  <2>2. 0 \in 0..SweepPeriod
    BY ScannerAssumption
  <2>3. QED
    BY <1>1, <2>1, <2>2 DEF SweepStart, keys, history
<1>2. ASSUME NEW m \in Pairs, SweepExists(m)
      PROVE  TypeOK'
  <2>1. sweep.left \subseteq Pairs
    BY <1>2 DEF SweepExists, Sweeps, Asleep
  <2>2. sweep' \in Sweeps
    BY <1>2, <2>1 DEF SweepExists, Sweeps
  <2>3. QED
    BY <1>2, <2>2 DEF SweepExists, keys, history
<1>3. CASE SweepRemove
  <2>1. sweep.left \subseteq Pairs
    BY <1>3 DEF SweepRemove, Sweeps, Asleep
  <2>2. sweep' \in Sweeps
    BY <1>3, <2>1 DEF SweepRemove, Sweeps
  <2>3. QED
    BY <1>3, <2>2 DEF SweepRemove, history
<1>4. CASE SweepEnd
  BY <1>4 DEF SweepEnd, Sweeps, keys, history
<1>5. QED
  BY <1>1, <1>2, <1>3, <1>4 DEF SweepStep

LEMMA TypeStep ==
  ASSUME TypeOK, [Next]_vars
  PROVE  TypeOK'
<1> USE DEF TypeOK
<1>1. ASSUME NEW s \in Symbols, ProcessFeature(s)
      PROVE  TypeOK'
  <2>1. job' \in Jobs
    BY <1>1, ScannerAssumption DEF ProcessFeature, Jobs, Steps, Strategies
  <2>2. QED
    BY <1>1, <2>1 DEF ProcessFeature, keys, sweepVars, history
<1>2. CASE HandlerStep
  BY <1>2, HandlerType
<1>3. CASE SweepStep
  BY <1>3, SweepType
<1>4. CASE HandlerFails \/ Crash
  <2>1. torn' \subseteq Pairs
    BY <1>4, JobInHand DEF HandlerFails, Crash, PublishSteps
  <2>2. QED
    BY <1>4, <2>1 DEF HandlerFails, Crash, Jobs, Sweeps, keys, sweepVars
<1>5. CASE SweepFails
  BY <1>5 DEF SweepFails, Sweeps, keys, history
<1>6. CASE Tick
  <2>1. sweepAge' \in 0..SweepPeriod
    BY <1>6, ScannerAssumption DEF Tick
  <2>2. signalKey' \in [Pairs -> Life(SignalTtl)]
    BY <1>6, ScannerAssumption, LifeClosed DEF Tick
  <2>3. legacyKey' \in [Symbols -> Life(SignalTtl)]
    BY <1>6, ScannerAssumption, LifeClosed DEF Tick
  <2>4. \A p \in Pairs : Aged(cooldown[p]) \in 0..CooldownTtl
    BY ScannerAssumption DEF Aged
  <2>5. cooldown' \in [Pairs -> 0..CooldownTtl]
    BY <1>6, <2>4 DEF Tick
  <2>6. emittedAge' \in [Pairs -> 0..CooldownTtl]
    BY <1>6, ScannerAssumption DEF Tick
  <2>7. QED
    BY <1>6, <2>1, <2>2, <2>3, <2>5, <2>6 DEF Tick
<1>7. CASE UNCHANGED vars
  BY <1>7 DEF vars, keys, sweepVars, history
<1>8. QED
  BY <1>1, <1>2, <1>3, <1>4, <1>5, <1>6, <1>7 DEF Next

LEMMA TypeInit == Init => TypeOK
  BY ScannerAssumption
     DEF Init, TypeOK, Life, Absent, NoExpiry, Jobs, Sweeps

\* The state of the signal path keeps its type in every behaviour.
THEOREM TypeCorrect == Spec => []TypeOK
  BY TypeInit, TypeStep, PTL DEF Spec

-----------------------------------------------------------------------------
(* The inductive invariant. *)

\* Only the last step of a publication makes a pair settled that was not.
LEMMA SettledBefore ==
  ASSUME TypeOK, [Next]_vars, NEW p \in Pairs, Settled(p)', ~SetCooldown
  PROVE  Settled(p)
<1> USE DEF Settled, InFlight
<1>1. ASSUME NEW s \in Symbols, ProcessFeature(s)
      PROVE  Settled(p)
  BY <1>1 DEF ProcessFeature, history, Idle, PublishSteps
<1>2. CASE HandlerStep
  <2>1. job.step # "idle"
    BY <1>2 DEF HandlerStep, Evaluate, CheckDuplicate, CheckCooldown, CheckQuality,
       PublishStream, HsetSignal, HsetLegacy, ExpireSignal, ExpireLegacy,
       AddActive, AutoLogSignal, SetCooldown
  <2>2. job \in [sym: Symbols, strat: Strategies, step: Steps]
    BY <2>1, JobInHand DEF TypeOK
  <2>3. CASE Evaluate \/ CheckDuplicate \/ CheckCooldown \/ CheckQuality
    BY <2>3 DEF Evaluate, CheckDuplicate, CheckCooldown, CheckQuality, history,
       PublishSteps
  <2>4. CASE PublishStream
    <3>1. job'.step = "hset_signal" /\ InHand' = InHand
      BY <2>2, <2>4, GoToType DEF PublishStream, Steps, PublishSteps
    <3>2. p # InHand
      BY <3>1 DEF PublishSteps
    <3>3. QED
      BY <2>4, <3>2 DEF PublishStream, PublishSteps
  <2>5. CASE HsetSignal \/ HsetLegacy \/ ExpireSignal \/ ExpireLegacy \/ AddActive
             \/ AutoLogSignal
    <3>1. job'.step \in PublishSteps /\ InHand' = InHand /\ torn' = torn
      BY <2>2, <2>5, GoToType DEF HsetSignal, HsetLegacy, ExpireSignal, ExpireLegacy,
         AddActive, AutoLogSignal, Steps, PublishSteps, history
    <3>2. QED
      BY <3>1
  <2>6. QED
    BY <1>2, <2>3, <2>4, <2>5 DEF HandlerStep
<1>3. CASE HandlerFails \/ Crash
  BY <1>3 DEF HandlerFails, Crash
<1>4. CASE SweepStep \/ SweepFails \/ Tick \/ UNCHANGED vars
  BY <1>4 DEF SweepStep, SweepStart, SweepExists, SweepRemove, SweepEnd, SweepFails,
     Tick, vars, history, InHand
<1>5. QED
  BY <1>1, <1>2, <1>3, <1>4 DEF Next


\* What the steps other than SetCooldown and Tick leave alone.
LEMMA CooldownFrame ==
  ASSUME [Next]_vars, ~SetCooldown, ~Tick
  PROVE  cooldown' = cooldown
  BY DEF Next, HandlerStep, SweepStep, ProcessFeature, Evaluate, CheckDuplicate,
     CheckCooldown, CheckQuality, PublishStream, HsetSignal, HsetLegacy,
     ExpireSignal, ExpireLegacy, AddActive, AutoLogSignal, HandlerFails,
     SweepStart, SweepExists, SweepRemove, SweepEnd, SweepFails, Crash, vars, keys

LEMMA EmittedFrame ==
  ASSUME [Next]_vars, ~PublishStream, ~Tick
  PROVE  emittedAge' = emittedAge
  BY DEF Next, HandlerStep, SweepStep, ProcessFeature, Evaluate, CheckDuplicate,
     CheckCooldown, CheckQuality, SetCooldown, HsetSignal, HsetLegacy,
     ExpireSignal, ExpireLegacy, AddActive, AutoLogSignal, HandlerFails,
     SweepStart, SweepExists, SweepRemove, SweepEnd, SweepFails, Crash, vars, history

LEMMA SignalKeyFrame ==
  ASSUME [Next]_vars, ~HsetSignal, ~ExpireSignal, ~Tick
  PROVE  signalKey' = signalKey
  BY DEF Next, HandlerStep, SweepStep, ProcessFeature, Evaluate, CheckDuplicate,
     CheckCooldown, CheckQuality, PublishStream, HsetLegacy, SetCooldown,
     ExpireLegacy, AddActive, AutoLogSignal, HandlerFails,
     SweepStart, SweepExists, SweepRemove, SweepEnd, SweepFails, Crash, vars, keys

\* After SetCooldown the pair is settled: its job is done.
LEMMA SpacingStep ==
  ASSUME TypeOK, TypeOK', SpacingCovered, [Next]_vars
  PROVE  SpacingCovered'
<1> SUFFICES ASSUME NEW p \in Pairs, Settled(p)'
             PROVE  emittedAge'[p] + cooldown'[p] >= CooldownTtl
  BY DEF SpacingCovered
<1> USE ScannerAssumption DEF TypeOK
<1>1. CASE SetCooldown
  <2>1. ~PublishStream /\ ~Tick
    BY <1>1 DEF SetCooldown, PublishStream, Tick, NextStrategy, Idle, Jobs
  <2>2. CASE p = InHand
    BY <1>1, <2>2 DEF SetCooldown
  <2>3. CASE p # InHand
    <3>1. Settled(p)
      BY <1>1, <2>3 DEF SetCooldown, Settled, InFlight, history
    <3>2. QED
      BY <1>1, <2>1, <2>3, <3>1, EmittedFrame DEF SetCooldown, SpacingCovered
  <2>4. QED
    BY <2>2, <2>3
<1>2. CASE ~SetCooldown
  <2>1. Settled(p) /\ emittedAge[p] + cooldown[p] >= CooldownTtl
    BY <1>2, SettledBefore DEF SpacingCovered
  <2>2. CASE Tick
    BY <2>1, <2>2 DEF Tick, Aged
  <2>3. CASE PublishStream
    <3>1. job.step = "xadd"
      BY <2>3 DEF PublishStream
    <3>2. job \in [sym: Symbols, strat: Strategies, step: Steps]
      BY <3>1, JobInHand
    <3>3. job'.step = "hset_signal" /\ InHand' = InHand
      BY <2>3, <3>2, GoToType DEF PublishStream, Steps, PublishSteps
    <3>4. p # InHand
      BY <3>3 DEF Settled, InFlight, PublishSteps
    <3>5. emittedAge'[p] = emittedAge[p] /\ cooldown' = cooldown
      BY <2>3, <3>4 DEF PublishStream, keys
    <3>6. QED
      BY <2>1, <3>5
  <2>4. CASE ~Tick /\ ~PublishStream
    BY <1>2, <2>1, <2>4, CooldownFrame, EmittedFrame
  <2>5. QED
    BY <2>2, <2>3, <2>4
<1>3. QED
  BY <1>1, <1>2

LEMMA GateStep ==
  ASSUME TypeOK, TypeOK', GatePassed, [Next]_vars
  PROVE  GatePassed'
<1> SUFFICES ASSUME job'.step \in {"quality", "xadd"}
             PROVE  cooldown'[InHand'] = 0
  BY DEF GatePassed
<1>1. InHand' \in Pairs
  <2>1. job' \in [sym: Symbols, strat: Strategies, step: Steps]
    BY DEF TypeOK, Jobs, Idle
  <2>2. QED
    BY <2>1 DEF InHand, Pairs
<1>2. CASE CheckCooldown
  <2>1. job \in [sym: Symbols, strat: Strategies, step: Steps]
    BY <1>2, JobInHand DEF TypeOK, CheckCooldown
  <2>2. ~(cooldown[InHand] > 0) /\ GoTo("quality")
    BY <1>2, <2>1, NextStrategyType DEF CheckCooldown
  <2>3. InHand' = InHand /\ cooldown' = cooldown
    BY <1>2, <2>1, <2>2, GoToType DEF CheckCooldown, Steps, GateSteps, keys
  <2>4. QED
    BY <1>1, <2>2, <2>3, ScannerAssumption DEF TypeOK
<1>3. CASE CheckQuality
  <2>1. job \in [sym: Symbols, strat: Strategies, step: Steps]
    BY <1>3, JobInHand DEF TypeOK, CheckQuality
  <2>2. GoTo("xadd")
    BY <1>3, <2>1, NextStrategyType DEF CheckQuality
  <2>3. InHand' = InHand /\ cooldown' = cooldown
    BY <1>3, <2>1, <2>2, GoToType DEF CheckQuality, Steps, keys
  <2>4. QED
    BY <1>3, <2>3 DEF GatePassed, CheckQuality
<1>4. CASE HandlerStep /\ ~CheckCooldown /\ ~CheckQuality
  <2>1. job.step # "idle"
    BY <1>4 DEF HandlerStep, Evaluate, CheckDuplicate, PublishStream, HsetSignal,
       HsetLegacy, ExpireSignal, ExpireLegacy, AddActive, AutoLogSignal, SetCooldown
  <2>2. job \in [sym: Symbols, strat: Strategies, step: Steps]
    BY <2>1, JobInHand DEF TypeOK
  <2>3. job'.step \notin {"quality", "xadd"}
    BY <1>4, <2>2, NextStrategyType, GoToType
       DEF HandlerStep, Evaluate, CheckDuplicate, PublishStream, HsetSignal,
           HsetLegacy, ExpireSignal, ExpireLegacy, AddActive, AutoLogSignal,
           SetCooldown, Steps, GateSteps, PublishSteps
  <2>4. QED
    BY <2>3
<1>5. ASSUME NEW s \in Symbols, ProcessFeature(s)
      PROVE  FALSE
  BY <1>5 DEF ProcessFeature
<1>6. CASE HandlerFails \/ Crash
  BY <1>6 DEF HandlerFails, Crash, Idle
<1>7. CASE SweepStep \/ SweepFails \/ UNCHANGED vars
  <2>1. job' = job /\ cooldown' = cooldown
    BY <1>7 DEF SweepStep, SweepStart, SweepExists, SweepRemove, SweepEnd, SweepFails,
       vars, keys
  <2>2. QED
    BY <2>1 DEF GatePassed, InHand
<1>8. CASE Tick
  <2>1. job' = job /\ InHand' = InHand
    BY <1>8 DEF Tick, InHand
  <2>2. cooldown'[InHand] = Aged(cooldown[InHand]) /\ cooldown[InHand] = 0
    BY <1>1, <1>8, <2>1 DEF Tick, GatePassed
  <2>3. QED
    BY <2>1, <2>2 DEF Aged
<1>9. QED
  BY <1>2, <1>3, <1>4, <1>5, <1>6, <1>7, <1>8 DEF Next

LEMMA SignalStep ==
  ASSUME TypeOK, TypeOK', SignalCovered, [Next]_vars
  PROVE  SignalCovered'
<1> SUFFICES ASSUME NEW p \in Pairs, Settled(p)'
             PROVE  signalKey'[p] <= cooldown'[p]
  BY DEF SignalCovered
<1> USE ScannerAssumption DEF TypeOK, Life, NoExpiry
<1>1. CASE SetCooldown
  <2>1. signalKey' = signalKey
    BY <1>1 DEF SetCooldown
  <2>2. CASE p = InHand
    BY <1>1, <2>1, <2>2 DEF SetCooldown
  <2>3. CASE p # InHand
    <3>1. Settled(p)
      BY <1>1, <2>3 DEF SetCooldown, Settled, InFlight, history
    <3>2. QED
      BY <1>1, <2>1, <2>3, <3>1 DEF SetCooldown, SignalCovered
  <2>4. QED
    BY <2>2, <2>3
<1>2. CASE ~SetCooldown
  <2>1. Settled(p) /\ signalKey[p] <= cooldown[p]
    BY <1>2, SettledBefore DEF SignalCovered
  <2>2. CASE Tick
    BY <2>1, <2>2 DEF Tick, Aged
  <2>3. CASE HsetSignal \/ ExpireSignal
    <3>1. p # InHand
      BY <2>1, <2>3 DEF HsetSignal, ExpireSignal, Settled, InFlight, PublishSteps
    <3>2. signalKey'[p] = signalKey[p] /\ cooldown' = cooldown
      BY <2>3, <3>1 DEF HsetSignal, ExpireSignal
    <3>3. QED
      BY <2>1, <3>2
  <2>4. CASE ~Tick /\ ~(HsetSignal \/ ExpireSignal)
    BY <1>2, <2>1, <2>4, CooldownFrame, SignalKeyFrame
  <2>5. QED
    BY <2>2, <2>3, <2>4
<1>3. QED
  BY <1>1, <1>2

\* Which steps can leave a hash without an expiry, and which end that.
LEMMA ImmortalStep ==
  ASSUME TypeOK, TypeOK', ImmortalSignal, [Next]_vars
  PROVE  ImmortalSignal'
<1> SUFFICES ASSUME NEW p \in Pairs
             PROVE  /\ signalKey'[p] = NoExpiry =>
                         p \in torn' \/ (job'.step \in SignalUnset /\ InHand' = p)
                    /\ legacyKey'[p[1]] = NoExpiry =>
                         \/ \E n \in Strategies : <<p[1], n>> \in torn'
                         \/ job'.step \in LegacyUnset /\ job'.sym = p[1]
  BY DEF ImmortalSignal
<1>0. p[1] \in Symbols
  BY DEF Pairs
<1>00. /\ signalKey[p] = NoExpiry =>
            p \in torn \/ (job.step \in SignalUnset /\ InHand = p)
       /\ legacyKey[p[1]] = NoExpiry =>
            \/ \E n \in Strategies : <<p[1], n>> \in torn
            \/ job.step \in LegacyUnset /\ job.sym = p[1]
  BY DEF ImmortalSignal
<1>1. CASE HandlerStep
  <2>1. job.step # "idle"
    BY <1>1 DEF HandlerStep, Evaluate, CheckDuplicate, CheckCooldown, CheckQuality,
       PublishStream, HsetSignal, HsetLegacy, ExpireSignal, ExpireLegacy,
       AddActive, AutoLogSignal, SetCooldown
  <2>2. /\ job \in [sym: Symbols, strat: Strategies, step: Steps]
        /\ InHand \in Pairs
    BY <2>1, JobInHand DEF TypeOK
  <2>3. CASE Evaluate \/ CheckDuplicate \/ CheckCooldown \/ CheckQuality
             \/ AddActive \/ AutoLogSignal \/ SetCooldown
    <3>1. job.step \notin LegacyUnset /\ job.step \notin SignalUnset
      BY <2>3 DEF Evaluate, CheckDuplicate, CheckCooldown, CheckQuality, AddActive,
         AutoLogSignal, SetCooldown, LegacyUnset, SignalUnset
    <3>2. signalKey' = signalKey /\ legacyKey' = legacyKey /\ torn' = torn
      BY <2>3 DEF Evaluate, CheckDuplicate, CheckCooldown, CheckQuality, AddActive,
         AutoLogSignal, SetCooldown, keys, history
    <3>3. QED
      BY <1>00, <3>1, <3>2
  <2>4. CASE PublishStream
    <3>1. /\ job'.step = "hset_signal" /\ InHand' = InHand /\ job'.sym = job.sym
      BY <2>2, <2>4, GoToType DEF PublishStream, Steps, PublishSteps
    <3>2. /\ signalKey' = signalKey /\ legacyKey' = legacyKey
          /\ torn' = torn \ {InHand} /\ job.step = "xadd"
      BY <2>4 DEF PublishStream, keys
    <3>3. job'.step \in SignalUnset /\ job'.step \in LegacyUnset
          /\ job.step \notin SignalUnset /\ job.step \notin LegacyUnset
      BY <3>1, <3>2 DEF SignalUnset, LegacyUnset
    <3>4. ASSUME NEW n \in Strategies, <<p[1], n>> \in torn, <<p[1], n>> \notin torn'
          PROVE  job'.sym = p[1]
      BY <3>1, <3>2, <3>4 DEF InHand
    <3>5. QED
      BY <1>00, <3>1, <3>2, <3>3, <3>4
  <2>5. CASE HsetSignal \/ HsetLegacy
    <3>1. /\ job'.step \in SignalUnset \cap LegacyUnset
          /\ InHand' = InHand /\ job'.sym = job.sym
      BY <2>2, <2>5, GoToType DEF HsetSignal, HsetLegacy, Steps, PublishSteps,
         SignalUnset, LegacyUnset
    <3>2. /\ torn' = torn
          /\ p # InHand => signalKey'[p] = signalKey[p]
          /\ p[1] # job.sym => legacyKey'[p[1]] = legacyKey[p[1]]
      BY <1>0, <2>2, <2>5 DEF HsetSignal, HsetLegacy, history, TypeOK
    <3>3. p = InHand => job.sym = p[1]
      BY DEF InHand
    <3>4. QED
      BY <1>00, <3>1, <3>2, <3>3
  <2>6. CASE ExpireSignal
    <3>1. /\ job'.step \in LegacyUnset /\ job'.sym = job.sym
      BY <2>2, <2>6, GoToType DEF ExpireSignal, Steps, PublishSteps, LegacyUnset
    <3>2. /\ torn' = torn /\ legacyKey' = legacyKey
          /\ p # InHand => signalKey'[p] = signalKey[p]
          /\ p = InHand => signalKey'[p] # NoExpiry
      BY <2>2, <2>6, ScannerAssumption
         DEF ExpireSignal, history, TypeOK, Expiring, Absent, NoExpiry
    <3>3. QED
      BY <1>00, <3>1, <3>2
  <2>7. CASE ExpireLegacy
    <3>1. /\ torn' = torn /\ signalKey' = signalKey /\ job.step \notin SignalUnset
          /\ p[1] # job.sym => legacyKey'[p[1]] = legacyKey[p[1]]
          /\ p[1] = job.sym => legacyKey'[p[1]] # NoExpiry
      BY <1>0, <2>2, <2>7, ScannerAssumption
         DEF ExpireLegacy, history, TypeOK, Expiring, Absent, NoExpiry, SignalUnset
    <3>2. QED
      BY <1>00, <3>1
  <2>8. QED
    BY <1>1, <2>3, <2>4, <2>5, <2>6, <2>7 DEF HandlerStep
<1>2. CASE HandlerFails \/ Crash
  <2>1. /\ signalKey' = signalKey /\ legacyKey' = legacyKey /\ torn \subseteq torn'
        /\ job.step \in PublishSteps => InHand \in torn'
    BY <1>2 DEF HandlerFails, Crash, keys
  <2>2. LegacyUnset \subseteq PublishSteps /\ SignalUnset \subseteq PublishSteps
    BY DEF LegacyUnset, SignalUnset, PublishSteps
  <2>3. job.step \in LegacyUnset /\ job.sym = p[1] =>
          job.strat \in Strategies /\ <<p[1], job.strat>> \in torn'
    BY <2>1, <2>2 DEF InHand, TypeOK, Jobs, Idle, PublishSteps
  <2>4. QED
    BY <1>00, <2>1, <2>2, <2>3
<1>3. ASSUME NEW s \in Symbols, ProcessFeature(s)
      PROVE  /\ job.step = "idle"
             /\ signalKey' = signalKey /\ legacyKey' = legacyKey /\ torn' = torn
  BY <1>3 DEF ProcessFeature, Idle, keys, history
<1>4. CASE SweepStep \/ SweepFails \/ UNCHANGED vars
  <2>1. /\ signalKey' = signalKey /\ legacyKey' = legacyKey /\ torn' = torn
        /\ job' = job
    BY <1>4 DEF SweepStep, SweepStart, SweepExists, SweepRemove, SweepEnd, SweepFails,
       vars, keys, history
  <2>2. QED
    BY <1>00, <2>1 DEF InHand
<1>5. CASE Tick
  <2>1. torn' = torn /\ job' = job
    BY <1>5 DEF Tick
  <2>2. /\ signalKey'[p] = NoExpiry => signalKey[p] = NoExpiry
        /\ legacyKey'[p[1]] = NoExpiry => legacyKey[p[1]] = NoExpiry
    BY <1>0, <1>5, ScannerAssumption DEF Tick, TypeOK, Life, Aged, NoExpiry
  <2>3. QED
    BY <1>00, <2>1, <2>2 DEF InHand
<1>6. ASSUME job.step = "idle"
      PROVE  job.step \notin SignalUnset /\ job.step \notin LegacyUnset
  BY <1>6 DEF SignalUnset, LegacyUnset
<1>7. QED
  BY <1>00, <1>1, <1>2, <1>3, <1>4, <1>5, <1>6 DEF Next

\* A row is owed from the XADD to the journal step, or by a torn publication.
LEMMA UnloggedStep ==
  ASSUME TypeOK, UnloggedInHand, [Next]_vars
  PROVE  UnloggedInHand'
<1> SUFFICES ASSUME NEW p \in unlogged'
             PROVE  p \in torn' \/ (job'.step \in JournalDue /\ InHand' = p)
  BY DEF UnloggedInHand
<1> USE DEF JournalDue, LegacyUnset, SignalUnset
<1>1. CASE HandlerStep
  <2>1. job.step # "idle"
    BY <1>1 DEF HandlerStep, Evaluate, CheckDuplicate, CheckCooldown, CheckQuality,
       PublishStream, HsetSignal, HsetLegacy, ExpireSignal, ExpireLegacy,
       AddActive, AutoLogSignal, SetCooldown
  <2>2. job \in [sym: Symbols, strat: Strategies, step: Steps]
    BY <2>1, JobInHand DEF TypeOK
  <2>3. CASE Evaluate \/ CheckDuplicate \/ CheckCooldown \/ CheckQuality
             \/ SetCooldown
    <3>1. job.step \notin JournalDue /\ unlogged' = unlogged /\ torn' = torn
      BY <2>3 DEF Evaluate, CheckDuplicate, CheckCooldown, CheckQuality,
         SetCooldown, history
    <3>2. QED
      BY <3>1 DEF UnloggedInHand
  <2>4. CASE PublishStream
    <3>1. job.step \notin JournalDue
      BY <2>4 DEF PublishStream
    <3>2. p \in torn \/ p = InHand
      BY <2>4, <3>1 DEF PublishStream, UnloggedInHand
    <3>3. job'.step \in JournalDue /\ InHand' = InHand
      BY <2>2, <2>4, GoToType DEF PublishStream, Steps, PublishSteps
    <3>4. QED
      BY <2>4, <3>2, <3>3 DEF PublishStream
  <2>5. CASE HsetSignal \/ HsetLegacy \/ ExpireSignal \/ ExpireLegacy \/ AddActive
    <3>1. /\ job'.step \in JournalDue /\ InHand' = InHand
          /\ unlogged' = unlogged /\ torn' = torn
      BY <2>2, <2>5, GoToType DEF HsetSignal, HsetLegacy, ExpireSignal, ExpireLegacy,
         AddActive, Steps, PublishSteps, history
    <3>2. QED
      BY <3>1 DEF UnloggedInHand
  <2>6. CASE AutoLogSignal
    BY <2>6 DEF AutoLogSignal, UnloggedInHand
  <2>7. QED
    BY <1>1, <2>3, <2>4, <2>5, <2>6 DEF HandlerStep
<1>2. CASE HandlerFails \/ Crash
  <2>1. /\ unlogged' = unlogged /\ torn \subseteq torn'
        /\ job.step \in JournalDue => InHand \in torn'
    BY <1>2 DEF HandlerFails, Crash, PublishSteps
  <2>2. QED
    BY <2>1 DEF UnloggedInHand
<1>3. ASSUME NEW s \in Symbols, ProcessFeature(s)
      PROVE  p \in torn'
  BY <1>3 DEF ProcessFeature, Idle, history, UnloggedInHand
<1>4. CASE SweepStep \/ SweepFails \/ Tick \/ UNCHANGED vars
  <2>1. unlogged' = unlogged /\ torn' = torn /\ job' = job
    BY <1>4 DEF SweepStep, SweepStart, SweepExists, SweepRemove, SweepEnd, SweepFails,
       Tick, vars, history
  <2>2. QED
    BY <2>1 DEF UnloggedInHand, InHand
<1>5. QED
  BY <1>1, <1>2, <1>3, <1>4 DEF Next

LEMMA InvariantInit == Init => IInv
<1>1. SUFFICES ASSUME Init
               PROVE  /\ SpacingCovered /\ GatePassed /\ SignalCovered
                      /\ ImmortalSignal /\ UnloggedInHand
  BY TypeInit DEF IInv
<1>2. SpacingCovered /\ SignalCovered
  BY <1>1, ScannerAssumption DEF Init, SpacingCovered, SignalCovered, Absent
<1>3. GatePassed
  BY <1>1 DEF Init, GatePassed, Idle
<1>4. ImmortalSignal
  BY <1>1 DEF Init, ImmortalSignal, Absent, NoExpiry, Pairs
<1>5. UnloggedInHand
  BY <1>1 DEF Init, UnloggedInHand
<1>6. QED
  BY <1>2, <1>3, <1>4, <1>5

LEMMA InvariantStep ==
  ASSUME IInv, [Next]_vars
  PROVE  IInv'
BY TypeStep, SpacingStep, GateStep, SignalStep, ImmortalStep,
   UnloggedStep DEF IInv

\* The inductive invariant of the signal path (process_feature, _publish_active,
\* cleanup_expired) holds in every behaviour.
THEOREM Invariant == Spec => []IInv
  BY InvariantInit, InvariantStep, PTL DEF Spec

-----------------------------------------------------------------------------
(* What the invariant gives. *)

\* No pair reaches scan:signals twice within a cooldown unless the earlier
\* publication was cut short (engine._publish_active, suppression.evaluate).
THEOREM SpacedEmissions == Spec => []EmissionsSpaced
<1>1. ASSUME IInv PROVE EmissionsSpaced
  <2>1. SUFFICES ASSUME job.step = "xadd", InHand \notin torn
                 PROVE  emittedAge[InHand] = CooldownTtl
    BY DEF EmissionsSpaced
  <2>2. InHand \in Pairs
    BY <1>1, <2>1, JobInHand DEF IInv, TypeOK
  <2>3. cooldown[InHand] = 0 /\ Settled(InHand)
    BY <1>1, <2>1 DEF IInv, GatePassed, Settled, InFlight, PublishSteps
  <2>4. QED
    BY <1>1, <2>2, <2>3, ScannerAssumption DEF IInv, TypeOK, SpacingCovered
<1>2. QED
  BY <1>1, Invariant, PTL

\* While the hash of a completed signal is there, its pair is in cooldown.
THEOREM LiveInCooldown == Spec => []LiveSignalInCooldown
<1>1. ASSUME IInv PROVE LiveSignalInCooldown
  <2>1. SUFFICES ASSUME NEW p \in Pairs, Exists(signalKey[p]), Settled(p)
                 PROVE  cooldown[p] > 0
    BY DEF LiveSignalInCooldown, Settled
  <2>2. signalKey[p] # NoExpiry
    <3>1. SignalUnset \subseteq PublishSteps
      BY DEF SignalUnset, PublishSteps
    <3>2. QED
      BY <1>1, <2>1, <3>1 DEF IInv, ImmortalSignal, Settled, InFlight
  <2>3. signalKey[p] <= cooldown[p] /\ signalKey[p] # Absent
    BY <1>1, <2>1 DEF IInv, SignalCovered, Exists
  <2>4. QED
    BY <1>1, <2>2, <2>3, ScannerAssumption DEF IInv, TypeOK, Life, Absent
<1>2. QED
  BY <1>1, Invariant, PTL

\* A hash without an expiry belongs to a publication in flight or cut short.
THEOREM NoImmortal == Spec => []NoImmortalSignal
<1>1. ASSUME IInv PROVE NoImmortalSignal
  <2>1. SUFFICES ASSUME NEW p \in Pairs
                 PROVE /\ signalKey[p] = NoExpiry => InFlight(p) \/ p \in torn
                       /\ legacyKey[p[1]] = NoExpiry =>
                            \E n \in Strategies : InFlight(<<p[1], n>>) \/ <<p[1], n>> \in torn
    BY DEF NoImmortalSignal
  <2>2. SignalUnset \subseteq PublishSteps /\ LegacyUnset \subseteq PublishSteps
    BY DEF SignalUnset, LegacyUnset, PublishSteps
  <2>3. ASSUME job.step \in LegacyUnset, job.sym = p[1]
        PROVE  job.strat \in Strategies /\ InFlight(<<p[1], job.strat>>)
    <3>1. job.step \in PublishSteps
      BY <2>2, <2>3
    <3>2. job.step # "idle"
      BY <3>1 DEF PublishSteps
    <3>3. job.strat \in Strategies
      BY <1>1, <3>2, JobInHand DEF IInv, TypeOK
    <3>4. QED
      BY <2>3, <3>1, <3>3 DEF InFlight, InHand
  <2>4. QED
    BY <1>1, <2>2, <2>3 DEF IInv, ImmortalSignal, InFlight
<1>2. QED
  BY <1>1, Invariant, PTL

\* Every emission has its journal row, unless it is in flight or was cut short
\* (_publish_active, _auto_log_signal).
THEOREM LoggedEmissions == Spec => []LoggedUnlessTorn
<1>1. JournalDue \subseteq PublishSteps
  BY DEF JournalDue, LegacyUnset, SignalUnset, PublishSteps
<1>2. ASSUME IInv PROVE LoggedUnlessTorn
  BY <1>1, <1>2 DEF IInv, UnloggedInHand, LoggedUnlessTorn, InFlight
<1>3. QED
  BY <1>2, Invariant, PTL

\* What an emission leaves in Redis is whole and expires in time, whatever
\* fails, crashes or expires between the commands of the two tasks.
THEOREM SignalsSafe == Spec => []SignalSafe
<1>1. TypeOK /\ EmissionsSpaced /\ LiveSignalInCooldown /\ NoImmortalSignal
        /\ LoggedUnlessTorn => SignalSafe
  BY DEF SignalSafe
<1>2. QED
  BY <1>1, TypeCorrect, SpacedEmissions, LiveInCooldown, NoImmortal,
     LoggedEmissions, PTL

-----------------------------------------------------------------------------
(* The pre-breakout machine. *)

(* The operators. *)

LEMMA UpToBounds ==
  ASSUME NEW max \in Nat, NEW n \in Nat
  PROVE  /\ UpTo(max, n) \in 0..max
         /\ UpTo(max, n) <= n
         /\ \A k \in Nat : k <= n => UpTo(max, k) <= UpTo(max, n)
  BY DEF UpTo

\* The trend of a bar never adds more than one to the count of declining bars.
LEMMA DecliningBounds ==
  ASSUME SetupTypeOK, NEW bar \in Bars
  PROVE  /\ Declining(bar) \in 0..CompressTicks
         /\ Declining(bar) <= UpTo(CompressTicks, declining + 1)
<1> USE PreBreakoutAssumption
<1>1. declining \in 0..CompressTicks /\ declining + 1 \in Nat
  BY DEF SetupTypeOK
<1>2. bar.trend \in {"down", "flat", "up"}
  BY DEF Bars
<1>3. /\ UpTo(CompressTicks, declining + 1) \in 0..CompressTicks
      /\ declining <= UpTo(CompressTicks, declining + 1)
  BY <1>1 DEF UpTo
<1>4. Declining(bar) \in {declining, UpTo(CompressTicks, declining + 1), 0}
  BY <1>2 DEF Declining
<1> QED
  BY <1>1, <1>3, <1>4

\* A bar never leads to "triggered": only mark_triggered does.
LEMMA NewStateType ==
  ASSUME SetupTypeOK, NEW bar \in Bars
  PROVE  /\ NewState(bar) \in ActiveStates \cup {"idle", "expired"}
         /\ ~Transits(bar) => NewState(bar) = st
<1>1. st \in States
  BY DEF SetupTypeOK
<1>2. Evaluated(bar) \in ActiveStates \cup {"idle", "expired"}
  BY <1>1 DEF Evaluated, States, ActiveStates
<1> QED
  BY <1>2 DEF NewState, Transits

\* Persist leaves the key of the state it is given: full of life, or none.
LEMMA PersistType ==
  ASSUME NEW s \in ActiveStates \cup {"idle", "expired"}, Persist(s)
  PROVE  /\ key' \in [state: ActiveStates \cup {"none"}, life: Life(StateTtl)]
         /\ Ends(s) => key'.state = "none"
         /\ s \in ActiveStates => key'.state = s /\ key'.life = StateTtl
<1> USE PreBreakoutAssumption DEF Ends, States, ActiveStates, Life, Absent, NoExpiry
<1>1. CASE Ends(s)
  BY <1>1 DEF Persist
<1>2. CASE ~Ends(s)
  BY <1>2 DEF Persist
<1> QED
  BY <1>1, <1>2

-----------------------------------------------------------------------------
(* The inductive invariant. *)

LEMMA InitSetup == SetupInit => SetupIInv
<1> SUFFICES ASSUME SetupInit PROVE SetupIInv
  OBVIOUS
<1> USE PreBreakoutAssumption DEF SetupInit
<1>1. SetupTypeOK
  <2>1. key \in [state: ActiveStates \cup {"none"}, life: Life(StateTtl)]
    BY DEF Life, Absent
  <2>2. 0 \in 0..CompressTicks /\ 0 \in 0..ReversalTicks
    OBVIOUS
  <2>3. stale \in BOOLEAN /\ quiet \in BOOLEAN
    OBVIOUS
  <2> QED
    BY <2>1, <2>2, <2>3 DEF SetupTypeOK, States, Zones
<1> QED
  BY <1>1 DEF SetupIInv, FinishedHasNoKey, ActiveWasEntered, KeyOutlivesState,
     OwnBarsOnly, ActiveStates

\* What update leaves in memory, whatever becomes of the key.
LEMMA RememberStep ==
  ASSUME SetupTypeOK, OwnBarsOnly, ActiveWasEntered, NEW bar \in Bars, Remember(bar)
  PROVE  /\ st' = NewState(bar)
         /\ entered' \in {Unset} \cup 0..(MaxState + 1)
         /\ declining' \in 0..CompressTicks
         /\ ticks' \in 0..ReversalTicks
         /\ reset' \in 0..CompressTicks
         /\ quiet' \in BOOLEAN
         /\ OwnBarsOnly'
         /\ ActiveWasEntered'
<1> USE PreBreakoutAssumption
<1>t. /\ entered \in {Unset} \cup 0..(MaxState + 1) /\ declining \in 0..CompressTicks
      /\ ticks \in 0..ReversalTicks /\ reset \in 0..CompressTicks
      /\ declining <= reset
  BY DEF SetupTypeOK, OwnBarsOnly
<1>1. Declining(bar) \in 0..CompressTicks /\ Declining(bar) <= UpTo(CompressTicks, declining + 1)
  BY DecliningBounds
<1>2. /\ UpTo(CompressTicks, declining + 1) \in 0..CompressTicks
      /\ UpTo(CompressTicks, declining + 1) <= UpTo(CompressTicks, reset + 1)
      /\ UpTo(CompressTicks, reset + 1) \in 0..CompressTicks
      /\ TicksHere \in 0..ReversalTicks
  BY <1>t DEF UpTo, TicksHere
<1>3. declining' \in 0..CompressTicks /\ reset' \in 0..CompressTicks /\ declining' <= reset'
  BY <1>1, <1>2 DEF Remember, DecliningAfter
<1>4. /\ entered' \in {Unset} \cup 0..(MaxState + 1) /\ ticks' \in 0..ReversalTicks
      /\ quiet' \in BOOLEAN /\ st' = NewState(bar)
  <2>1. /\ quiet' = FALSE /\ st' = NewState(bar)
        /\ entered' \in {0, entered} /\ ticks' \in {0, TicksHere}
    BY DEF Remember
  <2>2. entered' \in {Unset} \cup 0..(MaxState + 1) /\ ticks' \in 0..ReversalTicks
    BY <1>t, <1>2, <2>1
  <2>3. quiet' \in BOOLEAN
    BY <2>1
  <2> QED
    BY <2>1, <2>2, <2>3
<1>5. ActiveWasEntered'
  <2>1. CASE Transits(bar)
    BY <2>1 DEF Remember, ActiveWasEntered, Unset
  <2>2. CASE ~Transits(bar)
    BY <2>2, NewStateType DEF Remember, ActiveWasEntered
  <2> QED
    BY <2>1, <2>2
<1> QED
  BY <1>3, <1>4, <1>5 DEF OwnBarsOnly

\* The key after a bar whose write, if it had one, went through.
LEMMA WrittenStep ==
  ASSUME SetupIInv, NEW bar \in Bars, Remember(bar), Written(bar)
  PROVE  /\ key' \in [state: ActiveStates \cup {"none"}, life: Life(StateTtl)]
         /\ stale' \in BOOLEAN
         /\ FinishedHasNoKey'
         /\ KeyOutlivesState'
<1> USE PreBreakoutAssumption DEF SetupIInv
<1>1. st' = NewState(bar) /\ NewState(bar) \in ActiveStates \cup {"idle", "expired"}
  BY NewStateType DEF Remember
<1>2. CASE Transits(bar)
  <2>1. Persist(NewState(bar)) /\ stale' = FALSE /\ entered' = 0
    BY <1>2 DEF Written, Remember
  <2>2. /\ key' \in [state: ActiveStates \cup {"none"}, life: Life(StateTtl)]
        /\ Ends(st') => key'.state = "none"
        /\ st' \in ActiveStates => key'.state = st' /\ key'.life = StateTtl
    BY <1>1, <2>1, PersistType
  <2>3. FinishedHasNoKey'
    BY <2>2 DEF FinishedHasNoKey, Ends
  <2>4. KeyOutlivesState'
    BY <2>1, <2>2 DEF KeyOutlivesState
  <2> QED
    BY <2>1, <2>2, <2>3, <2>4
<1>3. CASE ~Transits(bar)
  <2>1. /\ st' = st /\ entered' = entered /\ key' = key /\ stale' = stale
    BY <1>1, <1>3, NewStateType DEF Written, Remember
  <2> QED
    BY <2>1 DEF SetupTypeOK, FinishedHasNoKey, KeyOutlivesState, Ends
<1> QED
  BY <1>2, <1>3

LEMMA BarKeeps ==
  ASSUME SetupIInv, NEW bar \in Bars, Bar(bar) \/ BarFails(bar)
  PROVE  SetupIInv'
<1> USE PreBreakoutAssumption
<1>1. Remember(bar) /\ prevWidth' \in Zones
  BY DEF Bar, BarFails, Bars, SetupIInv, SetupTypeOK
<1>2. /\ st' = NewState(bar)
      /\ entered' \in {Unset} \cup 0..(MaxState + 1)
      /\ declining' \in 0..CompressTicks /\ ticks' \in 0..ReversalTicks
      /\ reset' \in 0..CompressTicks /\ quiet' \in BOOLEAN
      /\ OwnBarsOnly' /\ ActiveWasEntered'
  BY <1>1, RememberStep DEF SetupIInv
<1>3. NewState(bar) \in ActiveStates \cup {"idle", "expired"}
  BY NewStateType DEF SetupIInv
<1>4. /\ key' \in [state: ActiveStates \cup {"none"}, life: Life(StateTtl)]
      /\ stale' \in BOOLEAN /\ FinishedHasNoKey' /\ KeyOutlivesState'
  <2>1. CASE Written(bar)
    BY <1>1, <2>1, WrittenStep
  <2>2. CASE ~Written(bar)
    <3>1. stale' = TRUE /\ (PersistHalf(NewState(bar)) \/ key' = key)
      BY <2>2 DEF Bar, BarFails
    <3>2. key \in [state: ActiveStates \cup {"none"}, life: Life(StateTtl)]
      BY DEF SetupIInv, SetupTypeOK
    <3>3. Touched(key.life) \in Life(StateTtl)
      BY <3>2 DEF Touched, Life, NoExpiry, Absent
    <3>4. key' \in [state: ActiveStates \cup {"none"}, life: Life(StateTtl)]
      BY <1>3, <3>1, <3>2, <3>3 DEF PersistHalf, Ends
    <3> QED
      BY <3>1, <3>4 DEF FinishedHasNoKey, KeyOutlivesState
  <2> QED
    BY <2>1, <2>2
<1>5. SetupTypeOK'
  BY <1>1, <1>2, <1>3, <1>4 DEF SetupTypeOK, States
<1> QED
  BY <1>2, <1>4, <1>5 DEF SetupIInv

\* Time takes a tick from the key and adds one to the age of the state.
LEMMA TickKeeps ==
  ASSUME SetupIInv, SetupTick
  PROVE  SetupIInv'
<1> USE PreBreakoutAssumption
<1>t. /\ SetupTypeOK /\ FinishedHasNoKey /\ ActiveWasEntered /\ KeyOutlivesState
      /\ OwnBarsOnly
      /\ entered \in {Unset} \cup 0..(MaxState + 1)
      /\ key \in [state: ActiveStates \cup {"none"}, life: Life(StateTtl)]
      /\ UNCHANGED <<st, declining, ticks, prevWidth, stale, reset>> /\ quiet' = TRUE
  BY DEF SetupIInv, SetupTypeOK, SetupTick
<1>1. Aged(key.life) \in Life(StateTtl)
  BY <1>t DEF Life, Aged, NoExpiry
<1>2. /\ key' \in [state: ActiveStates \cup {"none"}, life: Life(StateTtl)]
      /\ key.state = "none" => key'.state = "none"
      /\ key'.life = Aged(key.life)
      /\ Aged(key.life) # Absent => key'.state = key.state
  BY <1>t, <1>1 DEF SetupTick, Life, Absent
<1>3. /\ entered' \in {Unset} \cup 0..(MaxState + 1)
      /\ entered = Unset <=> entered' = Unset
      /\ entered # Unset /\ entered' <= MaxState => entered' = entered + 1 /\ entered < MaxState
  BY <1>t DEF SetupTick, UpTo, Unset
<1>4. SetupTypeOK'
  BY <1>t, <1>2, <1>3 DEF SetupTypeOK
<1>5. KeyOutlivesState'
  <2> SUFFICES ASSUME st \in ActiveStates, ~stale, entered' <= MaxState
               PROVE  key'.state = st /\ key'.life >= StateTtl - entered'
    BY <1>t DEF KeyOutlivesState
  <2>1. entered' = entered + 1 /\ entered < MaxState /\ entered \in Nat
    BY <1>t, <1>3 DEF ActiveWasEntered
  <2>2. key.state = st /\ key.life >= StateTtl - entered /\ key.life \in Int
    BY <1>t, <2>1 DEF KeyOutlivesState, Life, NoExpiry
  <2>3. key.life > 1 /\ Aged(key.life) = key.life - 1
    BY <2>1, <2>2 DEF Aged
  <2> QED
    BY <1>2, <2>1, <2>2, <2>3 DEF Absent
<1> QED
  BY <1>t, <1>2, <1>3, <1>4, <1>5
     DEF SetupIInv, FinishedHasNoKey, ActiveWasEntered, OwnBarsOnly, Ends

LEMMA SetupStep ==
  ASSUME SetupIInv, [SetupNext]_setupVars
  PROVE  SetupIInv'
<1> USE PreBreakoutAssumption
<1>t. /\ SetupTypeOK /\ FinishedHasNoKey /\ ActiveWasEntered /\ KeyOutlivesState
      /\ OwnBarsOnly
  BY DEF SetupIInv
<1>1. CASE BarStep
  BY <1>1, BarKeeps DEF BarStep
<1>2. CASE MarkTriggered
  <2>1. SetupTypeOK'
    BY <1>t, <1>2 DEF MarkTriggered, SetupTypeOK, States
  <2>2. st' \notin ActiveStates /\ ~Ends(st')
    BY <1>2 DEF MarkTriggered, ActiveStates, Ends
  <2> QED
    BY <1>t, <1>2, <2>1, <2>2 DEF MarkTriggered, SetupIInv, FinishedHasNoKey,
       ActiveWasEntered, KeyOutlivesState, OwnBarsOnly, Ends
<1>3. ASSUME NEW width \in Zones, WarmUp(width)
      PROVE  SetupIInv'
  <2>1. SetupTypeOK'
    BY <1>t, <1>3 DEF WarmUp, SetupTypeOK
  <2> QED
    BY <1>t, <1>3, <2>1 DEF WarmUp, SetupIInv, FinishedHasNoKey, ActiveWasEntered,
       KeyOutlivesState, OwnBarsOnly, Ends
<1>4. CASE SetupRestart
  <2>1. SetupTypeOK'
    BY <1>t, <1>4 DEF SetupRestart, SetupTypeOK, States, Zones
  <2> QED
    BY <1>4, <2>1 DEF SetupRestart, SetupIInv, FinishedHasNoKey, ActiveWasEntered,
       KeyOutlivesState, OwnBarsOnly, ActiveStates
<1>5. CASE SetupTick
  BY <1>5, TickKeeps
<1>6. CASE UNCHANGED setupVars
  BY <1>t, <1>6 DEF setupVars, memory, SetupIInv, SetupTypeOK, FinishedHasNoKey,
     ActiveWasEntered, KeyOutlivesState, OwnBarsOnly, Ends
<1> QED
  BY <1>1, <1>2, <1>3, <1>4, <1>5, <1>6 DEF SetupNext

\* The invariant of the pre-breakout machine (update, _transition, _persist and
\* mark_triggered) holds in every behaviour.
THEOREM SetupInvariant == SetupSpec => []SetupIInv
  BY InitSetup, SetupStep, PTL DEF SetupSpec

\* The dashboard shows no setup that is over and every setup that is not, and
\* a setup starts from its own bars, whatever write fails, key expires or
\* restart comes in between; for all thresholds with the state's limit below
\* the life of its key.
THEOREM SetupIsSafe == SetupSpec => []SetupSafe
<1>1. ASSUME SetupIInv PROVE SetupSafe
  <2>1. ActiveIsShown
    <3> SUFFICES ASSUME st \in ActiveStates, ~stale, entered <= MaxState
                 PROVE  key.state = st /\ key.life > 0
      BY DEF ActiveIsShown
    <3>1. /\ entered \in Int /\ key.life \in Int
          /\ key.state = st /\ key.life >= StateTtl - entered
      BY <1>1 DEF SetupIInv, SetupTypeOK, KeyOutlivesState, Unset, Life, NoExpiry
    <3> QED
      BY <3>1, PreBreakoutAssumption
  <2> QED
    BY <1>1, <2>1 DEF SetupIInv, SetupSafe
<1> QED
  BY <1>1, SetupInvariant, PTL

-----------------------------------------------------------------------------
(* The watch episodes. *)

\* The two values that stand for nothing are no episode, ladder or candidate.
LEMMA NothingIsNone ==
  /\ \A e \in Episodes : e # None
  /\ \A l \in Ladders : l # None
  /\ \A c \in Candidates : c # NothingPending
<1> USE DEF Episodes, Ladders, Candidates, None, NothingPending
<1>1. \A e \in Episodes : "entry" \in DOMAIN e /\ "none" \notin DOMAIN e
  OBVIOUS
<1>2. \A l \in Ladders : "none" \notin DOMAIN l
  OBVIOUS
<1>3. \A c \in Candidates : "none" \notin DOMAIN c
  OBVIOUS
<1>4. "none" \in DOMAIN [none |-> TRUE]
  OBVIOUS
<1> QED
  BY <1>1, <1>2, <1>3, <1>4

LEMMA FreshStopType ==
  ASSUME NEW d \in Directions, NEW price \in Prices
  PROVE  /\ FreshStop(d, price) \in Stops
         /\ ~Invalidated(d, price, FreshStop(d, price))
  BY WatchAssumption DEF FreshStop, Stops, Prices, Invalidated

LEMMA OlderType ==
  ASSUME NEW age \in Ages
  PROVE  /\ Older(age) \in Ages
         /\ age > WatchTtl => Older(age) > WatchTtl
  BY WatchAssumption DEF Older, Ages

\* Looking at a close keeps the ladders shown and can only break them.
LEMMA WatchedType ==
  ASSUME EpisodeTypeOK, NEW price \in Prices, Watched(price)
  PROVE  /\ shown' \in [Directions -> Ladders \cup {None}]
         /\ \A d \in Directions :
              /\ shown[d] = None <=> shown'[d] = None
              /\ shown[d] # None =>
                   /\ SameLadder(shown'[d], shown[d])
                   /\ shown[d].broken => shown'[d].broken
                   /\ Invalidated(d, price, shown[d].stop) => shown'[d].broken
<1>1. shown \in [Directions -> Ladders \cup {None}]
  BY DEF EpisodeTypeOK
<1>2. ASSUME NEW d \in Directions
      PROVE  /\ shown'[d] \in Ladders \cup {None}
             /\ shown[d] = None <=> shown'[d] = None
             /\ shown[d] # None =>
                  /\ SameLadder(shown'[d], shown[d])
                  /\ shown[d].broken => shown'[d].broken
                  /\ Invalidated(d, price, shown[d].stop) => shown'[d].broken
  <2>1. CASE shown[d] = None
    BY <2>1 DEF Watched
  <2>2. CASE shown[d] # None
    <3>1. shown[d] \in Ladders
      BY <1>1, <2>2
    <3> DEFINE nowBroken == shown[d].broken \/ Invalidated(d, price, shown[d].stop)
    <3>2. shown'[d] = [shown[d] EXCEPT !.broken = nowBroken]
      BY <2>2 DEF Watched
    <3>3. nowBroken \in BOOLEAN
      BY <3>1 DEF Ladders
    <3> HIDE DEF nowBroken
    <3>4. shown'[d] \in Ladders
      BY <3>1, <3>2, <3>3 DEF Ladders
    <3>5. SameLadder(shown'[d], shown[d])
      BY <3>1, <3>2 DEF SameLadder, Ladders
    <3>6. shown'[d].broken = nowBroken
      BY <3>1, <3>2 DEF Ladders
    <3>7. ASSUME shown[d].broken \/ Invalidated(d, price, shown[d].stop)
          PROVE  shown'[d].broken
      <4>1. nowBroken
        BY <3>7 DEF nowBroken
      <4>2. nowBroken = TRUE
        BY <3>3, <4>1
      <4> QED
        BY <3>6, <4>2
    <3>8. shown'[d] # None
      BY <3>4, NothingIsNone
    <3> QED
      BY <2>2, <3>4, <3>5, <3>7, <3>8
  <2> QED
    BY <2>1, <2>2
<1>3. shown' = [d \in Directions |-> shown'[d]]
  BY DEF Watched
<1> QED
  BY <1>2, <1>3

-----------------------------------------------------------------------------
(* The inductive invariant. *)

LEMMA InitEpisode == EpisodeInit => EpisodeIInv
<1> SUFFICES ASSUME EpisodeInit PROVE EpisodeIInv
  OBVIOUS
<1> USE WatchAssumption DEF EpisodeInit
<1>1. EpisodeTypeOK
  BY DEF EpisodeTypeOK
<1> QED
  BY <1>1 DEF EpisodeIInv, PublishedLadderStands, CandidateOfEpisode, ShownIsOpen,
     ChaseIsMarked, CandidateIsNews

\* A ladder that no longer belongs to the open episode was too old, or the close
\* that opened a new one has broken it.
LEMMA ShownAfterBar ==
  ASSUME EpisodeTypeOK, ShownIsOpen, NEW price \in Prices, Watched(price),
         \A d \in Directions :
           \/ episode'[d] = episode[d]
           \/ episode'[d] # None /\ SameLadder(episode'[d], episode[d])
           \/ ~Reusable(d, price)
  PROVE  ShownIsOpen'
<1> SUFFICES ASSUME NEW d \in Directions, shown'[d] # None
             PROVE  \/ shown'[d].age > WatchTtl
                    \/ shown'[d].broken
                    \/ episode'[d] # None /\ SameLadder(shown'[d], episode'[d])
  BY DEF ShownIsOpen
<1>1. /\ shown[d] # None /\ SameLadder(shown'[d], shown[d])
      /\ shown[d].broken => shown'[d].broken
      /\ Invalidated(d, price, shown[d].stop) => shown'[d].broken
  BY WatchedType
<1>2. CASE shown[d].age > WatchTtl \/ shown[d].broken
  BY <1>1, <1>2 DEF SameLadder
<1>3. CASE episode[d] # None /\ SameLadder(shown[d], episode[d])
  <2>1. CASE episode'[d] = episode[d]
    BY <1>1, <1>3, <2>1 DEF SameLadder
  <2>2. CASE episode'[d] # None /\ SameLadder(episode'[d], episode[d])
    BY <1>1, <1>3, <2>2 DEF SameLadder
  <2>3. CASE ~Reusable(d, price)
    <3>1. episode[d].age \in Int
      BY <1>3, WatchAssumption DEF EpisodeTypeOK, Episodes, Ages
    <3>2. CASE Invalidated(d, price, episode[d].stop)
      BY <1>1, <1>3, <3>2 DEF SameLadder
    <3>3. CASE episode[d].age > WatchTtl
      BY <1>1, <1>3, <3>3 DEF SameLadder
    <3> QED
      BY <1>3, <2>3, <3>1, <3>2, <3>3, WatchAssumption DEF Reusable
  <2> QED
    BY <2>1, <2>2, <2>3
<1> QED
  BY <1>1, <1>2, <1>3 DEF ShownIsOpen

\* A bar without a candidate only looks at the ladders shown.
LEMMA QuietBarKeeps ==
  ASSUME EpisodeIInv, NEW price \in Prices, Watched(price),
         UNCHANGED <<episode, watchCooldown, candidate, alerts>>
  PROVE  EpisodeIInv'
<1>1. EpisodeTypeOK'
  BY WatchedType DEF EpisodeIInv, EpisodeTypeOK
<1>2. ShownIsOpen'
  BY ShownAfterBar DEF EpisodeIInv
<1> QED
  BY <1>1, <1>2 DEF EpisodeIInv, PublishedLadderStands, CandidateOfEpisode,
     ChaseIsMarked, CandidateIsNews

LEMMA UpgradeKeeps ==
  ASSUME EpisodeIInv, NEW price \in Prices, NEW d \in Directions, Upgrade(d, price)
  PROVE  EpisodeIInv'
<1> USE WatchAssumption
<1>t. EpisodeTypeOK /\ ShownIsOpen /\ ChaseIsMarked
  BY DEF EpisodeIInv
<1>1. /\ episode[d] \in Episodes /\ episode[d].age <= WatchTtl
      /\ ~Invalidated(d, price, episode[d].stop)
      /\ ~episode[d].chaseable
      /\ episode' = [episode EXCEPT ![d].chaseable = TRUE]
      /\ Watched(price) /\ alerts' = alerts /\ watchCooldown' = watchCooldown
  BY <1>t DEF Upgrade, Reusable, EpisodeTypeOK
<1>2. candidate' = [dir |-> d, price |-> price, entry |-> episode[d].entry,
                    stop |-> episode[d].stop, age |-> episode[d].age,
                    chaseable |-> TRUE]
  BY DEF Upgrade
<1>3. /\ episode'[d] = [episode[d] EXCEPT !.chaseable = TRUE]
      /\ \A e \in Directions : e # d => episode'[e] = episode[e]
      /\ episode' = [e \in Directions |-> episode'[e]]
  BY <1>t, <1>1 DEF EpisodeTypeOK
<1>4. /\ episode'[d] \in Episodes /\ episode'[d].chaseable
      /\ SameLadder(episode'[d], episode[d])
  BY <1>1, <1>3 DEF Episodes, SameLadder
<1>5. candidate' \in Candidates
  BY <1>1, <1>2 DEF Candidates, Episodes
<1>6. EpisodeTypeOK'
  <2>1. episode' \in [Directions -> Episodes \cup {None}]
    BY <1>t, <1>3, <1>4 DEF EpisodeTypeOK
  <2> QED
    BY <1>t, <1>1, <1>5, <2>1, WatchedType DEF EpisodeTypeOK
<1>7. ShownIsOpen'
  BY <1>t, <1>1, <1>3, <1>4, NothingIsNone, ShownAfterBar
<1>8. ChaseIsMarked'
  BY <1>t, <1>1, <1>3, <1>4, NothingIsNone DEF ChaseIsMarked
<1>9. /\ candidate'.dir = d /\ candidate'.price = price /\ candidate'.chaseable
      /\ SameLadder(candidate', episode[d])
  BY <1>2 DEF SameLadder
<1>10. CandidateOfEpisode'
  <2>1. candidate'.chaseable = episode'[d].chaseable
    BY <1>2, <1>1, <1>3 DEF Episodes
  <2> QED
    BY <1>4, <1>9, <2>1, NothingIsNone DEF CandidateOfEpisode, SameLadder
<1>11. CandidateIsNews'
  BY <1>t, <1>1, <1>9 DEF CandidateIsNews, ChaseIsMarked
<1>12. PublishedLadderStands'
  <2>1. candidate'.stop = episode[d].stop /\ candidate'.age = episode[d].age
    BY <1>2
  <2>2. episode[d].stop \in Int /\ price \in Int
    BY <1>1 DEF Episodes, Stops, Prices
  <2> QED
    BY <1>1, <1>9, <2>1, <2>2 DEF PublishedLadderStands, Invalidated
<1> QED
  BY <1>6, <1>7, <1>8, <1>10, <1>11, <1>12 DEF EpisodeIInv

LEMMA OpenKeeps ==
  ASSUME EpisodeIInv, NEW price \in Prices, NEW d \in Directions,
         NEW chaseable \in BOOLEAN, Open(d, price, chaseable)
  PROVE  EpisodeIInv'
<1> USE WatchAssumption
<1>t. EpisodeTypeOK /\ ShownIsOpen /\ ChaseIsMarked
  BY DEF EpisodeIInv
<1> DEFINE fresh == [entry |-> price, stop |-> FreshStop(d, price), age |-> 0,
                     chaseable |-> chaseable]
<1>1. /\ ~Reusable(d, price) /\ Watched(price)
      /\ episode' = [episode EXCEPT ![d] = fresh]
      /\ alerts' = [alerts EXCEPT ![d] = {}]
      /\ watchCooldown' = watchCooldown
  BY DEF Open
<1>2. candidate' = [dir |-> d, price |-> price, entry |-> price,
                    stop |-> FreshStop(d, price), age |-> 0, chaseable |-> chaseable]
  BY DEF Open, Candidate
<1>3. FreshStop(d, price) \in Stops /\ ~Invalidated(d, price, FreshStop(d, price))
  BY FreshStopType
<1>4. 0 \in Ages
  BY DEF Ages
<1>5. fresh \in Episodes /\ candidate' \in Candidates
  BY <1>2, <1>3, <1>4 DEF Episodes, Candidates
<1>6. /\ episode'[d] = fresh
      /\ \A e \in Directions : e # d => episode'[e] = episode[e]
      /\ alerts'[d] = {}
      /\ \A e \in Directions : e # d => alerts'[e] = alerts[e]
  BY <1>t, <1>1 DEF EpisodeTypeOK
<1>7. EpisodeTypeOK'
  BY <1>t, <1>1, <1>5, WatchedType DEF EpisodeTypeOK
<1>8. ShownIsOpen'
  BY <1>t, <1>1, <1>6, ShownAfterBar
<1>9. ChaseIsMarked'
  BY <1>t, <1>6 DEF ChaseIsMarked
<1>10. candidate'.dir = d /\ candidate'.price = price /\ candidate'.age = 0
       /\ candidate'.stop = FreshStop(d, price)
  BY <1>2
<1>11. CandidateOfEpisode'
  <2>1. SameLadder(candidate', fresh) /\ candidate'.chaseable = fresh.chaseable
    BY <1>2 DEF SameLadder
  <2> QED
    BY <1>5, <1>6, <1>10, <2>1, NothingIsNone DEF CandidateOfEpisode
<1>12. CandidateIsNews'
  BY <1>6, <1>10 DEF CandidateIsNews
<1>13. PublishedLadderStands'
  <2>1. FreshStop(d, price) \in Int /\ price \in Int
    BY <1>3 DEF Stops, Prices
  <2> QED
    BY <1>3, <1>10, <2>1 DEF PublishedLadderStands, Invalidated
<1> QED
  BY <1>7, <1>8, <1>9, <1>11, <1>12, <1>13 DEF EpisodeIInv

\* A bar, with or without a candidate, keeps the invariant.
LEMMA EpisodeBarKeeps ==
  ASSUME EpisodeIInv, EvaluateBar
  PROVE  EpisodeIInv'
<1>1. ASSUME NEW price \in Prices,
             \/ NoCandidate(price)
             \/ \E d \in Directions, chaseable \in BOOLEAN : StaySilent(d, price, chaseable)
      PROVE  EpisodeIInv'
  <2>1. Watched(price) /\ UNCHANGED <<episode, watchCooldown, candidate, alerts>>
    BY <1>1 DEF NoCandidate, StaySilent
  <2> QED
    BY <2>1, QuietBarKeeps
<1> QED
  BY <1>1, UpgradeKeeps, OpenKeeps DEF EvaluateBar

\* What is published is the episode's own ladder, in the tier it is marked with.
LEMMA PublishKeeps ==
  ASSUME EpisodeIInv, Publishes
  PROVE  EpisodeIInv'
<1> USE WatchAssumption
<1> DEFINE d == candidate.dir
<1>t. /\ EpisodeTypeOK /\ CandidateOfEpisode /\ ShownIsOpen /\ ChaseIsMarked
      /\ candidate \in Candidates /\ candidate # NothingPending
      /\ candidate' = NothingPending /\ episode' = episode /\ Published
      /\ watchCooldown' \in 0..EpisodeCooldown
  BY DEF EpisodeIInv, EpisodeTypeOK, Publishes, Publish, PublishTorn
<1>1. /\ d \in Directions /\ episode[d] # None /\ SameLadder(candidate, episode[d])
      /\ candidate.chaseable = episode[d].chaseable
  BY <1>t DEF CandidateOfEpisode, Candidates
<1> DEFINE ladder == [entry |-> candidate.entry, stop |-> candidate.stop,
                      age |-> candidate.age, broken |-> FALSE]
<1>2. ladder \in Ladders /\ SameLadder(ladder, episode[d])
  BY <1>t, <1>1 DEF Ladders, Candidates, SameLadder
<1>3. /\ shown' = [shown EXCEPT ![d] = ladder]
      /\ alerts' = [alerts EXCEPT ![d] = @ \cup {Tier}]
  BY <1>t DEF Published
<1>4. Tier \in Tiers /\ (Tier = "chase" => candidate.chaseable)
  BY DEF Tier, Tiers
<1> HIDE DEF d, ladder
<1>5. EpisodeTypeOK'
  BY <1>t, <1>1, <1>2, <1>3, <1>4 DEF EpisodeTypeOK
<1>6. ShownIsOpen'
  <2> SUFFICES ASSUME NEW e \in Directions, shown'[e] # None
               PROVE  \/ shown'[e].age > WatchTtl
                      \/ shown'[e].broken
                      \/ episode[e] # None /\ SameLadder(shown'[e], episode[e])
    BY <1>t DEF ShownIsOpen
  <2>1. CASE e = d
    BY <1>t, <1>1, <1>2, <1>3, <2>1 DEF EpisodeTypeOK
  <2>2. CASE e # d
    <3>1. shown'[e] = shown[e]
      BY <1>t, <1>3, <2>2 DEF EpisodeTypeOK
    <3> QED
      BY <1>t, <3>1 DEF ShownIsOpen
  <2> QED
    BY <2>1, <2>2
<1>7. ChaseIsMarked'
  <2> SUFFICES ASSUME NEW e \in Directions, "chase" \in alerts'[e]
               PROVE  episode[e] # None /\ episode[e].chaseable
    BY <1>t DEF ChaseIsMarked
  <2>1. CASE "chase" \in alerts[e]
    BY <1>t, <2>1 DEF ChaseIsMarked
  <2>2. CASE "chase" \notin alerts[e]
    <3>1. e = d /\ Tier = "chase"
      BY <1>t, <1>3, <2>2 DEF EpisodeTypeOK
    <3> QED
      BY <1>1, <1>4, <3>1
  <2> QED
    BY <2>1, <2>2
<1> QED
  BY <1>t, <1>5, <1>6, <1>7 DEF EpisodeIInv, PublishedLadderStands, CandidateOfEpisode,
     CandidateIsNews

\* Time adds a tick to an episode and to the ladder it has shown alike.
LEMMA EpisodeTickKeeps ==
  ASSUME EpisodeIInv, EpisodeTick
  PROVE  EpisodeIInv'
<1> USE WatchAssumption
<1>t. /\ EpisodeTypeOK /\ ShownIsOpen /\ ChaseIsMarked
      /\ candidate = NothingPending /\ candidate' = NothingPending /\ alerts' = alerts
  BY DEF EpisodeIInv, EpisodeTick
<1>1. ASSUME NEW d \in Directions
      PROVE  /\ episode'[d] \in Episodes \cup {None}
             /\ episode[d] = None <=> episode'[d] = None
             /\ episode[d] # None =>
                  /\ episode'[d].entry = episode[d].entry
                  /\ episode'[d].stop = episode[d].stop
                  /\ episode'[d].age = Older(episode[d].age)
                  /\ episode'[d].chaseable = episode[d].chaseable
  <2>1. CASE episode[d] = None
    BY <2>1 DEF EpisodeTick
  <2>2. CASE episode[d] # None
    <3>1. episode[d] \in Episodes
      BY <1>t, <2>2 DEF EpisodeTypeOK
    <3>2. episode'[d] = [episode[d] EXCEPT !.age = Older(episode[d].age)]
      BY <2>2 DEF EpisodeTick
    <3>3. Older(episode[d].age) \in Ages
      BY <3>1, OlderType DEF Episodes
    <3>4. episode'[d] \in Episodes
      BY <3>1, <3>2, <3>3 DEF Episodes
    <3> QED
      BY <2>2, <3>1, <3>2, <3>4, NothingIsNone DEF Episodes
  <2> QED
    BY <2>1, <2>2
<1>2. ASSUME NEW d \in Directions
      PROVE  /\ shown'[d] \in Ladders \cup {None}
             /\ shown[d] = None <=> shown'[d] = None
             /\ shown[d] # None =>
                  /\ shown'[d].entry = shown[d].entry
                  /\ shown'[d].stop = shown[d].stop
                  /\ shown'[d].age = Older(shown[d].age)
                  /\ shown'[d].broken = shown[d].broken
                  /\ shown[d].age \in Ages
  <2>1. CASE shown[d] = None
    BY <2>1 DEF EpisodeTick
  <2>2. CASE shown[d] # None
    <3>1. shown[d] \in Ladders
      BY <1>t, <2>2 DEF EpisodeTypeOK
    <3>2. shown'[d] = [shown[d] EXCEPT !.age = Older(shown[d].age)]
      BY <2>2 DEF EpisodeTick
    <3>3. Older(shown[d].age) \in Ages
      BY <3>1, OlderType DEF Ladders
    <3>4. shown'[d] \in Ladders
      BY <3>1, <3>2, <3>3 DEF Ladders
    <3> QED
      BY <2>2, <3>1, <3>2, <3>4, NothingIsNone DEF Ladders
  <2> QED
    BY <2>1, <2>2
<1>3. EpisodeTypeOK'
  <2>1. /\ episode' = [d \in Directions |-> episode'[d]]
        /\ shown' = [d \in Directions |-> shown'[d]]
    BY DEF EpisodeTick
  <2>2. watchCooldown' \in 0..EpisodeCooldown
    BY <1>t DEF EpisodeTypeOK, EpisodeTick
  <2> QED
    BY <1>t, <1>1, <1>2, <2>1, <2>2 DEF EpisodeTypeOK
<1>4. ShownIsOpen'
  <2> SUFFICES ASSUME NEW d \in Directions, shown'[d] # None
               PROVE  \/ shown'[d].age > WatchTtl
                      \/ shown'[d].broken
                      \/ episode'[d] # None /\ SameLadder(shown'[d], episode'[d])
    BY DEF ShownIsOpen
  <2>1. CASE shown[d].age > WatchTtl
    BY <1>2, <2>1, OlderType
  <2>2. CASE shown[d].broken
    BY <1>2, <2>2
  <2>3. CASE episode[d] # None /\ SameLadder(shown[d], episode[d])
    BY <1>1, <1>2, <2>3 DEF SameLadder
  <2> QED
    BY <1>t, <1>2, <2>1, <2>2, <2>3 DEF ShownIsOpen
<1>5. ChaseIsMarked'
  BY <1>t, <1>1 DEF ChaseIsMarked
<1> QED
  BY <1>t, <1>3, <1>4, <1>5 DEF EpisodeIInv, PublishedLadderStands, CandidateOfEpisode,
     CandidateIsNews

LEMMA EpisodeStep ==
  ASSUME EpisodeIInv, [EpisodeNext]_episodeVars
  PROVE  EpisodeIInv'
<1>1. CASE EvaluateBar
  BY <1>1, EpisodeBarKeeps
<1>2. CASE Publish \/ PublishTorn
  BY <1>2, PublishKeeps DEF Publishes
<1>3. CASE Suppress
  BY <1>3 DEF Suppress, announced, EpisodeIInv, EpisodeTypeOK, PublishedLadderStands,
     CandidateOfEpisode, ShownIsOpen, ChaseIsMarked, CandidateIsNews
<1>4. CASE EpisodeRestart
  BY <1>4 DEF EpisodeRestart, EpisodeIInv, EpisodeTypeOK, PublishedLadderStands,
     CandidateOfEpisode, ShownIsOpen, ChaseIsMarked, CandidateIsNews
<1>5. CASE EpisodeTick
  BY <1>5, EpisodeTickKeeps
<1>6. CASE UNCHANGED episodeVars
  BY <1>6 DEF episodeVars, announced, EpisodeIInv, EpisodeTypeOK, PublishedLadderStands,
     CandidateOfEpisode, ShownIsOpen, ChaseIsMarked, CandidateIsNews
<1> QED
  BY <1>1, <1>2, <1>3, <1>4, <1>5, <1>6 DEF EpisodeNext

\* The invariant of the episodes (resolve_ladder_basis, finalize_episode and the
\* writing back in process_feature) holds in every behaviour.
THEOREM EpisodeInvariant == EpisodeSpec => []EpisodeIInv
  BY InitEpisode, EpisodeStep, PTL DEF EpisodeSpec

-----------------------------------------------------------------------------
(* What the invariant gives of the steps that publish. *)

\* A ladder that has been shown and still counts is the one that is published.
THEOREM FrozenLadder == EpisodeSpec => LadderFrozen
<1> DEFINE Frozen == Publishes =>
      \/ shown[candidate.dir] = None
      \/ /\ shown[candidate.dir].entry = candidate.entry
         /\ shown[candidate.dir].stop = candidate.stop
      \/ shown[candidate.dir].age > WatchTtl
      \/ shown[candidate.dir].broken
<1>1. EpisodeIInv /\ [EpisodeNext]_episodeVars => [Frozen]_episodeVars
  <2> SUFFICES ASSUME EpisodeIInv, Publishes, shown[candidate.dir] # None
               PROVE  Frozen
    OBVIOUS
  <2>1. candidate \in Candidates /\ candidate # NothingPending
    BY DEF EpisodeIInv, EpisodeTypeOK, Publishes, Publish, PublishTorn
  <2>2. candidate.dir \in Directions
    BY <2>1 DEF Candidates
  <2> QED
    BY <2>1, <2>2 DEF EpisodeIInv, CandidateOfEpisode, ShownIsOpen, SameLadder
<1> QED
  BY <1>1, EpisodeInvariant, PTL DEF EpisodeSpec, LadderFrozen

\* An episode is announced once per tier, the chaseable one last.
THEOREM OncePerTier == EpisodeSpec => OneAlertPerTier
<1> DEFINE Once == Publishes => Tier \notin alerts[candidate.dir]
                                /\ (Tier = "watch" => alerts[candidate.dir] = {})
<1>1. EpisodeIInv /\ [EpisodeNext]_episodeVars => [Once]_episodeVars
  <2> SUFFICES ASSUME EpisodeIInv, Publishes
               PROVE  Once
    OBVIOUS
  <2>1. candidate # NothingPending
    BY DEF Publishes, Publish, PublishTorn
  <2>2. IF candidate.chaseable THEN "chase" \notin alerts[candidate.dir]
                               ELSE alerts[candidate.dir] = {}
    BY <2>1 DEF EpisodeIInv, CandidateIsNews
  <2> QED
    BY <2>2 DEF Tier
<1> QED
  BY <1>1, EpisodeInvariant, PTL DEF EpisodeSpec, OneAlertPerTier

\* What the channel is told of a setup: a ladder that stands, the same one as
\* long as it does, and once per tier; whatever the gate stops, a cut off
\* publication leaves out or a restart forgets.
THEOREM EpisodesAreSafe == EpisodeSpec => EpisodeSafe
<1>1. EpisodeIInv => EpisodeTypeOK /\ PublishedLadderStands
  BY DEF EpisodeIInv
<1> QED
  BY <1>1, EpisodeInvariant, FrozenLadder, OncePerTier, PTL DEF EpisodeSafe
==============================================================================
