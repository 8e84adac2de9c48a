------------------------------ MODULE AlertGate ------------------------------
(***************************************************************************)
(* The alerter (services/alerter): one handler that takes a signal through *)
(* the delivery gate, posts it to Telegram with retries and records the    *)
(* delivery in Redis; a position warning that passes a cooldown of its own *)
(* instead; and the recap and test messages, which are only posted.  Every *)
(* command the handler waits for is a step, because the keys expire while  *)
(* it waits, and because a failing command or a crash ends the handler     *)
(* there: main.py acknowledges the message either way, so what the handler *)
(* left undone stays undone.                                               *)
(*                                                                         *)
(* The mute sets belong to the API: the gate may find a symbol muted or    *)
(* not.  Signals below the minimum grade touch nothing and are left out,   *)
(* and so is what a message says.  Of the delivery log only the signals    *)
(* reported as delivered are kept, not their order or its trimming.        *)
(* AlreadyDeliveredForgotten, InCooldownForgotten and EnsureRateTtlSwapped *)
(* are faulty variants, kept to see the properties fail.                   *)
(***************************************************************************)
EXTENDS RedisKeys, FiniteSetsExt

CONSTANTS
  AlertSymbols,    \* the symbols alerts are about
  RateLimit,       \* global_rate_limit
  BurstLimit,      \* burst_limit
  AlertCooldown,   \* alert_cooldown_sec, in ticks
  RateTtl,         \* 3600 seconds, in ticks
  BurstTtl,        \* 300 seconds, in ticks
  WarningTtl,      \* POSITION_WARNING_REDUNDANT_COOLDOWN_SEC, in ticks
  RetryMax,        \* retry_max
  MaxFaults        \* bound: crashes, failing commands and lost answers

ASSUME AlertAssumption ==
  /\ RateLimit \in Nat \ {0}
  /\ BurstLimit \in Nat \ {0}
  /\ AlertCooldown \in Nat \ {0}
  /\ RateTtl \in Nat \ {0}
  /\ BurstTtl \in Nat \ {0}
  /\ WarningTtl \in Nat \ {0}
  /\ RetryMax \in Nat \ {0}
  /\ MaxFaults \in Nat

VARIABLES
  alertCooldown,  \* ticks left of infusion:alert:cooldown:{symbol}
  rate,           \* KEY_ALERT_RATE: the counter and its life
  burst,          \* KEY_ALERT_BURST: the counter and its life
  delivered,      \* KEY_ALERT_DELIVERED
  warned,         \* ticks left of the position warning's cooldown, per symbol
  logged,         \* the signals KEY_ALERT_LOG reports as delivered
  item,           \* what the handler has taken up
  step,           \* what the handler does next
  attempt,        \* the posts of this message so far
  accepted,       \* history: how often Telegram has accepted each signal, and each
                  \* warning since its cooldown was set
  counted,        \* history: the counted deliveries by their age in ticks
  faults          \* history: crashes, failing commands and lost answers

alertKeys == <<alertCooldown, rate, burst, delivered, warned, logged>>
alertHandler == <<item, step, attempt>>
alertHistory == <<accepted, counted, faults>>
alertVars == <<alertKeys, alertHandler, alertHistory>>

\* CRITICAL and HIGH are the two priority tiers the gate tells apart.
Signals == [symbol: AlertSymbols, kind: {"CRITICAL", "HIGH"}]
Warnings == [symbol: AlertSymbols, kind: {"position_warning"}]
Direct == [kind: {"direct"}]
NoItem == [none |-> TRUE]

Gates == <<"muted", "duplicate", "cooldown", "rate", "burst", "post">>

AlertSteps ==
  {Gates[i] : i \in DOMAIN Gates}
    \cup {"idle", "exists", "setex", "record", "rate_ttl", "burst_ttl", "log"}

Counters(ttl) == [n: Nat, life: Life(ttl)]
NoCounter == [n |-> 0, life |-> Absent]

AlertTypeOK ==
  /\ alertCooldown \in [AlertSymbols -> 0..AlertCooldown]
  /\ rate \in Counters(RateTtl)
  /\ burst \in Counters(BurstTtl)
  /\ delivered \subseteq Signals
  /\ warned \in [AlertSymbols -> 0..WarningTtl]
  /\ logged \subseteq Signals
  /\ item \in Signals \cup Warnings \cup Direct \cup {NoItem}
  /\ step \in AlertSteps
  /\ attempt \in 0..RetryMax
  /\ accepted \in [Signals \cup Warnings -> Nat]
  /\ counted \in [0..(RateTtl - 1) -> Nat]
  /\ faults \in 0..MaxFaults

AlertInit ==
  /\ alertCooldown = [s \in AlertSymbols |-> 0]
  /\ rate = NoCounter
  /\ burst = NoCounter
  /\ delivered = {}
  /\ warned = [s \in AlertSymbols |-> 0]
  /\ logged = {}
  /\ item = NoItem
  /\ step = "idle"
  /\ attempt = 0
  /\ accepted = [m \in Signals \cup Warnings |-> 0]
  /\ counted = [a \in 0..(RateTtl - 1) |-> 0]
  /\ faults = 0

-----------------------------------------------------------------------------
(* A message is taken up, and the gate is passed or not. *)

\* The handler's next step; when it is over, nothing of it is left.
Then(next) ==
  /\ step' = next
  /\ item' = IF next = "idle" THEN NoItem ELSE item
  /\ attempt' = 0

Receive(m, first) ==
  /\ step = "idle"
  /\ item' = m
  /\ step' = first
  /\ attempt' = 0
  /\ UNCHANGED <<alertKeys, alertHistory>>

\* process_signal: what kind of message it is.
ReceiveAny ==
  \/ \E m \in Signals : Receive(m, "muted")
  \/ \E m \in Warnings : Receive(m, "exists")
  \/ \E m \in Direct : Receive(m, "post")

AlreadyDeliveredForgotten == FALSE

AlreadyDelivered == item \in delivered

InCooldownForgotten == FALSE

InCooldown == alertCooldown[item.symbol] > 0

LimitReached(counter, limit) == counter.n >= limit

\* What Redis tells the gate to stop for; the mute sets are in PassGate and
\* BlockAtGate.
Blocks(gate) ==
  \/ gate = "duplicate" /\ AlreadyDelivered
  \/ gate = "cooldown" /\ InCooldown
  \/ gate = "rate" /\ LimitReached(rate, RateLimit)
  \/ gate = "burst" /\ item.kind # "CRITICAL" /\ LimitReached(burst, BurstLimit)

PassGate ==
  \E i \in 1..5 :
    /\ step = Gates[i]
    /\ ~Blocks(step)
    /\ Then(Gates[i + 1])
    /\ UNCHANGED <<alertKeys, alertHistory>>

\* The first gate that fails ends the handler.
BlockAtGate ==
  /\ \E i \in 1..5 : step = Gates[i]
  /\ step = "muted" \/ Blocks(step)
  /\ Then("idle")
  /\ UNCHANGED <<alertKeys, alertHistory>>

-----------------------------------------------------------------------------
(* A position warning's own cooldown: EXISTS, then SETEX. *)

WarningIsFresh ==
  /\ step = "exists"
  /\ warned[item.symbol] = 0
  /\ Then("setex")
  /\ UNCHANGED <<alertKeys, alertHistory>>

WarningIsBlocked ==
  /\ step = "exists"
  /\ warned[item.symbol] > 0
  /\ Then("idle")
  /\ UNCHANGED <<alertKeys, alertHistory>>

SetWarningCooldown ==
  /\ step = "setex"
  /\ warned' = [warned EXCEPT ![item.symbol] = WarningTtl]
  /\ accepted' = [accepted EXCEPT ![item] = 0]
  /\ Then("post")
  /\ UNCHANGED <<alertCooldown, rate, burst, delivered, logged, counted, faults>>

-----------------------------------------------------------------------------
(* TelegramClient.send_message: up to RetryMax posts. *)

Accept ==
  accepted' = IF item \in Direct THEN accepted
              ELSE [accepted EXCEPT ![item] = @ + 1]

\* 200
PostAccepted ==
  /\ step = "post"
  /\ Accept
  /\ Then(IF item \in Signals THEN "record" ELSE "idle")
  /\ UNCHANGED <<alertKeys, counted, faults>>

\* A client error other than 429: no retry.
PostRefused ==
  /\ step = "post"
  /\ Then("idle")
  /\ UNCHANGED <<alertKeys, alertHistory>>

Retry ==
  IF attempt + 1 < RetryMax
    THEN attempt' = attempt + 1 /\ UNCHANGED <<item, step>>
    ELSE Then("idle")

\* 429, a server error or no connection: after a pause, again.
PostFails ==
  /\ step = "post"
  /\ Retry
  /\ UNCHANGED <<alertKeys, alertHistory>>

\* The message has arrived; its answer has not.
PostTimesOut ==
  /\ step = "post"
  /\ faults < MaxFaults
  /\ faults' = faults + 1
  /\ Accept
  /\ Retry
  /\ UNCHANGED <<alertKeys, counted>>

-----------------------------------------------------------------------------
(* DeliveryGate.record_delivery: a pipeline of four commands, then the two *)
(* expiries, each set only if its counter has none.                        *)

Incremented(counter) == [n |-> counter.n + 1, life |-> Touched(counter.life)]

\* The first n commands of the pipeline.
FirstCommands(n) ==
  /\ alertCooldown' = IF n >= 1
                        THEN [alertCooldown EXCEPT ![item.symbol] = AlertCooldown]
                        ELSE alertCooldown
  /\ rate' = IF n >= 2 THEN Incremented(rate) ELSE rate
  /\ counted' = IF n >= 2 THEN [counted EXCEPT ![0] = @ + 1] ELSE counted
  /\ burst' = IF n >= 3 THEN Incremented(burst) ELSE burst
  /\ delivered' = IF n >= 4 THEN delivered \cup {item} ELSE delivered

Record ==
  /\ step = "record"
  /\ FirstCommands(4)
  /\ Then("rate_ttl")
  /\ UNCHANGED <<warned, logged, accepted, faults>>

\* The connection breaks inside the pipeline: a part of it has been executed.
RecordTorn ==
  /\ step = "record"
  /\ faults < MaxFaults
  /\ faults' = faults + 1
  /\ \E n \in 0..4 : FirstCommands(n)
  /\ Then("idle")
  /\ UNCHANGED <<warned, logged, accepted>>

\* TTL, and EXPIRE if the reply is -1.
Limited(counter, ttl) ==
  [counter EXCEPT !.life = IF @ = NoExpiry THEN ttl ELSE @]

EnsureRateTtlSwapped ==
  /\ step = "rate_ttl"
  /\ rate' = Limited(rate, BurstTtl)
  /\ Then("burst_ttl")
  /\ UNCHANGED <<alertCooldown, burst, delivered, warned, logged, alertHistory>>

EnsureRateTtl ==
  /\ step = "rate_ttl"
  /\ rate' = Limited(rate, RateTtl)
  /\ Then("burst_ttl")
  /\ UNCHANGED <<alertCooldown, burst, delivered, warned, logged, alertHistory>>

EnsureBurstTtl ==
  /\ step = "burst_ttl"
  /\ burst' = Limited(burst, BurstTtl)
  /\ Then("log")
  /\ UNCHANGED <<alertCooldown, rate, delivered, warned, logged, alertHistory>>

Log ==
  /\ step = "log"
  /\ logged' = logged \cup {item}
  /\ Then("idle")
  /\ UNCHANGED <<alertCooldown, rate, burst, delivered, warned, alertHistory>>

-----------------------------------------------------------------------------

\* A command fails, or the alerter crashes and is started again.  Nothing of
\* the handler is kept.
HandlerDies ==
  /\ step # "idle"
  /\ faults < MaxFaults
  /\ faults' = faults + 1
  /\ Then("idle")
  /\ UNCHANGED <<alertKeys, accepted, counted>>

AgedCounter(counter) ==
  LET life == Aged(counter.life)
  IN  IF life = Absent THEN NoCounter ELSE [n |-> counter.n, life |-> life]

AlertTick ==
  /\ alertCooldown' = [s \in AlertSymbols |-> Aged(alertCooldown[s])]
  /\ warned' = [s \in AlertSymbols |-> Aged(warned[s])]
  /\ rate' = AgedCounter(rate)
  /\ burst' = AgedCounter(burst)
  /\ counted' = [a \in 0..(RateTtl - 1) |-> IF a = 0 THEN 0 ELSE counted[a - 1]]
  /\ UNCHANGED <<delivered, logged, alertHandler, accepted, faults>>

Handle ==
  \/ PassGate \/ BlockAtGate
  \/ WarningIsFresh \/ WarningIsBlocked \/ SetWarningCooldown
  \/ PostAccepted \/ PostRefused \/ PostFails
  \/ Record \/ EnsureRateTtl \/ EnsureBurstTtl \/ Log

Fault == PostTimesOut \/ RecordTorn \/ HandlerDies

AlertNext == ReceiveAny \/ Handle \/ Fault \/ AlertTick

\* Every command and every post is answered or times out, and the clock goes
\* on; nothing says that messages come.
AlertFairness == WF_alertVars(Handle) /\ WF_alertVars(AlertTick)

AlertSpec == AlertInit /\ [][AlertNext]_alertVars /\ AlertFairness

-----------------------------------------------------------------------------
(* Properties. *)

\* "global_rate_limit": the gate reads the counter several steps before it is
\* incremented, and still no delivery takes it beyond the limit.
RateBounded == rate.n <= RateLimit

\* "burst_limit", "skip for CRITICAL": only a critical alert takes the
\* five-minute counter beyond its limit.
BurstOnlyCritical ==
  [][burst'.n > burst.n /\ burst'.n > BurstLimit
       => item.kind = "CRITICAL"]_alertVars

\* Alerts of one symbol are recorded at least the cooldown apart, and its
\* warnings are sent at least theirs apart, although the cooldown is read many
\* steps before it is set: it has run out when it is set again.
SpacedPerSymbol ==
  [][/\ rate'.n > rate.n => alertCooldown[item.symbol] = 0
     /\ step = "setex" /\ step' = "post" => warned[item.symbol] = 0]_alertVars

\* A signal that comes more than once, or a warning that comes again within
\* its cooldown, is sent a second time only if a crash, a failing command or a
\* lost answer kept the alerter from recording the first.
OneMessagePerFault ==
  \A m \in Signals \cup Warnings : accepted[m] <= 1 + faults

CountedIn(window) == MapThenSumSet(LAMBDA a : counted[a], window)

\* The counter's hour begins with its first delivery and not an hour ago, so
\* an hour may hold the deliveries of two counters, but not both in full.
HourBounded == CountedIn(DOMAIN counted) < 2 * RateLimit

\* What the log reports as delivered is a delivery the gate remembers, and
\* Telegram has accepted every delivery the gate remembers.
LoggedIsDelivered ==
  /\ logged \subseteq delivered
  /\ \A m \in delivered : accepted[m] >= 1

\* What the gate remembers of the deliveries is what was delivered.
AlertSafe ==
  /\ AlertTypeOK
  /\ RateBounded
  /\ OneMessagePerFault
  /\ LoggedIsDelivered

\* Alerts come no faster than their limits allow.
AlertPace == BurstOnlyCritical /\ SpacedPerSymbol

\* When nothing fails, a rate limit that has been reached is lifted.
RateLimitLifts == (rate.n >= RateLimit) ~> (rate.n = 0)

-----------------------------------------------------------------------------
(* What makes AlertSafe inductive, and AlertPace follow from it. *)

\* Each step works on the kind of message it is for.
ItemFitsStep ==
  /\ step \in {"muted", "duplicate", "cooldown", "rate", "burst",
              "record", "rate_ttl", "burst_ttl", "log"} => item \in Signals
  /\ step \in {"exists", "setex"} => item \in Warnings
  /\ step = "post" => item \in Signals \cup Warnings \cup Direct

\* What a gate has found still holds when the delivery is recorded, however many
\* steps later: only this handler could make it untrue.
GatesStillHold ==
  item \in Signals =>
    /\ step \in {"cooldown", "rate", "burst", "post", "record"} => item \notin delivered
    /\ step \in {"rate", "burst", "post", "record"} => alertCooldown[item.symbol] = 0
    /\ step \in {"burst", "post", "record"} => rate.n < RateLimit
    /\ step \in {"post", "record"} /\ item.kind # "CRITICAL" => burst.n < BurstLimit

WarningStaysFresh == step = "setex" => warned[item.symbol] = 0

\* Every message beyond the first has cost a fault, and so has the first as long
\* as the gate does not remember it.
EachCostsAFault ==
  /\ \A m \in Signals :
       \/ accepted[m] <= faults
       \/ accepted[m] <= 1 + faults /\ (m \in delivered \/ (item = m /\ step = "record"))
  /\ \A m \in Warnings :
       /\ accepted[m] <= 1 + faults
       /\ item = m /\ step = "post" => accepted[m] <= faults

RecordedWasAccepted ==
  /\ step = "record" => accepted[item] >= 1
  /\ step \in {"rate_ttl", "burst_ttl", "log"} => item \in delivered

AlertIInv ==
  /\ AlertTypeOK
  /\ ItemFitsStep
  /\ GatesStillHold
  /\ WarningStaysFresh
  /\ RateBounded
  /\ EachCostsAFault
  /\ RecordedWasAccepted
  /\ LoggedIsDelivered

-----------------------------------------------------------------------------
(* What makes HourBounded inductive. *)

CounterHasBegun == rate.n = 0 <=> rate.life = Absent

\* What the counter before this one counted within the last hour is less than
\* the limit.
LittleIsForgotten == CountedIn(DOMAIN counted) < rate.n + RateLimit

\* A counter is given its expiry after its first delivery, so that the time since
\* then holds less than it has counted.
FirstIsEarlier ==
  rate.life > 0 => CountedIn(0..(RateTtl - rate.life - 1)) < rate.n

HourIInv == CounterHasBegun /\ LittleIsForgotten /\ FirstIsEarlier
=============================================================================
