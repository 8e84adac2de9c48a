------------------------------- MODULE Ingestion -------------------------------
(***************************************************************************)
(* How ingestion stays connected to Upstox, and how a new access token     *)
(* reaches it: ConnectionSupervisor.run and the Upstox adapter             *)
(* (services/ingestion), the api's two routes that store a token or ask    *)
(* for a recheck (routes/auth.py), and the login callback of nse-scraper   *)
(* (oauth.py).  The supervisor waits between two attempts, long after a    *)
(* token was refused, and polls a flag in Redis every second while it      *)
(* waits.  The flag is the only way to shorten a wait.                     *)
(*                                                                         *)
(* Tokens are numbered as they are stored; token 0 is what there is at the *)
(* start.  A unit of time is one poll.  The flag outlives every attempt    *)
(* (it is set for 120 s), so it can run out only while the feed streams.   *)
(* The jitter of the backoff is left out, and so are the instruments,      *)
(* which are read once when the process starts.                            *)
(* SaveTokenSilent and AuthenticateCached are faulty variants, kept to see *)
(* the properties fail.                                                    *)
(***************************************************************************)
EXTENDS Integers

CONSTANTS
  AuthBackoff,   \* auth_failure_backoff_sec
  MaxBackoff,    \* reconnect_max
  MaxTokens,     \* bound: tokens stored in a behaviour
  MaxFeedFaults  \* bound: failures of Redis, of the network, crashes

ASSUME IngestionAssumption ==
  /\ AuthBackoff \in Nat /\ MaxBackoff \in Nat \ {0}
  /\ MaxBackoff < AuthBackoff
  /\ MaxTokens \in Nat
  /\ MaxFeedFaults \in Nat

VARIABLES
  stored,       \* infusion:auth:upstox: the newest token
  via,          \* who stored it
  live,         \* tokens Upstox accepts
  saving,       \* whether save_upstox_token has yet to set the flag
  forceRecheck, \* infusion:auth:upstox:force_recheck
  feedStep,         \* where the supervisor is
  accessToken,  \* the adapter's token
  failures,     \* _consecutive_failures
  authFailure,  \* _last_error_was_auth_failure
  delay,        \* polls left of the wait
  ended,        \* history: how the last attempt ended
  feedFaults

store == <<stored, via, live, saving>>
supervisor == <<feedStep, accessToken, failures, authFailure, delay, ended>>
ingestVars == <<store, forceRecheck, supervisor, feedFaults>>

Tokens == 0..MaxTokens

IngestTypeOK ==
  /\ stored \in Tokens /\ live \subseteq 0..stored
  /\ via \in {"env", "dashboard", "login"}
  /\ saving \in BOOLEAN /\ forceRecheck \in BOOLEAN
  /\ feedStep \in {"authenticate", "connect", "subscribe", "stream", "wait", "wake"}
  /\ accessToken \in 0..stored
  /\ failures \in 0..(MaxBackoff + 1)
  /\ authFailure \in BOOLEAN
  /\ delay \in 0..AuthBackoff
  /\ ended \in {"none", "refused", "error", "session"}
  /\ feedFaults \in 0..MaxFeedFaults

IngestInit ==
  /\ stored = 0 /\ via = "env"
  /\ live \in SUBSET {0}
  /\ saving = FALSE
  /\ forceRecheck = FALSE
  /\ feedStep = "authenticate"
  /\ accessToken = 0
  /\ failures = 0
  /\ authFailure = FALSE
  /\ delay = 0
  /\ ended = "none"
  /\ feedFaults = 0

-----------------------------------------------------------------------------
(* Tokens. *)

\* A token the dashboard could not verify because Upstox was away is stored
\* all the same, so the new one need not be accepted.
NewToken(by) ==
  /\ stored < MaxTokens
  /\ stored' = stored + 1
  /\ via' = by
  /\ live' \in {live, live \cup {stored + 1}}

SaveTokenSilent ==
  /\ ~saving
  /\ NewToken("dashboard")
  /\ UNCHANGED <<saving, forceRecheck, supervisor, feedFaults>>

\* save_upstox_token: the token first ...
SaveToken ==
  /\ ~saving
  /\ NewToken("dashboard")
  /\ saving' = TRUE
  /\ UNCHANGED <<forceRecheck, supervisor, feedFaults>>

\* ... and then the flag.
RequestRecheck ==
  /\ saving
  /\ saving' = FALSE
  /\ forceRecheck' = TRUE
  /\ UNCHANGED <<stored, via, live, supervisor, feedFaults>>

\* force_upstox_recheck: the button of the dashboard.
ForceRecheck ==
  /\ ~forceRecheck
  /\ forceRecheck' = TRUE
  /\ UNCHANGED <<store, supervisor, feedFaults>>

\* handle_upstox_callback stores the token and nothing else.
LoginCallback ==
  /\ NewToken("login")
  /\ UNCHANGED <<saving, forceRecheck, supervisor, feedFaults>>

\* A token runs out, or is revoked by a login elsewhere.
TokenExpires ==
  /\ \E t \in live : live' = live \ {t}
  /\ UNCHANGED <<stored, via, saving, forceRecheck, supervisor, feedFaults>>

FlagExpires ==
  /\ forceRecheck
  /\ feedStep = "stream"
  /\ forceRecheck' = FALSE
  /\ UNCHANGED <<store, supervisor, feedFaults>>

-----------------------------------------------------------------------------
(* ConnectionSupervisor. *)

Lesser(a, b) == IF a < b THEN a ELSE b

\* _calculate_backoff: 1, 2, 4, ... after so many failures, at most reconnect_max.
Backoff(n) ==
  IF n <= MaxBackoff /\ 2 ^ (n - 1) \in 1..MaxBackoff THEN 2 ^ (n - 1) ELSE MaxBackoff

\* Whether the wait is the one for a refused token.
FailedAsAuth(how) == how = "refused"

\* The end of an attempt: disconnect, and the wait that follows.
Retry(how, before) ==
  /\ feedStep' = "wait"
  /\ ended' = how
  /\ authFailure' = FailedAsAuth(how)
  /\ failures' = Lesser(before + 1, MaxBackoff + 1)
  /\ delay' = IF authFailure' THEN AuthBackoff ELSE Backoff(failures')

Goto(next) ==
  /\ feedStep' = next
  /\ UNCHANGED <<failures, authFailure, delay, ended>>

AuthenticateCached ==
  /\ feedStep = "authenticate"
  /\ accessToken' = IF accessToken > 0 THEN accessToken ELSE stored
  /\ \/ Goto("connect")
     \/ accessToken' \notin live /\ Retry("refused", failures)
  /\ UNCHANGED <<store, forceRecheck, feedFaults>>

\* The adapter reads the newest token; one that has run out by its own claim
\* is refused here, any other one by Upstox.
Authenticate ==
  /\ feedStep = "authenticate"
  /\ accessToken' = stored
  /\ \/ Goto("connect")
     \/ stored \notin live /\ Retry("refused", failures)
  /\ UNCHANGED <<store, forceRecheck, feedFaults>>

Connect ==
  /\ feedStep = "connect"
  /\ IF accessToken \in live THEN Goto("subscribe") ELSE Retry("refused", failures)
  /\ UNCHANGED <<accessToken, store, forceRecheck, feedFaults>>

\* All instruments are subscribed: the failures are forgotten.
Subscribe ==
  /\ feedStep = "subscribe"
  /\ feedStep' = "stream"
  /\ failures' = 0
  /\ UNCHANGED <<accessToken, authFailure, delay, ended, store, forceRecheck, feedFaults>>

\* Upstox closes the session.
SessionEnds ==
  /\ feedStep = "stream"
  /\ Retry("session", failures)
  /\ UNCHANGED <<accessToken, store, forceRecheck, feedFaults>>

\* Anything else raises, at any point of the attempt.
AttemptFails ==
  /\ feedStep \in {"authenticate", "connect", "subscribe", "stream"}
  /\ feedFaults < MaxFeedFaults
  /\ feedFaults' = feedFaults + 1
  /\ Retry("error", failures)
  /\ UNCHANGED <<accessToken, store, forceRecheck>>

\* _sleep_or_force_recheck: one round.
Poll ==
  /\ feedStep = "wait"
  /\ ~forceRecheck /\ delay > 0
  /\ delay' = delay - 1
  /\ UNCHANGED <<feedStep, accessToken, failures, authFailure, ended, store, forceRecheck, feedFaults>>

WaitOver ==
  /\ feedStep = "wait"
  /\ delay = 0
  /\ Goto("authenticate")
  /\ UNCHANGED <<accessToken, store, forceRecheck, feedFaults>>

\* The flag has been read and is about to be deleted.
PollFindsFlag ==
  /\ feedStep = "wait"
  /\ forceRecheck /\ delay > 0
  /\ Goto("wake")
  /\ UNCHANGED <<accessToken, store, forceRecheck, feedFaults>>

Wake ==
  /\ feedStep = "wake"
  /\ forceRecheck' = FALSE
  /\ failures' = 0
  /\ feedStep' = "authenticate"
  /\ UNCHANGED <<accessToken, authFailure, delay, ended, store, feedFaults>>

\* Redis raises: the wait is over after another second, however long it was.
PollFails ==
  /\ feedStep \in {"wait", "wake"}
  /\ feedFaults < MaxFeedFaults
  /\ feedFaults' = feedFaults + 1
  /\ Goto("authenticate")
  /\ UNCHANGED <<accessToken, store, forceRecheck>>

\* A fatal error or a kill, and Docker's restart.
IngestRestart ==
  /\ feedFaults < MaxFeedFaults
  /\ feedFaults' = feedFaults + 1
  /\ feedStep' = "authenticate"
  /\ accessToken' = 0
  /\ failures' = 0
  /\ authFailure' = FALSE
  /\ delay' = 0
  /\ ended' = "none"
  /\ UNCHANGED <<store, forceRecheck>>

SupervisorStep ==
  Authenticate \/ Connect \/ Subscribe \/ Poll \/ WaitOver \/ PollFindsFlag \/ Wake

IngestNext ==
  \/ SaveToken \/ RequestRecheck \/ ForceRecheck \/ LoginCallback
  \/ TokenExpires \/ FlagExpires
  \/ SupervisorStep
  \/ SessionEnds
  \/ AttemptFails
  \/ PollFails
  \/ IngestRestart

\* The supervisor goes on, and the api finishes its request.
IngestFairness == WF_ingestVars(SupervisorStep) /\ WF_ingestVars(RequestRecheck)

IngestSpec == IngestInit /\ [][IngestNext]_ingestVars /\ IngestFairness

-----------------------------------------------------------------------------
(* Properties. *)

\* The supervisor sits out the wait for a refused token.
WaitsForToken == feedStep = "wait" /\ authFailure /\ delay > 0

\* A token saved on the dashboard is never slept over: while the supervisor
\* waits for it, the flag is set or about to be, whatever flags of earlier
\* saves it has deleted.
SavedTokenWakes ==
  (WaitsForToken /\ accessToken < stored /\ via = "dashboard")
    => forceRecheck \/ saving

\* A wait is as long as its cause deserves: the long one only after a refused
\* token, the shortest one after a session, whatever failed before it.
WaitFitsCause ==
  feedStep = "wait" =>
    CASE ended = "refused" -> delay <= AuthBackoff
      [] ended = "session" -> delay <= Backoff(1)
      [] OTHER -> delay <= MaxBackoff

\* What the supervisor waits for is what it has to wait for.
IngestSafe == IngestTypeOK /\ SavedTokenWakes /\ WaitFitsCause

\* A stored token that Upstox accepts brings the feed back, whoever stored it.
TokenBringsFeed ==
  (stored \in live) ~> (feedStep = "stream" \/ stored \notin live)
=============================================================================
