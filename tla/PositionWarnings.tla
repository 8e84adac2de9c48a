--------------------------- MODULE PositionWarnings ---------------------------
(***************************************************************************)
(* The warning the api sends when a position of the user's account has     *)
(* broken its structure (services/api, broker_sync.py).  Nothing sends it  *)
(* by itself: every GET of the positions - the cockpit polls, in as many   *)
(* windows as are open - looks at each active position in turn and, if it  *)
(* is broken, asks Redis whether one was sent within the cooldown, sets    *)
(* the key that says so, and adds the warning to the stream of signals:    *)
(* three calls, between which other requests go on.                        *)
(*                                                                         *)
(* Prices and levels are left out: a position is closed, sound or broken.  *)
(* SetCooldownLater and CooldownStays are faulty variants, kept to see the *)
(* properties fail.                                                        *)
(***************************************************************************)
EXTENDS Integers, FiniteSets

CONSTANTS
  Positions,
  Windows,         \* the browser windows that poll
  MaxBrokerFaults  \* bound: requests that fail half way

ASSUME WarningAssumption ==
  /\ IsFiniteSet(Positions) /\ IsFiniteSet(Windows) /\ "none" \notin Positions
  /\ MaxBrokerFaults \in Nat

None == "none"

VARIABLES
  account,     \* per position: closed, sound or broken
  request,     \* per window: the positions not looked at, the one at hand, the call due
  cooldown,    \* positions whose cooldown key is set
  warned,      \* history: warnings added since the key was last set anew
  brokerFaults

warningVars == <<account, request, cooldown, warned, brokerFaults>>

Condition == {"closed", "sound", "broken"}
NoRequest == [due |-> "none", rows |-> {}, at |-> None]
Fetched(rows) == [due |-> "next", rows |-> rows, at |-> None]

Requests ==
  [due: {"none", "next", "exists", "set", "xadd"}, rows: SUBSET Positions,
   at: Positions \cup {None}]

WarningTypeOK ==
  /\ account \in [Positions -> Condition]
  /\ request \in [Windows -> Requests]
  /\ \A w \in Windows :
       /\ request[w].at \notin request[w].rows
       /\ (request[w].at = None) = (request[w].due \in {"none", "next"})
  /\ cooldown \subseteq Positions
  /\ warned \in [Positions -> Nat]
  /\ brokerFaults \in 0..MaxBrokerFaults

WarningInit ==
  /\ account \in [Positions -> Condition]
  /\ request = [w \in Windows |-> NoRequest]
  /\ cooldown = {}
  /\ warned = [p \in Positions |-> 0]
  /\ brokerFaults = 0

-----------------------------------------------------------------------------
(* A request for the positions. *)

Goes(w, to) == request' = [request EXCEPT ![w] = to]
Due(w, call) == Goes(w, [request[w] EXCEPT !.due = call])
\* The position at hand is done with.
Done(w) == Goes(w, Fetched(request[w].rows))

\* fetch_positions: the rows with a quantity.
GetPositions(w) ==
  /\ request[w].due = "none"
  /\ Goes(w, Fetched({p \in Positions : account[p] # "closed"}))
  /\ UNCHANGED <<account, cooldown, warned, brokerFaults>>

\* The next row is judged; when there is none left the answer is sent.
JudgePosition(w) ==
  /\ request[w].due = "next"
  /\ IF request[w].rows = {} THEN Goes(w, NoRequest)
     ELSE \E p \in request[w].rows :
            LET rest == request[w].rows \ {p}
            IN  Goes(w, IF account[p] = "broken"
                          THEN [due |-> "exists", rows |-> rest, at |-> p]
                          ELSE Fetched(rest))
  /\ UNCHANGED <<account, cooldown, warned, brokerFaults>>

AskCooldown(w) ==
  /\ request[w].due = "exists"
  /\ IF request[w].at \in cooldown THEN Done(w) ELSE Due(w, "set")
  /\ UNCHANGED <<account, cooldown, warned, brokerFaults>>

SetCooldownLater(w) ==
  /\ request[w].due = "set"
  /\ Due(w, "xadd")
  /\ UNCHANGED <<account, cooldown, warned, brokerFaults>>

\* The SET, as Redis executes it.
SetKey(p) ==
  /\ cooldown' = cooldown \cup {p}
  /\ warned' = [warned EXCEPT ![p] = IF p \in cooldown THEN @ ELSE 0]

SetCooldown(w) ==
  /\ request[w].due = "set"
  /\ SetKey(request[w].at)
  /\ Due(w, "xadd")
  /\ UNCHANGED <<account, brokerFaults>>

\* The warning is added to scan:signals.
AddWarning(w) ==
  /\ request[w].due = "xadd"
  /\ warned' = [warned EXCEPT ![request[w].at] = @ + 1]
  /\ Done(w)
  /\ UNCHANGED <<account, cooldown, brokerFaults>>

\* A call raises, before or after Redis has executed it: the request is
\* answered with an error, and the rows it has not come to are not looked at.
RequestFails(w) ==
  /\ request[w].due # "none"
  /\ brokerFaults < MaxBrokerFaults
  /\ brokerFaults' = brokerFaults + 1
  /\ \/ UNCHANGED <<cooldown, warned>>
     \/ request[w].due = "set" /\ SetKey(request[w].at)
     \/ /\ request[w].due = "xadd"
        /\ warned' = [warned EXCEPT ![request[w].at] = @ + 1]
        /\ UNCHANGED cooldown
  /\ Goes(w, NoRequest)
  /\ UNCHANGED account

CooldownStays(p) ==
  /\ FALSE
  /\ UNCHANGED warningVars

\* POSITION_WARNING_COOLDOWN_SEC later; no warning is so long under way.
CooldownExpires(p) ==
  /\ p \in cooldown
  /\ \A w \in Windows : request[w].at = p => request[w].due = "exists"
  /\ cooldown' = cooldown \ {p}
  /\ UNCHANGED <<account, request, warned, brokerFaults>>

\* The market moves, or the user trades.
AccountChanges(p) ==
  /\ account' \in {[account EXCEPT ![p] = c] : c \in Condition}
  /\ UNCHANGED <<request, cooldown, warned, brokerFaults>>

Poll(w) ==
  \/ GetPositions(w) \/ JudgePosition(w)
  \/ AskCooldown(w) \/ SetCooldown(w) \/ AddWarning(w)

WarningNext ==
  \/ \E w \in Windows : Poll(w) \/ RequestFails(w)
  \/ \E p \in Positions : CooldownExpires(p) \/ AccountChanges(p)

\* A window polls every few seconds; the keys expire.
WarningSpec ==
  /\ WarningInit /\ [][WarningNext]_warningVars
  /\ \A w \in Windows : WF_warningVars(Poll(w))
  /\ \A p \in Positions : SF_warningVars(CooldownExpires(p))

-----------------------------------------------------------------------------
(* Properties. *)

\* In a cooldown window a position is warned of at most once by each window
\* that polls: those that asked before the first of them had set the key.
NotifiedOncePerWindow ==
  \A p \in Positions : warned[p] <= Cardinality(Windows)

\* A cooldown is never spent in silence, unless a call failed: where the key
\* is set a warning was added, or is about to be.
CooldownWasUsed ==
  brokerFaults = 0 =>
    \A p \in cooldown :
      warned[p] > 0 \/ \E w \in Windows : request[w].at = p /\ request[w].due = "xadd"

\* A cooldown and the warnings it stands for agree.
WarningSafe == WarningTypeOK /\ NotifiedOncePerWindow /\ CooldownWasUsed

\* Who holds a position that stays broken is warned again and again.
BrokenIsTold ==
  \A p \in Positions :
    <>[](account[p] = "broken") =>
      []<><<\E w \in Windows : request[w].at = p /\ AddWarning(w)>>_warningVars

-----------------------------------------------------------------------------
(* What makes WarningSafe inductive. *)

\* The windows that have found no key for the position and have yet to warn.
Committed(p) ==
  {w \in Windows : request[w].at = p /\ request[w].due \in {"set", "xadd"}}

\* Who is about to warn has set the key, and it has not run out since.
WarnsUnderKey ==
  \A w \in Windows : request[w].due = "xadd" => request[w].at \in cooldown

\* Under a key only those warn who were committed when it was set.
CommittedHaveRoom ==
  \A p \in cooldown : warned[p] + Cardinality(Committed(p)) <= Cardinality(Windows)

WarningIInv ==
  /\ WarningTypeOK
  /\ WarnsUnderKey
  /\ CommittedHaveRoom
  /\ NotifiedOncePerWindow
  /\ CooldownWasUsed
=============================================================================
