-------------------------------- MODULE MCFeed --------------------------------
(***************************************************************************)
(* What a tick passes through, for one run of TLC: the feed's supervisor   *)
(* ("ingestion"), the normalizer, a stream consumer that catches its       *)
(* handler's errors ("stream") and one that lets them out ("exits"), and   *)
(* the gateway to the browsers.  They share no state; `focus', chosen at   *)
(* the start, says which of them this behaviour is about, and the others   *)
(* stay in one initial state of theirs.  Each behaviour is therefore one   *)
(* of the behaviours of one module's own specification, and every one of   *)
(* those is there.                                                         *)
(***************************************************************************)
EXTENDS StreamConsumer, Normalizer, Ingestion, WsGateway

VARIABLE focus

\* With the constants of this run, StreamConsumer itself catches errors and is
\* detached; this is the service that is neither.
Exiting == INSTANCE StreamConsumer
  WITH CatchErrors <- FALSE, Detached <- FALSE

mcVars == <<vars, normVars, ingestVars, gateVars, focus>>

\* The variables of the part in focus.
own ==
  CASE focus = "normalizer" -> normVars
    [] focus = "ingestion" -> ingestVars
    [] focus = "gateway" -> gateVars
    [] OTHER -> vars

MCInit ==
  /\ focus \in {"stream", "exits", "normalizer", "ingestion", "gateway"}
  /\ Init
  /\ NormInit
  /\ focus # "normalizer" => ~master /\ interval = 0
  /\ IngestInit
  /\ focus # "ingestion" => live = {}
  /\ GateInit

MCNext ==
  /\ UNCHANGED focus
  /\ \/ /\ \/ focus = "stream" /\ Next
           \/ focus = "exits" /\ Exiting!Next
        /\ UNCHANGED <<normVars, ingestVars, gateVars>>
     \/ /\ focus = "normalizer" /\ NormNext
        /\ UNCHANGED <<vars, ingestVars, gateVars>>
     \/ /\ focus = "ingestion" /\ IngestNext
        /\ UNCHANGED <<vars, normVars, gateVars>>
     \/ /\ focus = "gateway" /\ GateNext
        /\ UNCHANGED <<vars, normVars, ingestVars>>

Of(part, A) == focus = part /\ A /\ UNCHANGED focus

\* The fairness conditions of the modules' own specifications.  A condition of
\* one and a condition of another are one disjunction here: only one of the two
\* has steps in a behaviour.
MCFairness ==
  /\ WF_own(\/ Of("stream", LoopStep)
            \/ Of("exits", Exiting!LoopStep)
            \/ Of("normalizer", PublishTick)
            \/ Of("ingestion", SupervisorStep)
            \/ Of("gateway", Flusher))
  /\ WF_own(\/ Of("stream", Restart)
            \/ Of("exits", Exiting!Restart)
            \/ Of("normalizer", UpdateHot)
            \/ Of("ingestion", RequestRecheck)
            \/ Of("gateway", GateRestart))
  /\ WF_own(\/ Of("normalizer", NormRestart)
            \/ Of("gateway", \E b \in Ids : HandlerEnds(b)))

MCSpec == MCInit /\ [][MCNext]_mcVars /\ MCFairness

-----------------------------------------------------------------------------
(* What is only promised of a service that ends with its loop. *)

\* FailedStaysPending of the service that lets its handler's errors out.
ExitKeepsFailedPending == focus = "exits" => FailedStaysPending

\* KeepsReading of the service whose process ends with its loop: Docker starts
\* it again, so it comes back to reading.
ExitKeepsReading == focus = "exits" => KeepsReading

\* Work goes on: what is published is settled, in a service that ends with its
\* loop the loop reads again, and there a message whose handler raised waits.
StreamProgress ==
  EveryMessageSettles /\ ExitKeepsReading /\ []ExitKeepsFailedPending
=============================================================================
