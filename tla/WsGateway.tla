------------------------------- MODULE WsGateway -------------------------------
(***************************************************************************)
(* The WebSocket gateway (services/ws-gateway): tick_reader keeps the      *)
(* newest tick of a symbol, batch_flusher sends what it finds every        *)
(* 100 ms, and one handler per browser adds itself to the registry and     *)
(* removes itself.  flush_batch walks the registry itself and waits for    *)
(* every send, so handlers run in the middle of its walk; a dictionary     *)
(* whose size has changed raises at the next step of the walk, outside the *)
(* try, which ends batch_flusher and, through gather, the process.  (One   *)
(* that has changed and kept its size is walked on.)                       *)
(*                                                                         *)
(* One symbol.  A browser that connects again is another client, with      *)
(* another id.                                                             *)
(* BufferTickLate and HandlerEndsForgotten are faulty variants, kept to    *)
(* see the properties fail.                                                *)
(***************************************************************************)
EXTENDS Integers, FiniteSets

CONSTANTS
  Ids,         \* client ids; bound: connections in a behaviour
  MaxUpdates   \* bound: ticks in a behaviour

ASSUME GatewayAssumption == IsFiniteSet(Ids) /\ MaxUpdates \in Nat

VARIABLES
  socket,    \* per client: not there yet, open, broken and not noticed, gone
  clients,   \* ClientManager._clients
  latest,    \* the newest tick
  buffered,  \* _batch_buffer: a tick, or 0
  walk,      \* flush_batch: its message, who has been visited, the size of
             \* the registry when it began, and the clients that failed
  shown,     \* per client: the tick on the screen, or 0
  crashed    \* whether the process has ended and is to be started again

gateVars == <<socket, clients, latest, buffered, walk, shown, crashed>>

NoWalk == [message |-> 0, visited |-> {}, size |-> 0, dead |-> {}]

GateTypeOK ==
  /\ socket \in [Ids -> {"new", "open", "broken", "gone"}]
  /\ clients \subseteq Ids
  /\ latest \in 0..MaxUpdates /\ buffered \in 0..latest
  /\ walk \in [message : 0..latest, visited : SUBSET Ids, size : 0..Cardinality(Ids),
              dead : SUBSET walk.visited]
  /\ shown \in [Ids -> 0..latest]
  /\ crashed \in BOOLEAN

GateInit ==
  /\ socket = [b \in Ids |-> "new"]
  /\ clients = {}
  /\ latest = 0
  /\ buffered = 0
  /\ walk = NoWalk
  /\ shown = [b \in Ids |-> 0]
  /\ crashed = FALSE

-----------------------------------------------------------------------------
(* Handlers. *)

\* ws_handler: the socket is accepted and registered.
ClientConnects(b) ==
  /\ ~crashed
  /\ socket[b] = "new"
  /\ socket' = [socket EXCEPT ![b] = "open"]
  /\ clients' = clients \cup {b}
  /\ UNCHANGED <<latest, buffered, walk, shown, crashed>>

\* The connection breaks; sends raise until the handler has noticed.
SocketBreaks(b) ==
  /\ socket[b] = "open"
  /\ socket' = [socket EXCEPT ![b] = "broken"]
  /\ UNCHANGED <<clients, latest, buffered, walk, shown, crashed>>

HandlerEndsForgotten(b) ==
  /\ socket[b] = "broken"
  /\ socket' = [socket EXCEPT ![b] = "gone"]
  /\ UNCHANGED <<clients, latest, buffered, walk, shown, crashed>>

\* The finally of ws_handler.
HandlerEnds(b) ==
  /\ socket[b] = "broken"
  /\ socket' = [socket EXCEPT ![b] = "gone"]
  /\ clients' = clients \ {b}
  /\ UNCHANGED <<latest, buffered, walk, shown, crashed>>

-----------------------------------------------------------------------------
(* tick_reader and batch_flusher. *)

BufferTickLate ==
  /\ ~crashed
  /\ latest < MaxUpdates
  /\ latest' = latest + 1
  /\ buffered' = IF buffered = 0 THEN latest' ELSE buffered
  /\ UNCHANGED <<socket, clients, walk, shown, crashed>>

BufferTick ==
  /\ ~crashed
  /\ latest < MaxUpdates
  /\ latest' = latest + 1
  /\ buffered' = latest'
  /\ UNCHANGED <<socket, clients, walk, shown, crashed>>

\* flush_batch takes the buffer; with nobody there it drops it.
FlushBatch ==
  /\ ~crashed
  /\ walk = NoWalk
  /\ buffered > 0
  /\ buffered' = 0
  /\ walk' = IF clients = {} THEN walk
             ELSE [NoWalk EXCEPT !.message = buffered, !.size = Cardinality(clients)]
  /\ UNCHANGED <<socket, clients, latest, shown, crashed>>

\* What the dictionary's iterator notices: another size, or one more key than
\* there were.  One key in exchange for another goes unnoticed before the end.
Changed ==
  \/ Cardinality(clients) # walk.size
  \/ Cardinality(walk.visited) = walk.size /\ ~(clients \subseteq walk.visited)

Walking == walk # NoWalk /\ ~Changed

\* One more client of the walk: it gets the message, or the send raises.
SendTo(b) ==
  /\ Walking
  /\ b \in clients \ walk.visited
  /\ LET seen == [walk EXCEPT !.visited = @ \cup {b}]
     IN  walk' = IF socket[b] = "open" THEN seen ELSE [seen EXCEPT !.dead = @ \cup {b}]
  /\ shown' = IF socket[b] = "open" THEN [shown EXCEPT ![b] = walk.message] ELSE shown
  /\ UNCHANGED <<socket, clients, latest, buffered, crashed>>

FlushEnds ==
  /\ Walking
  /\ clients \subseteq walk.visited
  /\ clients' = clients \ walk.dead
  /\ walk' = NoWalk
  /\ UNCHANGED <<socket, latest, buffered, shown, crashed>>

\* RuntimeError: dictionary changed during iteration.  The process ends and
\* every connection with it.
FlushRaises ==
  /\ walk # NoWalk
  /\ Changed
  /\ crashed' = TRUE
  /\ clients' = {}
  /\ socket' = [b \in Ids |-> IF socket[b] = "new" THEN "new" ELSE "gone"]
  /\ buffered' = 0
  /\ walk' = NoWalk
  /\ UNCHANGED <<latest, shown>>

GateRestart ==
  /\ crashed
  /\ crashed' = FALSE
  /\ UNCHANGED <<socket, clients, latest, buffered, walk, shown>>

Flusher ==
  FlushBatch \/ (\E b \in Ids : SendTo(b)) \/ FlushEnds \/ FlushRaises

GateNext ==
  \/ \E b \in Ids : ClientConnects(b) \/ SocketBreaks(b) \/ HandlerEnds(b)
  \/ BufferTick
  \/ Flusher
  \/ GateRestart

\* The flusher goes on, handlers notice broken sockets, Docker restarts.
GateFairness ==
  /\ WF_gateVars(Flusher)
  /\ WF_gateVars(GateRestart)
  /\ \A b \in Ids : WF_gateVars(HandlerEnds(b))

GateSpec == GateInit /\ [][GateNext]_gateVars /\ GateFairness

-----------------------------------------------------------------------------
(* Properties. *)

\* A client that was there when a tick came sees it or a newer one, or loses its
\* connection.
TicksReachScreens ==
  \A b \in Ids, n \in 1..MaxUpdates :
    (b \in clients /\ buffered > 0 /\ latest = n) ~> (shown[b] >= n \/ socket[b] # "open")

\* Nobody is left in the registry without a handler, whatever the walk does
\* with those whose send failed.
NoGhostClients ==
  \A b \in clients : socket[b] # "gone"

\* The registry holds who is there, and the walk through it is sound.
GateSafe == GateTypeOK /\ NoGhostClients
=============================================================================
