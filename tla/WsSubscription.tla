---------------------------- MODULE WsSubscription ----------------------------
(***************************************************************************)
(* Subscriptions over the WebSocket: WebSocketManager (read/ws-manager.ts) *)
(* keeps one socket to the node alive and the set of its subscriptions,    *)
(* and the subscription tools (tools/subscription.ts) put what it delivers *)
(* into a bounded buffer per subscription.  The socket opens, fails and    *)
(* closes at any time; the node is external.                               *)
(*                                                                         *)
(* The 5 s timeout of connect() only resolves its promise: connected is    *)
(* false already.  disconnect() has no caller.                             *)
(***************************************************************************)
EXTENDS Naturals, Sequences, FiniteSets

CONSTANTS
  Sub,       \* calls of a subscribe tool, each made at most once
  Cap,       \* the 100 notifications a subscription buffers
  MaxBuf,    \* the 1000 messages of messageBuffer
  KeepBuf,   \* the 500 that are left when it overflows
  MaxNote    \* bound: notifications the node sends

WsAssumption ==
  /\ Cap \in Nat \ {0}
  /\ MaxBuf \in Nat /\ KeepBuf \in 1..MaxBuf
  /\ MaxNote \in Nat

VARIABLES
  socket,         \* "none", "connecting", "open" or "closed"
  connected,      \* connected
  timer,          \* reconnectTimer: "null", or "armed"
  subs,           \* subscriptions of the manager (all of them active)
  told,           \* subscriptions sent to the node on the socket in use
  messageBuffer,  \* messageBuffer, by the subscription a message is for
  state,          \* "new", "ws", "poll" or "gone": the tool's store
  buf,            \* notifications of a subscription, by what they are for
  notes           \* notifications sent by the node so far

vars == <<socket, connected, timer, subs, told, messageBuffer, state, buf, notes>>
connVars == <<socket, connected, timer, told>>
toolVars == <<subs, state, buf>>

TypeOK ==
  /\ socket \in {"none", "connecting", "open", "closed"}
  /\ connected \in BOOLEAN
  /\ timer \in {"null", "armed"}
  /\ subs \subseteq Sub
  /\ told \subseteq Sub
  /\ messageBuffer \in Seq(Sub) /\ Len(messageBuffer) <= MaxBuf
  /\ state \in [Sub -> {"new", "ws", "poll", "gone"}]
  /\ buf \in [Sub -> Seq(Sub)]
  /\ \A s \in Sub : Len(buf[s]) <= Cap
  /\ notes \in 0..MaxNote

Init ==
  /\ socket = "none"
  /\ connected = FALSE
  /\ timer = "null"
  /\ subs = {}
  /\ told = {}
  /\ messageBuffer = <<>>
  /\ state = [s \in Sub |-> "new"]
  /\ buf = [s \in Sub |-> <<>>]
  /\ notes = 0

LastOf(q, n) == IF Len(q) > n THEN SubSeq(q, Len(q) - n + 1, Len(q)) ELSE q

-----------------------------------------------------------------------------
(* The connection *)

\* connect() at the start of the server.
Connect ==
  /\ socket = "none"
  /\ socket' = "connecting"
  /\ UNCHANGED <<connected, timer, told, toolVars, messageBuffer, notes>>

\* Mutant: the subscriptions are not sent again.
OnOpenSilent ==
  /\ socket = "connecting"
  /\ socket' = "open"
  /\ connected' = TRUE
  /\ UNCHANGED <<timer, told, toolVars, messageBuffer, notes>>

\* Mutant: connected is set inside the loop over the subscriptions.
OnOpenInLoop ==
  /\ socket = "connecting"
  /\ socket' = "open"
  /\ connected' = (subs # {})
  /\ told' = subs
  /\ UNCHANGED <<timer, toolVars, messageBuffer, notes>>

\* onopen sends every active subscription on the new socket.
OnOpen ==
  /\ socket = "connecting"
  /\ socket' = "open"
  /\ connected' = TRUE
  /\ told' = subs
  /\ UNCHANGED <<timer, toolVars, messageBuffer, notes>>

\* onclose, of an open socket or, after onerror, of one that did not open:
\* scheduleReconnect arms the timer if it is null.
OnClose ==
  /\ socket \in {"connecting", "open"}
  /\ socket' = "closed"
  /\ connected' = FALSE
  /\ timer' = IF timer = "null" THEN "armed" ELSE timer
  /\ told' = {}
  /\ UNCHANGED <<toolVars, messageBuffer, notes>>

\* The timer fires: reconnectTimer is null again, connect() makes a socket.
Reconnect ==
  /\ timer = "armed"
  /\ timer' = "null"
  /\ socket' = "connecting"
  /\ UNCHANGED <<connected, told, toolVars, messageBuffer, notes>>

-----------------------------------------------------------------------------
(* The tools and the manager *)

\* A subscribe tool: over the socket when it is up (wsManager.subscribe sends
\* the request), by polling otherwise, for as long as the subscription lives.
Subscribe(s) ==
  /\ state[s] = "new"
  /\ \/ /\ connected
        /\ state' = [state EXCEPT ![s] = "ws"]
        /\ subs' = subs \cup {s}
        /\ told' = told \cup {s}
     \/ /\ ~connected
        /\ state' = [state EXCEPT ![s] = "poll"]
        /\ UNCHANGED <<subs, told>>
  /\ UNCHANGED <<socket, connected, timer, buf, messageBuffer, notes>>

\* unsubscribe returns the buffer; the node is told, when it can be, with an
\* id that is not its own.
Unsubscribe(s) ==
  /\ state[s] \in {"ws", "poll"}
  /\ state' = [state EXCEPT ![s] = "gone"]
  /\ subs' = subs \ {s}
  /\ UNCHANGED <<connVars, buf, messageBuffer, notes>>

\* handleMessage: the notification for x is buffered and passed to the
\* callbacks of every active subscription, each of which keeps the last Cap.
HandleMessage(x) ==
  /\ socket = "open"
  /\ x \in told
  /\ notes < MaxNote
  /\ notes' = notes + 1
  /\ LET q == Append(messageBuffer, x) IN
       messageBuffer' = IF Len(q) > MaxBuf THEN LastOf(q, KeepBuf) ELSE q
  /\ buf' = [s \in Sub |->
       IF s \in subs THEN LastOf(Append(buf[s], x), Cap) ELSE buf[s]]
  /\ UNCHANGED <<connVars, subs, state>>

Next ==
  \/ Connect \/ OnOpen \/ OnClose \/ Reconnect
  \/ \E s \in Sub : Subscribe(s) \/ Unsubscribe(s) \/ HandleMessage(s)

Spec == Init /\ [][Next]_vars

\* Timers fire, and a node that is asked again and again accepts in the end.
FairSpec ==
  /\ Spec
  /\ WF_vars(Connect)
  /\ WF_vars(Reconnect)
  /\ SF_vars(OnOpen)

-----------------------------------------------------------------------------
(* Properties *)

\* Whenever the manager says it is connected, its socket is open and every
\* subscription that lives on it has been sent on that very socket, however
\* often the connection was lost (onopen, subscribe, onclose).
Resubscribed == connected => socket = "open" /\ subs \subseteq told

\* The connection comes back, also when attempts fail in between.
Reconnects == ~connected ~> connected
=============================================================================
