------------------------------ MODULE Streams ------------------------------
(***************************************************************************)
(* What runs by itself: the polling and the WebSocket subscriptions, and   *)
(* the promise queue of the USD ledger.  They share no state: a behaviour  *)
(* is of one of them, named by part.                                       *)
(***************************************************************************)
EXTENDS Naturals, Sequences

CONSTANTS
  None,
  Poller, Kinds, PollCap, MaxHeight,         \* poll
  Sub, Cap, MaxBuf, KeepBuf, MaxNote,        \* ws
  Op, Acct, Amounts, SafeMax, MaxCrash       \* usd

VARIABLES
  part,  \* the component this behaviour is of; no step changes it
  p_height, p_kind, p_active, p_last, p_buf, p_pc, p_cur, p_next, p_base,
  p_log, p_failed,
  w_socket, w_connected, w_timer, w_subs, w_told, w_messageBuffer, w_state,
  w_buf, w_notes,
  u_phase, u_mem, u_disk, u_queue, u_step, u_call, u_res, u_crashes

Poll == INSTANCE PollSubscription WITH
  Poll <- Poller, Cap <- PollCap, height <- p_height, kind <- p_kind,
  active <- p_active, last <- p_last, buf <- p_buf, pc <- p_pc,
  cur <- p_cur, next <- p_next, base <- p_base, log <- p_log,
  failed <- p_failed

Ws == INSTANCE WsSubscription WITH
  socket <- w_socket, connected <- w_connected, timer <- w_timer,
  subs <- w_subs, told <- w_told, messageBuffer <- w_messageBuffer,
  state <- w_state, buf <- w_buf, notes <- w_notes

Usd == INSTANCE MockUsdLedger WITH
  phase <- u_phase, mem <- u_mem, disk <- u_disk,
  queue <- u_queue, step <- u_step, call <- u_call, res <- u_res,
  crashes <- u_crashes

ASSUME PollAssumption == Poll!PollAssumption
ASSUME WsAssumption == Ws!WsAssumption
ASSUME UsdAssumption == Usd!LedgerAssumption

p_vars ==
  <<p_height, p_kind, p_active, p_last, p_buf, p_pc, p_cur, p_next, p_base,
    p_log, p_failed>>
w_vars ==
  <<w_socket, w_connected, w_timer, w_subs, w_told, w_messageBuffer,
    w_state, w_buf, w_notes>>
u_vars ==
  <<u_phase, u_mem, u_disk, u_queue, u_step, u_call, u_res, u_crashes>>
all == <<part, p_vars, w_vars, u_vars>>

\* A part that does not run rests in its initial state, or has none.
StreamsInit ==
  /\ part \in {"poll", "ws", "usd"}
  /\ Poll!Init
  /\ Ws!Init
  /\ Usd!Init

StreamsNext ==
  \/ /\ part = "poll"
     /\ Poll!Next
     /\ UNCHANGED <<part, w_vars, u_vars>>
  \/ /\ part = "ws"
     /\ Ws!Next
     /\ UNCHANGED <<part, p_vars, u_vars>>
  \/ /\ part = "usd"
     /\ Usd!Next
     /\ UNCHANGED <<part, p_vars, w_vars>>

\* The fairness of the component that runs, as its own module justifies it.
StreamsFairness ==
  /\ \A p \in Poller : /\ WF_p_vars(part = "poll" /\ Poll!Interval(p))
                             /\ SF_p_vars(part = "poll" /\ Poll!NodeAnswers(p))
                             /\ SF_p_vars(part = "poll" /\ Poll!Resume(p))
  /\ WF_w_vars(part = "ws" /\ Ws!Connect)
  /\ WF_w_vars(part = "ws" /\ Ws!Reconnect)
  /\ SF_w_vars(part = "ws" /\ Ws!OnOpen)
  /\ \A o \in Op :
       WF_u_vars(part = "usd" /\ (Usd!GetBalance(o) \/ Usd!Refuse(o) \/ Usd!Mutate(o)))
  /\ WF_u_vars(part = "usd" /\ Usd!Persist)

StreamsSpec == StreamsInit /\ [][StreamsNext]_all /\ StreamsFairness

-----------------------------------------------------------------------------
\* Poll subscriptions tell what the chain did, see PollSubscription.
NotificationsFaithful == part = "poll" => Poll!NotificationsFaithful

\* A poll subscription catches up with the height of the chain, or is cancelled.
CatchesUp ==
  \A h \in 0 .. MaxHeight :
    (part = "poll" /\ p_active /\ p_kind # "account" /\ p_height = h)
      ~> (~p_active \/ (p_last # None /\ p_last >= h))

\* Every live subscription was sent on the socket in use, see WsSubscription.
Resubscribed == part = "ws" => Ws!Resubscribed

\* The WebSocket connection comes back, also when attempts fail in between.
Reconnects == (part = "ws" /\ ~w_connected) ~> w_connected

\* Every ledger operation is answered, or lost in a crash: an error does not
\* poison the queue.
QueueDrains ==
  \A o \in Op :
    (u_call[o] # None) ~> (u_res[o] # "none" /\ u_queue = <<>>)
=============================================================================
