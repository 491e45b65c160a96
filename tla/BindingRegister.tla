--------------------------- MODULE BindingRegister ---------------------------
(***************************************************************************)
(* What every credential issuer promises of its dedupe store, whatever its *)
(* checks, races and failures: a slot (the uniqueness key of a credential) *)
(* is bound to the first card that completes an issuance, for good; a      *)
(* request is granted a credential only for the card its slot is bound to, *)
(* and is told "conflict" only when the slot is bound to another card.     *)
(***************************************************************************)
CONSTANTS Req, Slot, Card, None

VARIABLES
  binding,    \* the card a slot is bound to, or None
  ask,        \* the slot and card a request named, or None
  verdict     \* the answer given to a request

Verdict == {"none", "granted", "conflict", "rejected", "failed", "lost"}

AInit ==
  /\ binding = [s \in Slot |-> None]
  /\ ask = [r \in Req |-> None]
  /\ verdict = [r \in Req |-> "none"]

Answer(r, v) == verdict' = [verdict EXCEPT ![r] = v]

\* A request arrives; it may be turned away at once.
Ask(r, s, c, v) ==
  /\ ask[r] = None
  /\ ask' = [ask EXCEPT ![r] = <<s, c>>]
  /\ Answer(r, v)
  /\ UNCHANGED binding

Pending(r) == ask[r] # None /\ verdict[r] = "none"

\* The first completed issuance binds the slot.
Bind(r) ==
  /\ Pending(r)
  /\ binding[ask[r][1]] = None
  /\ binding' = [binding EXCEPT ![ask[r][1]] = ask[r][2]]
  /\ Answer(r, "granted")
  /\ UNCHANGED ask

Grant(r) ==
  /\ Pending(r)
  /\ binding[ask[r][1]] = ask[r][2]
  /\ Answer(r, "granted")
  /\ UNCHANGED <<binding, ask>>

Refuse(r) ==
  /\ Pending(r)
  /\ binding[ask[r][1]] \notin {None, ask[r][2]}
  /\ Answer(r, "conflict")
  /\ UNCHANGED <<binding, ask>>

\* A request fails without an effect on its slot.
Abort(r, v) ==
  /\ Pending(r)
  /\ Answer(r, v)
  /\ UNCHANGED <<binding, ask>>

\* Requests under way are lost together when the process stops.
Lose ==
  /\ verdict' = [r \in Req |-> IF Pending(r) THEN "lost" ELSE verdict[r]]
  /\ UNCHANGED <<binding, ask>>

ANext ==
  \/ \E r \in Req, s \in Slot, c \in Card, v \in {"none", "rejected"} : Ask(r, s, c, v)
  \/ \E r \in Req : Bind(r) \/ Grant(r) \/ Refuse(r)
  \/ \E r \in Req, v \in {"rejected", "failed"} : Abort(r, v)
  \/ Lose

avars == <<binding, ask, verdict>>

ASpec == AInit /\ [][ANext]_avars
=============================================================================
