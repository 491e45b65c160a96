--------------------------- MODULE Streams_proofs ---------------------------
(***************************************************************************)
(* Proofs about the components of Streams: the polling subscriptions and   *)
(* the WebSocket subscriptions.  The liveness properties of the run stay   *)
(* with TLC.                                                               *)
(***************************************************************************)
EXTENDS Streams, SequenceTheorems, TLAPS

(***************************************************************************)
(* A step of Streams is a step of the component it is a behaviour of.      *)
(***************************************************************************)
LEMMA PartStep ==
  ASSUME [StreamsNext]_all
  PROVE  /\ part' = part
         /\ part = "poll" => [Poll!Next]_Poll!vars
         /\ part = "ws" => [Ws!Next]_Ws!vars
<1>1. CASE StreamsNext
  BY <1>1 DEF StreamsNext
<1>2. CASE UNCHANGED all
  BY <1>2 DEF all, p_vars, w_vars, Poll!vars, Ws!vars
<1> QED
  BY <1>1, <1>2

-----------------------------------------------------------------------------
(* The WebSocket subscriptions.                                            *)

(***************************************************************************)
(* What Resubscribed needs of the reconnect timer: it is armed only while  *)
(* the socket is closed, so that it never replaces a socket in use.        *)
(***************************************************************************)
WsInv ==
  /\ Ws!Resubscribed
  /\ w_timer = "armed" => w_socket = "closed"
  /\ w_connected \in BOOLEAN

(* The WebSocket manager starts in the invariant. *)
LEMMA WsInit == Ws!Init => WsInv
BY DEF Ws!Init, WsInv, Ws!Resubscribed

(* Every step of the WebSocket manager keeps the invariant. *)
LEMMA WsStep == WsInv /\ [Ws!Next]_Ws!vars => WsInv'
<1> SUFFICES ASSUME WsInv, [Ws!Next]_Ws!vars PROVE WsInv'
  OBVIOUS
<1> USE DEF WsInv, Ws!Resubscribed, Ws!connVars, Ws!toolVars
<1>1. CASE Ws!Connect
  BY <1>1 DEF Ws!Connect
<1>2. CASE Ws!OnOpen
  BY <1>2 DEF Ws!OnOpen
<1>3. CASE Ws!OnClose
  BY <1>3 DEF Ws!OnClose
<1>4. CASE Ws!Reconnect
  BY <1>4 DEF Ws!Reconnect
<1>5. ASSUME NEW s \in Sub, Ws!Subscribe(s) PROVE WsInv'
  BY <1>5 DEF Ws!Subscribe
<1>6. ASSUME NEW s \in Sub, Ws!Unsubscribe(s) PROVE WsInv'
  BY <1>6 DEF Ws!Unsubscribe
<1>7. ASSUME NEW s \in Sub, Ws!HandleMessage(s) PROVE WsInv'
  BY <1>7 DEF Ws!HandleMessage
<1>8. CASE UNCHANGED Ws!vars
  BY <1>8 DEF Ws!vars
<1> QED
  BY <1>1, <1>2, <1>3, <1>4, <1>5, <1>6, <1>7, <1>8 DEF Ws!Next

(***************************************************************************)
(* However often the connection is lost, while the manager says it is      *)
(* connected every live subscription was sent on the socket in use         *)
(* (ws-manager.ts).                                                        *)
(***************************************************************************)
THEOREM WsResubscribed == Ws!Spec => []Ws!Resubscribed
<1>1. WsInv => Ws!Resubscribed
  BY DEF WsInv
<1> QED
  BY <1>1, WsInit, WsStep, PTL DEF Ws!Spec

(***************************************************************************)
(* The same for the run of Streams.                                        *)
(***************************************************************************)
THEOREM StreamsResubscribed == StreamsSpec => []Resubscribed
<1> DEFINE Inv == part = "ws" => WsInv
<1>1. StreamsInit => Inv
  BY WsInit DEF StreamsInit
<1>2. Inv /\ [StreamsNext]_all => Inv'
  BY PartStep, WsStep
<1>3. Inv => Resubscribed
  BY DEF Resubscribed, WsInv
<1> QED
  BY <1>1, <1>2, <1>3, PTL DEF StreamsSpec

-----------------------------------------------------------------------------
(* The polling subscriptions.                                              *)

(***************************************************************************)
(* Keeping the last notifications before or after more are pushed is the   *)
(* same: the buffer is always the end of everything pushed.                *)
(***************************************************************************)
LEMMA CappedConcat ==
  ASSUME NEW S, NEW l \in Seq(S), NEW s \in Seq(S)
  PROVE  Poll!Capped(Poll!Capped(l) \o s) = Poll!Capped(l \o s)
<1>0. PollCap \in Nat /\ PollCap > 0
  BY PollAssumption DEF Poll!PollAssumption
<1> DEFINE n == Len(l)  m == Len(s)  c == PollCap
           q == SubSeq(l, n - c + 1, n)
<1>1. n \in Nat /\ m \in Nat
  OBVIOUS
<1>2. CASE n <= c
  <2>1. Poll!Capped(l) = l
    BY <1>0, <1>1, <1>2 DEF Poll!Capped
  <2> QED
    BY <2>1
<1>3. CASE n > c
  <2>1. Poll!Capped(l) = q
    BY <1>3 DEF Poll!Capped
  <2>2. q \in Seq(S) /\ Len(q) = c /\ \A i \in 1..c : q[i] = l[n - c + i]
    <3>1. \A i \in (n - c + 1)..n : l[i] \in S
      BY <1>0, <1>1, <1>3, ElementOfSeq
    <3> QED
      BY <1>0, <1>1, <1>3, <3>1, SubSeqProperties
  <2> HIDE DEF q
  <2> DEFINE u == q \o s
  <2>3. /\ u \in Seq(S) /\ Len(u) = c + m
        /\ \A i \in 1..(c + m) : u[i] = IF i <= c THEN q[i] ELSE s[i - c]
    BY <2>2, ConcatProperties
  <2> HIDE DEF u
  <2>4. /\ l \o s \in Seq(S) /\ Len(l \o s) = n + m
        /\ \A i \in 1..(n + m) : (l \o s)[i] = IF i <= n THEN l[i] ELSE s[i - n]
    BY ConcatProperties
  <2> DEFINE x == SubSeq(l \o s, n + m - c + 1, n + m)
             y == SubSeq(u, m + 1, c + m)
  <2>5. Poll!Capped(l \o s) = x
    BY <1>0, <1>1, <1>3, <2>4 DEF Poll!Capped
  <2>6. x \in Seq(S) /\ Len(x) = c /\ \A i \in 1..c : x[i] = (l \o s)[n + m - c + i]
    <3>1. \A i \in (n + m - c + 1)..(n + m) : (l \o s)[i] \in S
      BY <1>0, <1>1, <1>3, <2>4, ElementOfSeq
    <3> QED
      BY <1>0, <1>1, <1>3, <3>1, SubSeqProperties
  <2>7. y \in Seq(S) /\ Len(y) = c /\ \A i \in 1..c : y[i] = u[m + i]
    <3>1. \A i \in (m + 1)..(c + m) : u[i] \in S
      BY <1>0, <1>1, <2>3, ElementOfSeq
    <3>2. /\ Len(y) = IF m + 1 <= c + m THEN c + m - (m + 1) + 1 ELSE 0
          /\ y \in Seq(S)
          /\ \A i \in 1..(c + m - (m + 1) + 1) : y[i] = u[m + 1 + i - 1]
      BY <1>0, <1>1, <3>1, SubSeqProperties
    <3>3. c + m - (m + 1) + 1 = c /\ m + 1 <= c + m /\ \A i \in 1..c : m + 1 + i - 1 = m + i
      BY <1>0, <1>1
    <3> QED
      BY <3>2, <3>3
  <2>8. Poll!Capped(u) = y
    <3>1. CASE m > 0
      <4>1. Len(u) - c + 1 = m + 1 /\ Len(u) > c
        BY <1>0, <1>1, <2>3, <3>1
      <4> QED
        BY <2>3, <4>1 DEF Poll!Capped
    <3>2. CASE m = 0
      <4>1. Poll!Capped(u) = u
        BY <1>0, <2>3, <3>2 DEF Poll!Capped
      <4>2. \A i \in 1..c : y[i] = u[i]
        <5> HIDE DEF y, m
        <5>1. \A i \in 1..c : m + i = i
          BY <1>0, <3>2
        <5> QED
          BY <2>7, <5>1
      <4> QED
        BY <2>3, <2>7, <3>2, <4>1, <4>2, <1>0, SeqEqual
    <3>3. m > 0 \/ m = 0
      BY <1>1
    <3> QED
      BY <3>1, <3>2, <3>3
  <2> HIDE DEF x, y
  <2>9. \A i \in 1..c : x[i] = y[i]
    <3> SUFFICES ASSUME NEW i \in 1..c PROVE x[i] = y[i]
      OBVIOUS
    <3>1. x[i] = IF n + m - c + i <= n THEN l[n + m - c + i] ELSE s[n + m - c + i - n]
      <4>1. n + m - c + i \in 1..(n + m)
        BY <1>0, <1>1, <1>3
      <4> QED
        BY <2>4, <2>6, <4>1
    <3>2. y[i] = IF m + i <= c THEN q[m + i] ELSE s[m + i - c]
      BY <1>0, <1>1, <2>3, <2>7
    <3>3. m + i <= c => q[m + i] = l[n - c + (m + i)]
      BY <1>0, <1>1, <2>2
    <3>4. n + m - c + i = n - c + (m + i) /\ n + m - c + i - n = m + i - c
      BY <1>0, <1>1
    <3>5. n + m - c + i <= n <=> m + i <= c
      BY <1>0, <1>1
    <3> QED
      BY <3>1, <3>2, <3>3, <3>4, <3>5
  <2>10. x = y
    BY <2>6, <2>7, <2>9, SeqEqual
  <2> QED
    BY <2>1, <2>5, <2>8, <2>10 DEF u
<1> QED
  BY <1>0, <1>1, <1>2, <1>3

(***************************************************************************)
(* Block h was notified or its fetch failed.                               *)
(***************************************************************************)
Told(l, f, h) == h \in f \/ \E i \in 1..Len(l) : l[i] = h

(* What a subscriber was told stays told when more is said. *)
LEMMA ToldMore ==
  ASSUME NEW l \in Seq(Nat), NEW s \in Seq(Nat), NEW f, NEW g, f \subseteq g, NEW h,
         Told(l, f, h)
  PROVE  Told(l \o s, g, h)
<1>1. CASE h \in f
  BY <1>1 DEF Told
<1>2. CASE \E i \in 1..Len(l) : l[i] = h
  <2>1. PICK i \in 1..Len(l) : l[i] = h
    BY <1>2
  <2>2. (l \o s)[i] = h /\ i \in 1..Len(l \o s)
    BY <2>1, ConcatProperties
  <2> QED
    BY <2>2 DEF Told
<1> QED
  BY <1>1, <1>2 DEF Told

(* The last height that was said was told. *)
LEMMA ToldLast ==
  ASSUME NEW l \in Seq(Nat), NEW h \in Nat, NEW f
  PROVE  Told(l \o <<h>>, f, h)
<1>1. (l \o <<h>>)[Len(l) + 1] = h /\ Len(l) + 1 \in 1..Len(l \o <<h>>)
  OBVIOUS
<1> QED
  BY <1>1 DEF Told

(***************************************************************************)
(* What each kind of subscription adds, in terms of the values it depends  *)
(* on: a (active), b (the first answer), m (the last one), l (the log),    *)
(* u (the buffer), f (the failed fetches).                                 *)
(***************************************************************************)
Blocks(a, b, m, l, u) ==
  /\ l \in Seq(Nat)
  /\ \A i \in 1..Len(l) : l[i] = b + i
  /\ a /\ b # None => m = b + Len(l)
  /\ u = Poll!Capped(l)

Scanned(a, b, m, l, f) ==
  /\ l \in Seq(Nat)
  /\ a /\ b # None => m >= b /\ \A h \in (b + 1)..m : Told(l, f, h)

(***************************************************************************)
(* A scan under way has told every block before the one it fetches next:   *)
(* it began at the block after the last height remembered.                 *)
(***************************************************************************)
Scanning(a, b, l, f, c, n) ==
  a => c >= b /\ \A h \in (b + 1)..(n - 1) : Told(l, f, h)

Linked(a, b, m, l) ==
  /\ l \in Seq(Nat \X Nat)
  /\ a /\ b # None =>
       /\ \A i \in 1..Len(l) : l[i][1] = (IF i = 1 THEN b ELSE l[i - 1][2])
       /\ m = IF l = <<>> THEN b ELSE l[Len(l)][2]

PollTypes ==
  /\ p_height \in Nat
  /\ DOMAIN p_pc = Poller
  /\ p_cur \in [Poller -> Nat]
  /\ p_next \in [Poller -> Nat]
  /\ p_active \in BOOLEAN
  /\ p_kind \in {None, "blocks", "blocks_tx", "account"}
  /\ p_base \in Nat \cup {None}
  /\ p_last \in Nat \cup {None}
  /\ p_base = None <=> p_last = None
  /\ p_kind = None => ~p_active /\ p_last = None
  /\ p_base = None => p_log = <<>> /\ p_buf = <<>>
  /\ \A p \in Poller : p_pc[p] # "idle" => p_kind # None

PollInv ==
  /\ PollTypes
  /\ \A p \in Poller : p_pc[p] = "scanning" => p_kind = "blocks_tx" /\ p_base # None
  /\ p_kind = "blocks" => Blocks(p_active, p_base, p_last, p_log, p_buf)
  /\ p_kind = "blocks_tx" =>
       /\ Scanned(p_active, p_base, p_last, p_log, p_failed)
       /\ \A p \in Poller : p_pc[p] = "scanning" =>
            Scanning(p_active, p_base, p_log, p_failed, p_cur[p], p_next[p])
  /\ p_kind = "account" => Linked(p_active, p_base, p_last, p_log)

(* The constants of the pollers, as their proofs use them. *)
LEMMA PollConstants ==
  None \notin Nat /\ None \notin {"blocks", "blocks_tx", "account"}
  /\ Kinds \subseteq {"blocks", "blocks_tx", "account"}
BY PollAssumption DEF Poll!PollAssumption

(* The pollers start in the invariant. *)
LEMMA PollInit == Poll!Init => PollInv
<1> SUFFICES ASSUME Poll!Init PROVE PollInv
  OBVIOUS
<1>1. p_active \in BOOLEAN /\ ~p_active
  BY DEF Poll!Init
<1>2. /\ p_height = 0 /\ p_kind = None /\ p_last = None /\ p_base = None
      /\ p_log = <<>> /\ p_buf = <<>>
      /\ DOMAIN p_pc = Poller /\ \A p \in Poller : p_pc[p] = "idle"
      /\ p_cur \in [Poller -> Nat] /\ p_next \in [Poller -> Nat]
  BY DEF Poll!Init
<1>3. PollTypes
  BY <1>1, <1>2 DEF PollTypes
<1> QED
  BY <1>2, <1>3, PollConstants DEF PollInv

(***************************************************************************)
(* A step that leaves what was told alone: only the polls move, and none   *)
(* of them starts a scan or moves on in one.                               *)
(***************************************************************************)
LEMMA PollQuiet ==
  ASSUME PollInv,
         UNCHANGED <<p_kind, p_active, p_last, p_buf, p_base, p_log, p_failed>>,
         p_height' \in Nat, DOMAIN p_pc' = Poller,
         p_cur' \in [Poller -> Nat], p_next' \in [Poller -> Nat],
         p_kind = None => \A p \in Poller : p_pc'[p] = "idle",
         \A p \in Poller : p_pc'[p] = "scanning" =>
           p_pc[p] = "scanning" /\ p_cur'[p] = p_cur[p] /\ p_next'[p] = p_next[p]
  PROVE  PollInv'
<1>1. PollTypes'
  BY DEF PollInv, PollTypes
<1>2. \A p \in Poller : p_pc'[p] = "scanning" => p_kind' = "blocks_tx" /\ p_base' # None
  BY DEF PollInv
<1>3. p_kind' = "blocks" => Blocks(p_active, p_base, p_last, p_log, p_buf)'
  BY DEF PollInv, Blocks
<1>4. p_kind' = "blocks_tx" => Scanned(p_active, p_base, p_last, p_log, p_failed)'
  BY DEF PollInv, Scanned
<1>5. ASSUME p_kind' = "blocks_tx", NEW p \in Poller, p_pc'[p] = "scanning"
      PROVE  Scanning(p_active, p_base, p_log, p_failed, p_cur[p], p_next[p])'
  BY <1>5 DEF PollInv, Scanning
<1>6. p_kind' = "account" => Linked(p_active, p_base, p_last, p_log)'
  BY DEF PollInv, Linked
<1> QED
  BY <1>1, <1>2, <1>3, <1>4, <1>5, <1>6 DEF PollInv

(* A block of the chain keeps the invariant. *)
LEMMA PollProduce == ASSUME PollInv, Poll!Produce PROVE PollInv'
<1>1. /\ UNCHANGED <<p_kind, p_active, p_last, p_buf, p_base, p_log, p_failed>>
      /\ UNCHANGED <<p_pc, p_cur, p_next>> /\ p_height' = p_height + 1
  BY DEF Poll!Produce
<1>2. /\ p_height' \in Nat /\ DOMAIN p_pc' = Poller
      /\ p_kind = None => \A q \in Poller : p_pc'[q] = "idle"
      /\ p_cur' \in [Poller -> Nat] /\ p_next' \in [Poller -> Nat]
  BY <1>1 DEF PollInv, PollTypes
<1> QED
  BY <1>1, <1>2, PollQuiet

(* An answer of the node is no height beyond the chain. *)
LEMMA PollNodeAnswers == ASSUME PollInv, NEW p \in Poller, Poll!NodeAnswers(p) PROVE PollInv'
<1>1. /\ UNCHANGED <<p_kind, p_active, p_last, p_buf, p_base, p_log, p_failed>>
      /\ p_height' = p_height /\ p_next' = p_next
      /\ p_cur' = [p_cur EXCEPT ![p] = IF p_kind = "account" THEN p_height % 2 ELSE p_height]
      /\ p_pc[p] = "asking" /\ p_pc' = [p_pc EXCEPT ![p] = "answered"]
  BY DEF Poll!NodeAnswers
<1>2. (IF p_kind = "account" THEN p_height % 2 ELSE p_height) \in Nat
  BY DEF PollInv, PollTypes
<1>3. /\ p_height' \in Nat /\ DOMAIN p_pc' = Poller
      /\ p_kind = None => \A q \in Poller : p_pc'[q] = "idle"
      /\ p_cur' \in [Poller -> Nat] /\ p_next' \in [Poller -> Nat]
  BY <1>1, <1>2 DEF PollInv, PollTypes
<1>4. \A q \in Poller : p_pc'[q] = "scanning" =>
           p_pc[q] = "scanning" /\ p_cur'[q] = p_cur[q] /\ p_next'[q] = p_next[q]
  BY <1>1 DEF PollInv, PollTypes
<1> QED
  BY <1>1, <1>3, <1>4, PollQuiet

(* A timer that fires keeps the invariant. *)
LEMMA PollInterval == ASSUME PollInv, NEW p \in Poller, Poll!Interval(p) PROVE PollInv'
<1>1. /\ UNCHANGED <<p_kind, p_active, p_last, p_buf, p_base, p_log, p_failed>>
      /\ p_height' = p_height /\ p_next' = p_next /\ p_cur' = p_cur
      /\ p_active /\ p_pc' = [p_pc EXCEPT ![p] = "asking"]
  BY DEF Poll!Interval
<1>2. /\ p_height' \in Nat /\ DOMAIN p_pc' = Poller
      /\ p_kind = None => \A q \in Poller : p_pc'[q] = "idle"
      /\ p_cur' \in [Poller -> Nat] /\ p_next' \in [Poller -> Nat]
  BY <1>1 DEF PollInv, PollTypes
<1>3. \A q \in Poller : p_pc'[q] = "scanning" =>
           p_pc[q] = "scanning" /\ p_cur'[q] = p_cur[q] /\ p_next'[q] = p_next[q]
  BY <1>1 DEF PollInv, PollTypes
<1> QED
  BY <1>1, <1>2, <1>3, PollQuiet

(* A failed poll loses nothing: the next one starts from the same height. *)
LEMMA PollPollFails == ASSUME PollInv, NEW p \in Poller, Poll!PollFails(p) PROVE PollInv'
<1>1. /\ UNCHANGED <<p_kind, p_active, p_last, p_buf, p_base, p_log, p_failed>>
      /\ p_height' = p_height /\ p_next' = p_next
      /\ p_cur' = [p_cur EXCEPT ![p] = 0]
      /\ p_pc' = [p_pc EXCEPT ![p] = "idle"]
  BY DEF Poll!PollFails
<1>2. /\ p_height' \in Nat /\ DOMAIN p_pc' = Poller
      /\ p_kind = None => \A q \in Poller : p_pc'[q] = "idle"
      /\ p_cur' \in [Poller -> Nat] /\ p_next' \in [Poller -> Nat]
  BY <1>1 DEF PollInv, PollTypes
<1>3. \A q \in Poller : p_pc'[q] = "scanning" =>
           p_pc[q] = "scanning" /\ p_cur'[q] = p_cur[q] /\ p_next'[q] = p_next[q]
  BY <1>1 DEF PollInv, PollTypes
<1> QED
  BY <1>1, <1>2, <1>3, PollQuiet

(***************************************************************************)
(* A poll that ends leaves the scans of the others as they are.            *)
(***************************************************************************)
LEMMA PollIdle ==
  ASSUME PollInv, NEW p \in Poller, Poll!Idle(p)
  PROVE  /\ DOMAIN p_pc' = Poller
         /\ p_kind = None => \A q \in Poller : p_pc'[q] = "idle"
         /\ p_cur' \in [Poller -> Nat] /\ p_next' \in [Poller -> Nat]
         /\ \A q \in Poller : p_pc'[q] = "scanning" =>
              p_pc[q] = "scanning" /\ p_cur'[q] = p_cur[q] /\ p_next'[q] = p_next[q]
BY DEF PollInv, PollTypes, Poll!Idle

(* A poll that finds no new block says nothing. *)
LEMMA PollNoNewBlock == ASSUME PollInv, NEW p \in Poller, Poll!NoNewBlock(p) PROVE PollInv'
<1>1. /\ UNCHANGED <<p_kind, p_active, p_last, p_buf, p_base, p_log, p_failed>>
      /\ p_height' = p_height /\ Poll!Idle(p)
  BY DEF Poll!NoNewBlock
<1>2. p_height' \in Nat
  BY <1>1 DEF PollInv, PollTypes
<1> QED
  BY <1>1, <1>2, PollIdle, PollQuiet

(* A new subscription starts with nothing said. *)
LEMMA PollSubscribe == ASSUME PollInv, NEW k \in Kinds, Poll!Subscribe(k) PROVE PollInv'
<1>1. /\ p_kind = None /\ p_kind' = k /\ p_active' = TRUE
      /\ UNCHANGED <<p_height, p_last, p_buf, p_pc, p_cur, p_next, p_base, p_log, p_failed>>
  BY DEF Poll!Subscribe
<1>2. /\ p_base = None /\ p_last = None /\ p_log = <<>> /\ p_buf = <<>>
      /\ k \in {"blocks", "blocks_tx", "account"} /\ k # None
  BY <1>1, PollConstants DEF PollInv, PollTypes
<1>3. PollTypes'
  BY <1>1, <1>2 DEF PollInv, PollTypes
<1>4. \A p \in Poller : p_pc'[p] # "scanning"
  BY <1>1, <1>2 DEF PollInv
<1>5. Poll!Capped(<<>>) = <<>>
  BY PollAssumption DEF Poll!Capped, Poll!PollAssumption
<1>6. Blocks(p_active, p_base, p_last, p_log, p_buf)'
  BY <1>1, <1>2, <1>5 DEF Blocks
<1>7. Scanned(p_active, p_base, p_last, p_log, p_failed)'
  BY <1>1, <1>2 DEF Scanned
<1>8. Linked(p_active, p_base, p_last, p_log)'
  BY <1>1, <1>2 DEF Linked
<1> QED
  BY <1>3, <1>4, <1>6, <1>7, <1>8 DEF PollInv

(* A poller that ends keeps what was said faithful. *)
LEMMA PollUnsubscribe == ASSUME PollInv, Poll!Unsubscribe PROVE PollInv'
<1>1. /\ p_active' = FALSE
      /\ UNCHANGED <<p_height, p_kind, p_last, p_buf, p_pc, p_cur, p_next, p_base, p_log,
                     p_failed>>
  BY DEF Poll!Unsubscribe
<1>2. PollTypes'
  <2>1. p_active' \in BOOLEAN /\ ~p_active'
    BY <1>1
  <2> QED
    BY <1>1, <2>1 DEF PollInv, PollTypes
<1>3. \A p \in Poller : p_pc'[p] = "scanning" => p_kind' = "blocks_tx" /\ p_base' # None
  BY <1>1 DEF PollInv
<1>4. p_kind' = "blocks" => Blocks(p_active, p_base, p_last, p_log, p_buf)'
  BY <1>1 DEF PollInv, Blocks
<1>5. p_kind' = "blocks_tx" => Scanned(p_active, p_base, p_last, p_log, p_failed)'
  BY <1>1 DEF PollInv, Scanned
<1>6. ASSUME NEW p \in Poller
      PROVE  Scanning(p_active, p_base, p_log, p_failed, p_cur[p], p_next[p])'
  BY <1>1 DEF Scanning
<1>7. p_kind' = "account" => Linked(p_active, p_base, p_last, p_log)'
  BY <1>1 DEF PollInv, Linked
<1> QED
  BY <1>2, <1>3, <1>4, <1>5, <1>6, <1>7 DEF PollInv

(* The first answer only sets the height to start from. *)
LEMMA PollFirstAnswer == ASSUME PollInv, NEW p \in Poller, Poll!FirstAnswer(p) PROVE PollInv'
<1>1. /\ p_last = None /\ p_last' = p_cur[p] /\ p_base' = p_cur[p] /\ Poll!Idle(p)
      /\ UNCHANGED <<p_height, p_kind, p_active, p_buf, p_log, p_failed>>
  BY DEF Poll!FirstAnswer
<1>2. /\ p_base = None /\ p_log = <<>> /\ p_buf = <<>> /\ p_cur[p] \in Nat
      /\ p_cur[p] # None
  BY <1>1, PollConstants DEF PollInv, PollTypes
<1>3. \A q \in Poller : p_pc'[q] # "scanning"
  BY <1>1, <1>2, PollIdle DEF PollInv
<1>4. p_kind # None
  BY DEF Poll!FirstAnswer, PollInv, PollTypes
<1>5. PollTypes'
  BY <1>1, <1>2, <1>4, PollIdle DEF PollInv, PollTypes
<1>6. p_kind' = "blocks" => Blocks(p_active, p_base, p_last, p_log, p_buf)'
  BY <1>1, <1>2 DEF PollInv, Blocks
<1>7. p_kind' = "blocks_tx" => Scanned(p_active, p_base, p_last, p_log, p_failed)'
  BY <1>1, <1>2 DEF PollInv, Scanned
<1>8. p_kind' = "account" => Linked(p_active, p_base, p_last, p_log)'
  BY <1>1, <1>2 DEF PollInv, Linked
<1> QED
  BY <1>3, <1>5, <1>6, <1>7, <1>8 DEF PollInv

(***************************************************************************)
(* The blocks last + 1 .. current, pushed behind base + 1 .. last.         *)
(***************************************************************************)
LEMMA BlocksMore ==
  ASSUME NEW b \in Nat, NEW m \in Nat, NEW c \in Nat, c > m, NEW l, NEW u,
         Blocks(TRUE, b, m, l, u), b # None,
         NEW s, s = [i \in 1..(c - m) |-> m + i]
  PROVE  Blocks(TRUE, b, c, l \o s, Poll!Capped(u \o s))
<1>1. /\ l \in Seq(Nat) /\ \A i \in 1..Len(l) : l[i] = b + i /\ m = b + Len(l)
      /\ u = Poll!Capped(l)
  BY DEF Blocks
<1>2. s \in Seq(Nat) /\ Len(s) = c - m /\ \A i \in 1..(c - m) : s[i] = m + i
  <2>1. c - m \in Nat /\ \A i \in 1..(c - m) : m + i \in Nat
    OBVIOUS
  <2>2. s \in [1..(c - m) -> Nat]
    BY <2>1
  <2>3. s \in Seq(Nat)
    BY <2>1, <2>2
  <2> QED
    BY <2>1, <2>2, <2>3
<1>3. /\ l \o s \in Seq(Nat) /\ Len(l \o s) = Len(l) + (c - m)
      /\ \A i \in 1..(Len(l) + (c - m)) :
            (l \o s)[i] = IF i <= Len(l) THEN l[i] ELSE s[i - Len(l)]
  BY <1>1, <1>2, ConcatProperties
<1>4. Len(l) \in Nat /\ m = b + Len(l)
  BY <1>1 DEF Blocks
<1>5. \A i \in 1..Len(l \o s) : (l \o s)[i] = b + i
  <2> SUFFICES ASSUME NEW i \in 1..(Len(l) + (c - m)) PROVE (l \o s)[i] = b + i
    BY <1>3
  <2>1. CASE i <= Len(l)
    BY <1>1, <1>3, <1>4, <2>1
  <2>2. CASE i > Len(l)
    <3>1. i - Len(l) \in 1..(c - m)
      BY <1>4, <2>2
    <3>2. s[i - Len(l)] = m + (i - Len(l))
      BY <1>2, <3>1
    <3> QED
      BY <1>3, <1>4, <2>2, <3>2
  <2> QED
    BY <1>4, <2>1, <2>2
<1>6. c = b + Len(l \o s)
  BY <1>3, <1>4
<1>7. Poll!Capped(u \o s) = Poll!Capped(l \o s)
  BY <1>1, <1>2, CappedConcat
<1> QED
  BY <1>3, <1>5, <1>6, <1>7 DEF Blocks

(* Every block since the last height is said, in order. *)
LEMMA PollNewBlocks == ASSUME PollInv, NEW p \in Poller, Poll!NewBlocks(p) PROVE PollInv'
<1> DEFINE s == [i \in 1..(p_cur[p] - p_last) |-> p_last + i]
<1>1. /\ p_kind = "blocks" /\ p_last # None /\ p_cur[p] > p_last
      /\ p_buf' = (IF p_active THEN Poll!Capped(p_buf \o s) ELSE p_buf)
      /\ p_log' = (IF p_active THEN p_log \o s ELSE p_log)
      /\ p_last' = p_cur[p] /\ Poll!Idle(p)
      /\ UNCHANGED <<p_height, p_kind, p_active, p_base, p_failed>>
  BY DEF Poll!NewBlocks
<1>2. /\ p_base \in Nat /\ p_last \in Nat /\ p_cur[p] \in Nat /\ p_base # None
      /\ p_cur[p] # None /\ p_active \in BOOLEAN
      /\ Blocks(p_active, p_base, p_last, p_log, p_buf)
  BY <1>1, PollConstants DEF PollInv, PollTypes
<1>3. PollTypes'
  BY <1>1, <1>2, PollIdle DEF PollInv, PollTypes
<1>4. \A q \in Poller : p_pc'[q] # "scanning"
  BY <1>1, PollIdle DEF PollInv
<1>5. Blocks(p_active', p_base', p_last', p_log', p_buf')
  <2> HIDE DEF s
  <2>1. CASE p_active
    <3>1. Blocks(TRUE, p_base, p_last, p_log, p_buf)
      BY <1>2, <2>1 DEF Blocks
    <3>2. Blocks(TRUE, p_base, p_cur[p], p_log \o s, Poll!Capped(p_buf \o s))
      BY <1>1, <1>2, <3>1, BlocksMore DEF s
    <3> QED
      BY <1>1, <2>1, <3>2 DEF Blocks
  <2>2. CASE ~p_active
    BY <1>1, <1>2, <2>2 DEF Blocks
  <2> QED
    BY <2>1, <2>2
<1> QED
  BY <1>1, <1>3, <1>4, <1>5 DEF PollInv

(* A scan starts after the last height that was said. *)
LEMMA PollScanStart == ASSUME PollInv, NEW p \in Poller, Poll!ScanStart(p) PROVE PollInv'
<1>1. /\ p_pc[p] = "answered" /\ p_kind = "blocks_tx" /\ p_last # None /\ p_cur[p] > p_last
      /\ p_next' = [p_next EXCEPT ![p] = p_last + 1]
      /\ p_pc' = [p_pc EXCEPT ![p] = "scanning"]
      /\ UNCHANGED <<p_height, p_kind, p_active, p_last, p_buf, p_cur, p_base, p_log, p_failed>>
  BY DEF Poll!ScanStart
<1>2. /\ p_base \in Nat /\ p_last \in Nat /\ p_cur[p] \in Nat /\ p_base # None
      /\ Scanned(p_active, p_base, p_last, p_log, p_failed)
  BY <1>1, PollConstants DEF PollInv, PollTypes
<1>3. PollTypes'
  BY <1>1, <1>2 DEF PollInv, PollTypes
<1>4. Scanned(p_active, p_base, p_last, p_log, p_failed)'
  BY <1>1, <1>2 DEF Scanned
<1>5. ASSUME NEW q \in Poller, p_pc'[q] = "scanning"
      PROVE  Scanning(p_active, p_base, p_log, p_failed, p_cur[q], p_next[q])'
  <2>1. CASE q = p
    <3>1. p_next'[p] = p_last + 1
      BY <1>1 DEF PollInv, PollTypes
    <3>2. p_last + 1 - 1 = p_last
      BY <1>2
    <3> QED
      BY <1>1, <1>2, <2>1, <3>1, <3>2 DEF Scanned, Scanning
  <2>2. CASE q # p
    <3>1. p_pc[q] = "scanning" /\ p_next'[q] = p_next[q]
      BY <1>1, <1>5, <2>2 DEF PollInv, PollTypes
    <3> QED
      BY <1>1, <3>1 DEF PollInv, Scanning
  <2> QED
    BY <2>1, <2>2
<1> QED
  BY <1>1, <1>2, <1>3, <1>4, <1>5 DEF PollInv

(* A scan says the block at its cursor, or notes that it failed. *)
LEMMA PollScanBlock == ASSUME PollInv, NEW p \in Poller, Poll!ScanBlock(p) PROVE PollInv'
<1>1. /\ p_pc[p] = "scanning" /\ p_next' = [p_next EXCEPT ![p] = @ + 1]
      /\ \/ /\ p_log' = IF p_active THEN p_log \o <<p_next[p]>> ELSE p_log
            /\ p_buf' = IF p_active THEN p_buf \o <<p_next[p]>> ELSE p_buf
            /\ p_failed' = p_failed
         \/ p_failed' = p_failed \cup {p_next[p]} /\ p_log' = p_log /\ p_buf' = p_buf
      /\ UNCHANGED <<p_height, p_kind, p_active, p_last, p_pc, p_cur, p_base>>
  BY DEF Poll!ScanBlock, Poll!Push
<1>2. /\ p_kind = "blocks_tx" /\ p_base # None /\ p_base \in Nat /\ p_next[p] \in Nat
      /\ p_last \in Nat /\ p_log \in Seq(Nat) /\ p_active \in BOOLEAN
      /\ Scanned(p_active, p_base, p_last, p_log, p_failed)
      /\ \A q \in Poller : p_pc[q] = "scanning" =>
            Scanning(p_active, p_base, p_log, p_failed, p_cur[q], p_next[q])
  BY <1>1 DEF PollInv, PollTypes, Scanned
<1>3. p_next' \in [Poller -> Nat]
  BY <1>1, <1>2 DEF PollInv, PollTypes
<1>4. PollTypes'
  BY <1>1, <1>2, <1>3 DEF PollInv, PollTypes
<1>5. /\ p_log' \in Seq(Nat)
      /\ \A h : Told(p_log, p_failed, h) => Told(p_log', p_failed', h)
      /\ p_active => Told(p_log', p_failed', p_next[p])
  <2>1. CASE p_log' = p_log
    BY <1>1, <1>2, <2>1 DEF Told
  <2>2. CASE p_log' = p_log \o <<p_next[p]>> /\ p_failed' = p_failed
    <3>1. <<p_next[p]>> \in Seq(Nat)
      BY <1>2
    <3>2. ASSUME NEW h, Told(p_log, p_failed, h)
          PROVE  Told(p_log \o <<p_next[p]>>, p_failed, h)
      BY <1>2, <3>1, <3>2, ToldMore
    <3>3. Told(p_log \o <<p_next[p]>>, p_failed, p_next[p])
      BY <1>2, ToldLast
    <3>4. p_log \o <<p_next[p]>> \in Seq(Nat)
      BY <1>2, <3>1, ConcatProperties
    <3> QED
      BY <2>2, <3>2, <3>3, <3>4
  <2>3. CASE p_failed' = p_failed \cup {p_next[p]} /\ p_log' = p_log
    BY <1>2, <2>3 DEF Told
  <2> QED
    BY <1>1, <2>1, <2>2, <2>3
<1>6. Scanned(p_active', p_base', p_last', p_log', p_failed')
  BY <1>1, <1>2, <1>5 DEF Scanned
<1>7. ASSUME NEW q \in Poller, p_pc'[q] = "scanning"
      PROVE  Scanning(p_active', p_base', p_log', p_failed', p_cur'[q], p_next'[q])
  <2>0. Scanning(p_active, p_base, p_log, p_failed, p_cur[q], p_next[q])
    BY <1>1, <1>2, <1>7
  <2>1. CASE q = p
    <3>1. p_next'[p] = p_next[p] + 1 /\ p_next[p] + 1 - 1 = p_next[p]
      BY <1>1, <1>2 DEF PollInv, PollTypes
    <3>2. ASSUME p_active, NEW h \in (p_base + 1)..p_next[p] PROVE Told(p_log', p_failed', h)
      <4>1. CASE h = p_next[p]
        BY <1>5, <3>2, <4>1
      <4>2. CASE h # p_next[p]
        <5>1. h \in (p_base + 1)..(p_next[p] - 1)
          BY <1>2, <4>2
        <5> QED
          BY <1>5, <2>0, <2>1, <3>2, <5>1 DEF Scanning
      <4> QED
        BY <4>1, <4>2
    <3>3. p_next'[p] - 1 = p_next[p] /\ p_cur'[p] = p_cur[p]
      BY <1>1, <1>2, <3>1
    <3>4. p_active => p_cur[p] >= p_base
      BY <2>0, <2>1 DEF Scanning
    <3> QED
      BY <1>1, <2>1, <3>2, <3>3, <3>4 DEF Scanning
  <2>2. CASE q # p
    <3>1. p_next'[q] = p_next[q]
      BY <1>1, <2>2 DEF PollInv, PollTypes
    <3> QED
      BY <1>1, <1>5, <2>0, <3>1 DEF Scanning
  <2> QED
    BY <2>1, <2>2
<1>8. \A q \in Poller : p_pc'[q] = "scanning" => p_kind' = "blocks_tx" /\ p_base' # None
  BY <1>1, <1>2
<1> QED
  BY <1>1, <1>2, <1>4, <1>6, <1>7, <1>8 DEF PollInv

(* The end of a scan moves the last height to its target. *)
LEMMA PollScanEnd == ASSUME PollInv, NEW p \in Poller, Poll!ScanEnd(p) PROVE PollInv'
<1>1. /\ p_pc[p] = "scanning" /\ p_next[p] > p_cur[p]
      /\ p_last' = p_cur[p] /\ Poll!Idle(p)
      /\ UNCHANGED <<p_height, p_kind, p_active, p_base, p_log, p_failed>>
  BY DEF Poll!ScanEnd
<1>2. /\ p_kind = "blocks_tx" /\ p_base # None /\ p_base \in Nat /\ p_next[p] \in Nat
      /\ p_cur[p] \in Nat /\ p_cur[p] # None
      /\ Scanned(p_active, p_base, p_last, p_log, p_failed)
      /\ \A q \in Poller : p_pc[q] = "scanning" =>
            Scanning(p_active, p_base, p_log, p_failed, p_cur[q], p_next[q])
  BY <1>1, PollConstants DEF PollInv, PollTypes
<1>3. PollTypes'
  BY <1>1, <1>2, PollIdle DEF PollInv, PollTypes
<1>4. Scanned(p_active, p_base, p_last', p_log, p_failed)
  <2>1. p_active => p_cur[p] >= p_base
    BY <1>1, <1>2 DEF Scanning
  <2>2. ASSUME p_active, NEW h \in (p_base + 1)..p_cur[p] PROVE Told(p_log, p_failed, h)
    <3>1. h \in (p_base + 1)..(p_next[p] - 1)
      BY <1>1, <1>2
    <3> QED
      BY <1>1, <1>2, <2>2, <3>1 DEF Scanning
  <2> QED
    BY <1>1, <1>2, <2>1, <2>2 DEF Scanned
<1>5. Scanned(p_active, p_base, p_last, p_log, p_failed)'
  BY <1>1, <1>4 DEF Scanned
<1>6. ASSUME NEW q \in Poller, p_pc'[q] = "scanning"
      PROVE  /\ Scanning(p_active, p_base, p_log, p_failed, p_cur[q], p_next[q])'
             /\ p_kind' = "blocks_tx" /\ p_base' # None
  <2>1. p_pc[q] = "scanning" /\ p_cur'[q] = p_cur[q] /\ p_next'[q] = p_next[q]
    BY <1>1, <1>6, PollIdle
  <2> QED
    BY <1>1, <1>2, <2>1 DEF Scanning
<1> QED
  BY <1>1, <1>2, <1>3, <1>5, <1>6 DEF PollInv

(***************************************************************************)
(* A change that starts where the last one ended keeps the chain.          *)
(***************************************************************************)
LEMMA LinkedMore ==
  ASSUME NEW b \in Nat, NEW m \in Nat, NEW c \in Nat, NEW l, Linked(TRUE, b, m, l), b # None
  PROVE  Linked(TRUE, b, c, l \o <<(<<m, c>>)>>)
<1> DEFINE e == <<m, c>>
           t == l \o <<e>>
<1>1. /\ l \in Seq(Nat \X Nat) /\ Len(l) \in Nat
      /\ \A i \in 1..Len(l) : l[i][1] = (IF i = 1 THEN b ELSE l[i - 1][2])
      /\ m = IF l = <<>> THEN b ELSE l[Len(l)][2]
  BY DEF Linked
<1>2. e \in Nat \X Nat /\ e[1] = m /\ e[2] = c
  OBVIOUS
<1> HIDE DEF e
<1>3. /\ t \in Seq(Nat \X Nat) /\ Len(t) = Len(l) + 1 /\ t[Len(l) + 1] = e
      /\ \A i \in 1..Len(l) : t[i] = l[i]
  BY <1>1, <1>2
<1>4. t # <<>>
  BY <1>1, <1>3
<1> HIDE DEF t
<1>5. ASSUME NEW i \in 1..Len(t) PROVE t[i][1] = (IF i = 1 THEN b ELSE t[i - 1][2])
  <2>1. CASE i \in 1..Len(l)
    <3>1. i # 1 => i - 1 \in 1..Len(l)
      BY <1>1, <2>1
    <3> QED
      BY <1>1, <1>3, <2>1, <3>1
  <2>2. CASE i = Len(l) + 1
    <3>1. CASE Len(l) = 0
      <4>1. l = <<>>
        BY <1>1, <3>1
      <4> QED
        BY <1>1, <1>2, <1>3, <2>2, <3>1, <4>1
    <3>2. CASE Len(l) > 0
      <4>1. l # <<>> /\ i # 1 /\ i - 1 = Len(l) /\ Len(l) \in 1..Len(l)
        BY <1>1, <2>2, <3>2
      <4>2. t[i][1] = l[Len(l)][2] /\ t[i - 1] = l[Len(l)]
        BY <1>1, <1>2, <1>3, <2>2, <4>1
      <4> QED
        BY <4>1, <4>2
    <3> QED
      BY <1>1, <3>1, <3>2
  <2> QED
    BY <1>1, <1>3, <2>1, <2>2
<1> QED
  BY <1>2, <1>3, <1>4, <1>5 DEF Linked, t, e

(* A balance is said when it is another one than before. *)
LEMMA PollAccountAnswer ==
  ASSUME PollInv, NEW p \in Poller, Poll!AccountAnswer(p) PROVE PollInv'
<1> DEFINE s == IF p_cur[p] # p_last THEN <<(<<p_last, p_cur[p]>>)>> ELSE <<>>
<1>1. /\ p_kind = "account" /\ p_last # None /\ Poll!Idle(p)
      /\ \/ p_active /\ p_log' = p_log \o s /\ p_last' = p_cur[p]
         \/ ~p_active /\ p_log' = p_log /\ p_last' = p_last
      /\ UNCHANGED <<p_height, p_kind, p_active, p_base, p_failed>>
  BY DEF Poll!AccountAnswer
<1>2. /\ p_base \in Nat /\ p_last \in Nat /\ p_cur[p] \in Nat /\ p_base # None
      /\ p_cur[p] # None /\ p_active \in BOOLEAN
      /\ Linked(p_active, p_base, p_last, p_log)
  BY <1>1, PollConstants DEF PollInv, PollTypes
<1>3. PollTypes'
  BY <1>1, <1>2, PollIdle DEF PollInv, PollTypes
<1>4. \A q \in Poller : p_pc'[q] # "scanning"
  BY <1>1, PollIdle DEF PollInv
<1>5. Linked(p_active', p_base', p_last', p_log')
  <2>1. CASE ~p_active
    BY <1>1, <1>2, <2>1 DEF Linked
  <2>2. CASE p_active /\ p_cur[p] = p_last
    <3>1. p_log' = p_log /\ p_last' = p_last
      BY <1>1, <1>2, <2>2, ConcatEmptySeq DEF Linked
    <3> QED
      BY <1>1, <1>2, <3>1 DEF Linked
  <2>3. CASE p_active /\ p_cur[p] # p_last
    <3>1. Linked(TRUE, p_base, p_last, p_log)
      BY <1>2, <2>3 DEF Linked
    <3>2. Linked(TRUE, p_base, p_cur[p], p_log \o <<(<<p_last, p_cur[p]>>)>>)
      BY <1>2, <3>1, LinkedMore
    <3>3. p_log' = p_log \o <<(<<p_last, p_cur[p]>>)>> /\ p_last' = p_cur[p]
      BY <1>1, <2>3
    <3> QED
      BY <1>1, <3>2, <3>3 DEF Linked
  <2> QED
    BY <2>1, <2>2, <2>3
<1> QED
  BY <1>1, <1>3, <1>4, <1>5 DEF PollInv

(* Every step of the pollers keeps the invariant. *)
LEMMA PollStep == PollInv /\ [Poll!Next]_Poll!vars => PollInv'
<1> SUFFICES ASSUME PollInv, [Poll!Next]_Poll!vars PROVE PollInv'
  OBVIOUS
<1>1. CASE UNCHANGED Poll!vars
  <2>1. UNCHANGED <<p_kind, p_active, p_last, p_buf, p_base, p_log, p_failed, p_height, p_pc,
                    p_cur, p_next>>
    BY <1>1 DEF Poll!vars
  <2> QED
    BY <2>1 DEF PollInv, PollTypes, Blocks, Scanned, Scanning, Linked
<1> QED
  BY <1>1, PollProduce, PollSubscribe, PollUnsubscribe, PollInterval, PollNodeAnswers,
     PollPollFails, PollFirstAnswer, PollNoNewBlock, PollNewBlocks, PollAccountAnswer,
     PollScanStart, PollScanBlock, PollScanEnd
  DEF Poll!Next, Poll!Resume

(* The invariant gives that notifications are faithful. *)
LEMMA PollImplies == PollInv => Poll!NotificationsFaithful
<1> SUFFICES ASSUME PollInv PROVE Poll!NotificationsFaithful
  OBVIOUS
<1>1. Poll!BlocksInOrder
  BY DEF PollInv, Blocks, Poll!BlocksInOrder
<1>2. Poll!NothingSkipped
  BY DEF PollInv, PollTypes, Scanned, Told, Poll!NothingSkipped
<1>3. Poll!ChangesLink
  BY DEF PollInv, PollTypes, Linked, Poll!ChangesLink
<1> QED
  BY <1>1, <1>2, <1>3 DEF Poll!NotificationsFaithful

(***************************************************************************)
(* The polling fallback, for any number of polls in flight whose answers   *)
(* come in any order, and any buffer size: blocks are told in order, once  *)
(* and without a gap; a scan that overlaps others leaves no block out; and *)
(* the account changes told form a chain (tools/subscription.ts).          *)
(***************************************************************************)
THEOREM PollFaithful == Poll!Spec => []Poll!NotificationsFaithful
BY PollInit, PollStep, PollImplies, PTL DEF Poll!Spec

(***************************************************************************)
(* The same for the run of Streams.                                        *)
(***************************************************************************)
THEOREM StreamsNotificationsFaithful == StreamsSpec => []NotificationsFaithful
<1> DEFINE Inv == part = "poll" => PollInv
<1>1. StreamsInit => Inv
  BY PollInit DEF StreamsInit
<1>2. Inv /\ [StreamsNext]_all => Inv'
  BY PartStep, PollStep
<1>3. Inv => NotificationsFaithful
  BY PollImplies DEF NotificationsFaithful
<1> QED
  BY <1>1, <1>2, <1>3, PTL DEF StreamsSpec
=============================================================================
