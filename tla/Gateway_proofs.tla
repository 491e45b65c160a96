--------------------------- MODULE Gateway_proofs ---------------------------
(***************************************************************************)
(* Proofs about the components of Gateway, laid out as in Books_proofs: an *)
(* inductive invariant per component, the lemma that its steps keep it,    *)
(* the theorem for the component, and the property of the run.             *)
(***************************************************************************)
EXTENDS Gateway, Sums_proofs, TLAPS

(***************************************************************************)
(* A step of Gateway is a step of the component it is a behaviour of.      *)
(***************************************************************************)
LEMMA PartStep ==
  ASSUME [GatewayNext]_all
  PROVE  /\ part' = part
         /\ part = "sessions" => [Sessions!Next]_Sessions!vars
         /\ part = "rate" => [Rate!Next]_Rate!vars
         /\ part = "wallets" => [Wallets!Next]_Wallets!vars
         /\ part = "rotation" => [Rotation!Next]_Rotation!vars
         /\ part = "beckn" => [Beckn!Next]_Beckn!vars
         /\ part = "callback" => [Callback!Next]_Callback!vars
         /\ part = "mesh" => [Mesh!Next]_Mesh!vars
<1>1. CASE GatewayNext
  BY <1>1 DEF GatewayNext
<1>2. CASE UNCHANGED all
  BY <1>2 DEF all, s_vars, r_vars, w_vars, k_vars, b_vars, c_vars, x_vars,
       Sessions!vars, Rate!vars, Wallets!vars, Rotation!vars, Beckn!vars, Callback!vars,
       Mesh!vars
<1> QED
  BY <1>1, <1>2

-----------------------------------------------------------------------------
(* Sessions and OAuth.                                                     *)

Files == {"clients", "codes", "live", "retired", "deny"}

(***************************************************************************)
(* What each map must say about an answer a, n being the last number made, *)
(* boot the last load, T what was tried and G the answers given.           *)
(***************************************************************************)
ClientsFor(c, a) == a.kind = "client" => a.grant \in c

CodesFor(c, a, boot, T) ==
  /\ a.kind = "tokens" => a.grant \notin DOMAIN c /\ a.token \notin DOMAIN c
  /\ a.kind = "code" /\ a.token \notin T => 
       (a.token \in DOMAIN c /\ c[a.token].exp = a.exp) \/ a.exp <= boot

LiveFor(l, a, T) ==
  /\ a.kind = "tokens" => /\ a.grant \notin DOMAIN l
                          /\ a.token \notin T => a.token \in DOMAIN l
  /\ a.kind = "reuse" => \A x \in DOMAIN l : l[x].family # a.grant
  /\ a.kind = "revoked" => a.grant \notin DOMAIN l

RetiredFor(t, a, boot, G) ==
  a.kind = "tokens" /\ boot + SessionTtl < a.exp + RefreshTtl =>
    \/ a.grant \in DOMAIN t /\ t[a.grant].at + SessionTtl >= a.exp
    \/ \A b \in G : b.kind = "tokens" => b.token # a.grant

DenyFor(d, a, boot) ==
  a.kind = "denied" /\ a.exp > boot => a.token \in DOMAIN d /\ d[a.token] = a.exp

(***************************************************************************)
(* The maps by themselves, and in view of the answers given.               *)
(***************************************************************************)
ClientsOk(c, G) == \A a \in G : ClientsFor(c, a)

CodesOk(c, n, boot, T, G) ==
  /\ DOMAIN c \subseteq 1..n
  /\ \A x \in DOMAIN c : c[x].exp \in Nat /\ c[x].exp >= CodeTtl
  /\ \A a \in G : CodesFor(c, a, boot, T)

LiveOk(l, n, T, G) ==
  /\ DOMAIN l \subseteq 1..n
  /\ \A x \in DOMAIN l : l[x].family \in 1..n
  /\ \A x, y \in DOMAIN l : l[x].family = l[y].family => x = y
  /\ \A a \in G : LiveFor(l, a, T)

RetiredOk(t, n, boot, G) ==
  /\ \A x \in DOMAIN t : t[x].family \in 1..n /\ t[x].at \in Nat
  /\ \A a \in G : RetiredFor(t, a, boot, G)

DenyOk(d, boot, G) == \A a \in G : DenyFor(d, a, boot)

MapsOk(m, n, boot, T, G) ==
  /\ DOMAIN m = Files
  /\ ClientsOk(m.clients, G)
  /\ CodesOk(m.codes, n, boot, T, G)
  /\ LiveOk(m.live, n, T, G)
  /\ RetiredOk(m.retired, n, boot, G)
  /\ DenyOk(m.deny, boot, G)

\* The numbers in an answer were made before.
Numbered(a, n) ==
  /\ a.kind \in {"tokens", "reuse", "revoked"} => a.grant \in 1..n
  /\ a.kind \in {"tokens", "code"} => a.token \in 1..n

\* One map is the other.
SameLive(l, k) == DOMAIN l = DOMAIN k /\ \A x \in DOMAIN l : l[x] = k[x]

InTodo(f) == \E i \in 1..Len(s_todo) : s_todo[i] = f

(***************************************************************************)
(* The answer under way: memory says what it promises, and so do the files *)
(* that are written already.  It exchanges a code or token nobody was      *)
(* answered for, and its token is new.                                     *)
(***************************************************************************)
PendingOk ==
  /\ s_reply \in Sessions!Answer /\ Numbered(s_reply, s_fresh)
  /\ ClientsFor(s_mem.clients, s_reply)
  /\ CodesFor(s_mem.codes, s_reply, s_booted, s_tried)
  /\ LiveFor(s_mem.live, s_reply, s_tried)
  /\ RetiredFor(s_mem.retired, s_reply, s_booted, s_given)
  /\ DenyFor(s_mem.deny, s_reply, s_booted)
  /\ InTodo("clients") \/ ClientsFor(s_disk.clients, s_reply)
  /\ InTodo("codes") \/ CodesFor(s_disk.codes, s_reply, s_booted, s_tried)
  /\ InTodo("live") \/ LiveFor(s_disk.live, s_reply, s_tried)
  /\ InTodo("retired") \/ RetiredFor(s_disk.retired, s_reply, s_booted, s_given)
  /\ InTodo("deny") \/ DenyFor(s_disk.deny, s_reply, s_booted)
  /\ s_reply.kind = "tokens" =>
       /\ s_reply.token # s_reply.grant
       /\ \A a \in s_given : a.kind = "tokens" =>
            a.grant # s_reply.grant /\ a.grant # s_reply.token

SessionsInv ==
  /\ s_clock \in Nat /\ s_booted \in Nat /\ s_booted <= s_clock /\ s_fresh \in Nat
  /\ s_given \subseteq Sessions!Answer
  /\ s_todo \in Seq(Files)
  /\ MapsOk(s_mem, s_fresh, s_booted, s_tried, s_given)
  /\ MapsOk(s_disk, s_fresh, s_booted, s_tried, s_given)
  /\ \A m, k \in {s_mem, s_disk} : DOMAIN m.codes \cap DOMAIN k.live = {}
  /\ \A a \in s_given : Numbered(a, s_fresh)
  /\ \A a, b \in s_given : a.kind = "tokens" /\ b.kind = "tokens" /\ a.grant = b.grant => a = b
  /\ InTodo("live") \/ SameLive(s_disk.live, s_mem.live)
  /\ s_reply = None => s_todo = <<>>
  /\ s_reply # None => PendingOk

(* The OAuth store starts in the invariant. *)
LEMMA SessionsInit == Sessions!Init => SessionsInv
<1> SUFFICES ASSUME Sessions!Init PROVE SessionsInv
  OBVIOUS
<1>1. MapsOk(Sessions!NoMaps, 0, 0, {}, {})
  BY DEF Sessions!NoMaps, Sessions!Empty, MapsOk, Files, ClientsOk, CodesOk, LiveOk,
         RetiredOk, DenyOk
<1>2. DOMAIN Sessions!NoMaps.codes = {}
  BY DEF Sessions!NoMaps, Sessions!Empty
<1> QED
  BY <1>1, <1>2 DEF Sessions!Init, SessionsInv, SameLive

(* Writing the next file keeps the invariant. *)
LEMMA PersistInv == SessionsInv /\ Sessions!Persist => SessionsInv'
<1> SUFFICES ASSUME SessionsInv, Sessions!Persist PROVE SessionsInv'
  OBVIOUS
<1> DEFINE f == Head(s_todo)
<1>1. /\ f \in Files /\ s_todo' = Tail(s_todo) /\ s_todo' \in Seq(Files)
      /\ s_disk' = [s_disk EXCEPT ![f] = s_mem[f]]
      /\ UNCHANGED <<s_mem, s_reply, s_clock, s_booted, s_fresh, s_given, s_tried>> /\ s_todo # <<>>
  BY DEF SessionsInv, Sessions!Persist
<1>2. \A g \in Files : InTodo(g) => g = f \/ InTodo(g)'
  <2>1. /\ f = s_todo[1] /\ Len(s_todo') = Len(s_todo) - 1 /\ Len(s_todo) \in Nat
        /\ \A j \in 1..Len(s_todo') : s_todo'[j] = s_todo[j + 1]
    BY <1>1 DEF SessionsInv
  <2>2. ASSUME NEW i \in 1..Len(s_todo), i # 1
        PROVE  i - 1 \in 1..Len(s_todo') /\ s_todo'[i - 1] = s_todo[i]
    BY <2>1, <2>2
  <2> QED
    BY <2>1, <2>2 DEF InTodo
<1>3. /\ DOMAIN s_disk = Files /\ DOMAIN s_disk' = Files
      /\ \A g \in Files : s_disk'[g] = IF g = f THEN s_mem[g] ELSE s_disk[g]
  BY <1>1 DEF SessionsInv, MapsOk
<1>4. /\ s_disk'.clients = IF f = "clients" THEN s_mem.clients ELSE s_disk.clients
      /\ s_disk'.codes = IF f = "codes" THEN s_mem.codes ELSE s_disk.codes
      /\ s_disk'.live = IF f = "live" THEN s_mem.live ELSE s_disk.live
      /\ s_disk'.retired = IF f = "retired" THEN s_mem.retired ELSE s_disk.retired
      /\ s_disk'.deny = IF f = "deny" THEN s_mem.deny ELSE s_disk.deny
  BY <1>3 DEF Files
<1>5. MapsOk(s_disk', s_fresh, s_booted, s_tried, s_given)
  BY <1>3, <1>4 DEF SessionsInv, MapsOk
<1>6. \A m, k \in {s_mem, s_disk'} : DOMAIN m.codes \cap DOMAIN k.live = {}
  BY <1>4 DEF SessionsInv
<1>7. InTodo("live")' \/ SameLive(s_disk'.live, s_mem.live)
  BY <1>2, <1>4 DEF SessionsInv, Files, SameLive
<1>8. s_reply # None
  BY <1>1 DEF SessionsInv
<1>9. PendingOk'
  BY <1>1, <1>2, <1>4, <1>8 DEF SessionsInv, PendingOk, Files
<1> QED
  BY <1>1, <1>5, <1>6, <1>7, <1>8, <1>9 DEF SessionsInv


(* The answer is given when every file it waited for is written. *)
LEMMA DeliverInv == SessionsInv /\ Sessions!Deliver => SessionsInv'
<1> SUFFICES ASSUME SessionsInv, Sessions!Deliver PROVE SessionsInv'
  OBVIOUS
<1>1. /\ s_reply # None /\ s_todo = <<>> /\ s_reply' = None
      /\ s_given' = IF s_reply.kind = "error" THEN s_given ELSE s_given \cup {s_reply}
      /\ UNCHANGED <<s_mem, s_disk, s_todo, s_clock, s_booted, s_fresh, s_tried>>
  BY DEF Sessions!Deliver
<1>2. PendingOk /\ \A f : ~InTodo(f)
  BY <1>1 DEF SessionsInv, InTodo
<1>3. CASE s_given' = s_given
  BY <1>1, <1>3 DEF SessionsInv, InTodo
<1>4. CASE s_given' = s_given \cup {s_reply}
  <2> DEFINE G == s_given'
  <2>1. ASSUME NEW t, RetiredOk(t, s_fresh, s_booted, s_given),
               RetiredFor(t, s_reply, s_booted, s_given)
        PROVE  RetiredOk(t, s_fresh, s_booted, G)
    BY <1>2, <1>4, <2>1 DEF RetiredOk, RetiredFor, PendingOk
  <2>2. MapsOk(s_mem, s_fresh, s_booted, s_tried, G)
    BY <1>2, <1>4, <2>1 DEF SessionsInv, MapsOk, PendingOk, ClientsOk, CodesOk, LiveOk, DenyOk
  <2>3. MapsOk(s_disk, s_fresh, s_booted, s_tried, G)
    BY <1>2, <1>4, <2>1 DEF SessionsInv, MapsOk, PendingOk, ClientsOk, CodesOk, LiveOk, DenyOk
  <2>4. /\ G \subseteq Sessions!Answer
        /\ \A a \in G : Numbered(a, s_fresh)
        /\ \A a, b \in G : a.kind = "tokens" /\ b.kind = "tokens" /\ a.grant = b.grant => a = b
    BY <1>2, <1>4 DEF SessionsInv, PendingOk
  <2> QED
    BY <1>1, <2>2, <2>3, <2>4 DEF SessionsInv, InTodo
<1> QED
  BY <1>1, <1>3, <1>4

(***************************************************************************)
(* Time passes, or more is tried and numbered: the maps stay right.        *)
(***************************************************************************)
LEMMA MapsLater ==
  ASSUME NEW m, NEW n \in Nat, NEW boot \in Nat, NEW T, NEW G,
         MapsOk(m, n, boot, T, G),
         NEW n2 \in Nat, n <= n2, NEW boot2 \in Nat, boot <= boot2, NEW T2, T \subseteq T2,
         G \subseteq Sessions!Answer
  PROVE  MapsOk(m, n2, boot2, T2, G)
<1>0. \A a \in G : a.exp \in Nat
  BY DEF Sessions!Answer
<1>c. CodeTtl \in Nat /\ RefreshTtl \in Nat /\ SessionTtl \in Nat
  BY SessionsAssumption DEF Sessions!TtlAssumption
<1>1. CodesOk(m.codes, n2, boot2, T2, G)
  BY <1>0, <1>c DEF MapsOk, CodesOk, CodesFor
<1>2. LiveOk(m.live, n2, T2, G)
  BY DEF MapsOk, LiveOk, LiveFor
<1>3. RetiredOk(m.retired, n2, boot2, G)
  BY <1>0, <1>c DEF MapsOk, RetiredOk, RetiredFor
<1>4. DenyOk(m.deny, boot2, G)
  BY <1>0 DEF MapsOk, DenyOk, DenyFor
<1> QED
  BY <1>1, <1>2, <1>3, <1>4 DEF MapsOk

(* Time passing keeps the invariant. *)
LEMMA TickInv == SessionsInv /\ Sessions!Tick => SessionsInv'
<1> SUFFICES ASSUME SessionsInv, Sessions!Tick PROVE SessionsInv'
  OBVIOUS
<1>1. /\ s_reply = None /\ s_clock' = s_clock + 1
      /\ UNCHANGED <<s_mem, s_disk, s_todo, s_reply, s_booted, s_fresh, s_given, s_tried>>
  BY DEF Sessions!Tick, Sessions!Idle
<1>2. s_clock' \in Nat /\ s_booted' <= s_clock'
  BY <1>1 DEF SessionsInv
<1> QED
  BY <1>1, <1>2 DEF SessionsInv, InTodo

(***************************************************************************)
(* loadAll and loadDenyList drop only what has expired.                    *)
(***************************************************************************)
LEMMA SessionsCrashInv == SessionsInv /\ Sessions!Crash => SessionsInv'
<1> SUFFICES ASSUME SessionsInv, Sessions!Crash PROVE SessionsInv'
  OBVIOUS
<1>0. /\ s_mem' = Sessions!LoadAll /\ s_todo' = <<>> /\ s_reply' = None
      /\ UNCHANGED <<s_disk, s_clock, s_fresh, s_given, s_tried>> /\ s_booted' = s_clock
  BY DEF Sessions!Crash
<1>1. DOMAIN s_disk = Files
  BY DEF SessionsInv, MapsOk
<1>2. /\ DOMAIN s_mem' = Files
      /\ s_mem'.clients = s_disk.clients /\ s_mem'.live = s_disk.live
      /\ s_mem'.codes = [x \in {y \in DOMAIN s_disk.codes : s_disk.codes[y].exp > s_clock}
                           |-> s_disk.codes[x]]
      /\ s_mem'.retired = [x \in {y \in DOMAIN s_disk.retired :
                                    s_disk.retired[y].at > s_clock - RefreshTtl}
                             |-> s_disk.retired[x]]
      /\ s_mem'.deny = [x \in {y \in DOMAIN s_disk.deny : s_disk.deny[y] > s_clock}
                          |-> s_disk.deny[x]]
  BY <1>0, <1>1 DEF Sessions!LoadAll, Sessions!Kept, Files
<1>c. /\ CodeTtl \in Nat /\ RefreshTtl \in Nat /\ SessionTtl \in Nat
      /\ s_clock \in Nat
  BY SessionsAssumption DEF Sessions!TtlAssumption, SessionsInv
<1>d. \A a \in s_given : a.exp \in Nat
  BY DEF SessionsInv, Sessions!Answer
<1>3. MapsOk(s_disk, s_fresh, s_clock, s_tried, s_given)
  BY MapsLater DEF SessionsInv
<1>4. CodesOk(s_mem'.codes, s_fresh, s_clock, s_tried, s_given)
  BY <1>2, <1>c, <1>d, <1>3 DEF MapsOk, CodesOk, CodesFor
<1>5. RetiredOk(s_mem'.retired, s_fresh, s_clock, s_given)
  BY <1>2, <1>c, <1>d, <1>3 DEF MapsOk, RetiredOk, RetiredFor
<1>6. DenyOk(s_mem'.deny, s_clock, s_given)
  BY <1>2, <1>d, <1>3 DEF MapsOk, DenyOk, DenyFor
<1>7. MapsOk(s_mem', s_fresh, s_clock, s_tried, s_given)
  BY <1>2, <1>3, <1>4, <1>5, <1>6 DEF MapsOk
<1>8. DOMAIN s_mem'.codes \subseteq DOMAIN s_disk.codes
  BY <1>2
<1> QED
  BY <1>0, <1>2, <1>c, <1>3, <1>7, <1>8 DEF SessionsInv, InTodo, SameLive


(***************************************************************************)
(* A handler starts.                                                       *)
(***************************************************************************)
LEMMA HandleInv ==
  ASSUME SessionsInv, s_reply = None, UNCHANGED <<s_disk, s_clock, s_booted, s_given>>,
         s_fresh' \in Nat, s_fresh <= s_fresh', s_tried \subseteq s_tried',
         s_todo' \in Seq(Files),
         MapsOk(s_mem', s_fresh', s_booted, s_tried', s_given),
         \A m, k \in {s_mem', s_disk} : DOMAIN m.codes \cap DOMAIN k.live = {},
         InTodo("live")' \/ SameLive(s_disk.live, s_mem'.live),
         PendingOk'
  PROVE  SessionsInv'
<1>1. MapsOk(s_disk, s_fresh', s_booted, s_tried', s_given)
  BY MapsLater DEF SessionsInv
<1>2. \A a \in s_given : Numbered(a, s_fresh')
  BY DEF SessionsInv, Numbered
<1>3. s_reply' # None
  BY SessionsAssumption DEF PendingOk, Sessions!TtlAssumption
<1> QED
  BY <1>1, <1>2, <1>3 DEF SessionsInv

(* Registering a client keeps the invariant. *)
LEMMA RegisterInv ==
  ASSUME SessionsInv, NEW c \in Clients, Sessions!Register(c)
  PROVE  SessionsInv'
<1>1. /\ s_reply = None /\ UNCHANGED <<s_disk, s_clock, s_booted, s_given, s_fresh, s_tried>>
      /\ s_mem' = [s_mem EXCEPT !.clients = @ \cup {c}] /\ s_todo' = <<"clients">>
      /\ s_reply' = [Sessions!Refuse EXCEPT !.kind = "client", !.grant = c]
  BY DEF Sessions!Register, Sessions!Idle, Sessions!Handle
<1>2. /\ DOMAIN s_mem' = Files /\ s_mem'.clients = s_mem.clients \cup {c}
      /\ s_mem'.codes = s_mem.codes /\ s_mem'.live = s_mem.live
      /\ s_mem'.retired = s_mem.retired /\ s_mem'.deny = s_mem.deny
  BY <1>1 DEF SessionsInv, MapsOk, Files
<1>3. MapsOk(s_mem', s_fresh, s_booted, s_tried, s_given)
  BY <1>2 DEF SessionsInv, MapsOk, ClientsOk, ClientsFor
<1>4. s_reply'.kind = "client" /\ s_reply'.grant = c /\ s_reply' \in Sessions!Answer
  BY <1>1 DEF Sessions!Refuse, Sessions!Answer
<1>5. \A g : InTodo(g)' <=> g = "clients"
  BY <1>1 DEF InTodo
<1>6. PendingOk'
  BY <1>1, <1>2, <1>4, <1>5
  DEF PendingOk, Numbered, ClientsFor, CodesFor, LiveFor, RetiredFor, DenyFor
<1>7. SameLive(s_disk.live, s_mem.live) /\ s_fresh \in Nat /\ s_todo' \in Seq(Files)
  BY <1>1 DEF SessionsInv, InTodo, Files
<1>8. \A m, k \in {s_mem', s_disk} : DOMAIN m.codes \cap DOMAIN k.live = {}
  BY <1>2 DEF SessionsInv
<1> QED
  BY <1>1, <1>2, <1>3, <1>6, <1>7, <1>8, HandleInv


(* A new authorization code is one nobody has seen. *)
LEMMA IssueCodeInv ==
  ASSUME SessionsInv, NEW c \in Clients, Sessions!IssueCode(c)
  PROVE  SessionsInv'
<1> DEFINE n == s_fresh + 1
           v == [client |-> c, exp |-> s_clock + CodeTtl]
<1>1. /\ s_reply = None /\ UNCHANGED <<s_disk, s_clock, s_booted, s_given, s_tried>> /\ s_fresh' = n
      /\ s_mem' = [s_mem EXCEPT !.codes = Sessions!Put(@, n, v)] /\ s_todo' = <<"codes">>
      /\ s_reply' = [Sessions!Refuse EXCEPT !.kind = "code", !.token = n, !.exp = s_clock + CodeTtl]
  BY DEF Sessions!IssueCode, Sessions!Idle, Sessions!Handle
<1>2. /\ DOMAIN s_mem' = Files /\ s_mem'.clients = s_mem.clients
      /\ s_mem'.codes = Sessions!Put(s_mem.codes, n, v) /\ s_mem'.live = s_mem.live
      /\ s_mem'.retired = s_mem.retired /\ s_mem'.deny = s_mem.deny
  BY <1>1 DEF SessionsInv, MapsOk, Files
<1>3. /\ DOMAIN s_mem'.codes = DOMAIN s_mem.codes \cup {n}
      /\ \A x \in DOMAIN s_mem'.codes : s_mem'.codes[x] = IF x = n THEN v ELSE s_mem.codes[x]
  BY <1>2 DEF Sessions!Put
<1>4. s_fresh \in Nat /\ s_clock \in Nat /\ CodeTtl \in Nat /\ n \in Nat
  BY SessionsAssumption DEF SessionsInv, Sessions!TtlAssumption
<1>5. MapsOk(s_mem, n, s_booted, s_tried, s_given)
  BY <1>4, MapsLater DEF SessionsInv
<1>6. CodesOk(s_mem'.codes, n, s_booted, s_tried, s_given)
  <2>1. DOMAIN s_mem'.codes \subseteq 1..n
    BY <1>3, <1>4, <1>5 DEF MapsOk, CodesOk
  <2>2. v.exp \in Nat /\ v.exp >= CodeTtl
    BY <1>4
  <2>3. \A a \in s_given : CodesFor(s_mem'.codes, a, s_booted, s_tried)
    BY <1>3, <1>4, <1>5 DEF MapsOk, CodesOk, CodesFor, SessionsInv, Numbered
  <2> HIDE DEF v
  <2> QED
    BY <1>3, <1>5, <2>1, <2>2, <2>3 DEF MapsOk, CodesOk
<1>7. MapsOk(s_mem', n, s_booted, s_tried, s_given)
  BY <1>2, <1>5, <1>6 DEF MapsOk
<1>8. /\ s_reply'.kind = "code" /\ s_reply'.token = n /\ s_reply'.exp = s_clock + CodeTtl
      /\ s_reply' \in Sessions!Answer
  <2>1. PICK e \in Nat : e = s_clock + CodeTtl
    BY <1>4
  <2>2. s_reply' = [Sessions!Refuse EXCEPT !.kind = "code", !.token = n, !.exp = e]
    BY <1>1, <2>1
  <2> HIDE DEF n
  <2> QED
    BY <1>4, <2>1, <2>2 DEF Sessions!Refuse, Sessions!Answer
<1>9. \A g : InTodo(g)' <=> g = "codes"
  BY <1>1 DEF InTodo
<1>10. PendingOk'
  <2>1. s_mem'.codes[n].exp = s_reply'.exp /\ n \in DOMAIN s_mem'.codes
    BY <1>3, <1>8
  <2>2. Numbered(s_reply', n)
    BY <1>4, <1>8 DEF Numbered
  <2>3. CodesFor(s_mem'.codes, s_reply', s_booted, s_tried)
    BY <1>8, <2>1 DEF CodesFor
  <2> QED
    BY <1>1, <1>2, <1>8, <1>9, <2>2, <2>3
    DEF PendingOk, ClientsFor, LiveFor, RetiredFor, DenyFor
<1>11. SameLive(s_disk.live, s_mem.live) /\ s_todo' \in Seq(Files)
  BY <1>1 DEF SessionsInv, InTodo, Files
<1>12. \A m, k \in {s_mem', s_disk} : DOMAIN m.codes \cap DOMAIN k.live = {}
  <2>1. DOMAIN s_mem.live \subseteq 1..s_fresh
    BY DEF SessionsInv, MapsOk, LiveOk
  <2>2. n \notin DOMAIN s_mem.live
    BY <1>4, <2>1
  <2> QED
    BY <1>2, <1>3, <1>11, <2>2 DEF SessionsInv, SameLive
<1> QED
  BY <1>1, <1>2, <1>4, <1>7, <1>10, <1>11, <1>12, HandleInv

(***************************************************************************)
(* A code is burnt: it was tried.                                          *)
(***************************************************************************)
LEMMA BurnCode ==
  ASSUME SessionsInv, NEW k \in DOMAIN s_mem.codes, NEW T, T = s_tried \cup {k}
  PROVE  CodesOk(Sessions!Drop(s_mem.codes, {k}), s_fresh, s_booted, T, s_given)
BY DEF Sessions!Drop, SessionsInv, MapsOk, CodesOk, CodesFor

(* Exchanging a code takes it away in the step that grants the tokens. *)
LEMMA ExchangeCodeInv ==
  ASSUME SessionsInv, NEW c \in Clients, NEW k \in Sessions!Ids, Sessions!ExchangeCode(c, k)
  PROVE  SessionsInv'
<1> DEFINE d == Sessions!Drop(s_mem.codes, {k})
           n == s_fresh + 1
           v == [client |-> c, family |-> n]
<1>1. /\ s_reply = None /\ UNCHANGED <<s_disk, s_clock, s_booted, s_given>> /\ k \in DOMAIN s_mem.codes
      /\ s_tried' = s_tried \cup {k}
  BY DEF Sessions!ExchangeCode, Sessions!Idle, Sessions!Handle
<1>2. /\ s_fresh \in Nat /\ s_clock \in Nat /\ SessionTtl \in Nat /\ n \in Nat
      /\ SameLive(s_disk.live, s_mem.live)
  BY <1>1, SessionsAssumption DEF SessionsInv, Sessions!TtlAssumption, InTodo
<1>3. CodesOk(d, s_fresh, s_booted, s_tried', s_given) /\ DOMAIN d = DOMAIN s_mem.codes \ {k}
  BY <1>1, BurnCode DEF Sessions!Drop
<1>4. /\ MapsOk(s_mem, s_fresh, s_booted, s_tried', s_given)
      /\ MapsOk(s_mem, n, s_booted, s_tried', s_given)
  BY <1>1, <1>2, MapsLater DEF SessionsInv
<1> HIDE DEF d
<1>5. CASE /\ s_mem' = [s_mem EXCEPT !.codes = d] /\ s_todo' = <<"codes">>
           /\ s_reply' = Sessions!Refuse /\ s_fresh' = s_fresh
  <2>1. /\ DOMAIN s_mem' = Files /\ s_mem'.clients = s_mem.clients
        /\ s_mem'.codes = d /\ s_mem'.live = s_mem.live
        /\ s_mem'.retired = s_mem.retired /\ s_mem'.deny = s_mem.deny
    BY <1>5 DEF SessionsInv, MapsOk, Files
  <2>2. MapsOk(s_mem', s_fresh, s_booted, s_tried', s_given)
    BY <1>3, <1>4, <2>1 DEF MapsOk
  <2>3. s_reply'.kind = "error" /\ s_reply' \in Sessions!Answer
    BY <1>5 DEF Sessions!Refuse, Sessions!Answer
  <2>4. PendingOk'
    BY <2>3 DEF PendingOk, Numbered, ClientsFor, CodesFor, LiveFor, RetiredFor, DenyFor
  <2>5. \A m, x \in {s_mem', s_disk} : DOMAIN m.codes \cap DOMAIN x.live = {}
    BY <1>3, <2>1 DEF SessionsInv
  <2>6. s_todo' \in Seq(Files)
    BY <1>5 DEF Files
  <2> QED
    BY <1>1, <1>2, <1>5, <2>1, <2>2, <2>4, <2>5, <2>6, HandleInv
<1>6. CASE /\ s_mem' = [s_mem EXCEPT !.codes = d, !.live = Sessions!Put(@, n, v)]
           /\ s_todo' = <<"codes", "live">> /\ s_fresh' = n
           /\ s_reply' = [kind |-> "tokens", grant |-> k, token |-> n,
                          exp |-> s_clock + SessionTtl]
  <2>1. /\ DOMAIN s_mem' = Files /\ s_mem'.clients = s_mem.clients
        /\ s_mem'.codes = d /\ s_mem'.live = Sessions!Put(s_mem.live, n, v)
        /\ s_mem'.retired = s_mem.retired /\ s_mem'.deny = s_mem.deny
    BY <1>6 DEF SessionsInv, MapsOk, Files
  <2>2. /\ DOMAIN s_mem'.live = DOMAIN s_mem.live \cup {n}
        /\ \A x \in DOMAIN s_mem'.live : s_mem'.live[x] = IF x = n THEN v ELSE s_mem.live[x]
        /\ v.family = n
    BY <2>1 DEF Sessions!Put
  <2>3. /\ DOMAIN s_mem.codes \subseteq 1..s_fresh /\ DOMAIN s_disk.codes \subseteq 1..s_fresh
        /\ DOMAIN s_mem.live \subseteq 1..s_fresh
        /\ k \in 1..s_fresh /\ k \notin DOMAIN s_mem.live
        /\ \A x \in DOMAIN s_mem.live : s_mem.live[x].family \in 1..s_fresh
    BY <1>1 DEF SessionsInv, MapsOk, CodesOk, LiveOk
  <2>4. CodesOk(d, n, s_booted, s_tried', s_given)
    BY <1>2, <1>3, <2>3 DEF CodesOk
  <2>5. LiveOk(s_mem'.live, n, s_tried', s_given)
    <3>1. \A x, y \in DOMAIN s_mem'.live : s_mem'.live[x].family = s_mem'.live[y].family => x = y
      BY <1>2, <1>4, <2>2, <2>3 DEF MapsOk, LiveOk
    <3>2. \A a \in s_given : LiveFor(s_mem'.live, a, s_tried')
      BY <1>2, <1>4, <2>2 DEF MapsOk, LiveOk, LiveFor, SessionsInv, Numbered
    <3>3. \A x \in DOMAIN s_mem'.live : x \in 1..n /\ s_mem'.live[x].family \in 1..n
      BY <1>2, <2>2, <2>3
    <3> QED
      BY <3>1, <3>2, <3>3 DEF LiveOk
  <2>6. MapsOk(s_mem', n, s_booted, s_tried', s_given)
    BY <1>4, <2>1, <2>4, <2>5 DEF MapsOk
  <2>7. /\ s_reply'.kind = "tokens" /\ s_reply'.grant = k /\ s_reply'.token = n
        /\ s_reply' \in Sessions!Answer
    BY <1>2, <1>6, <2>3 DEF Sessions!Answer
  <2>8. \A g : InTodo(g)' <=> g \in {"codes", "live"}
    BY <1>6 DEF InTodo
  <2>9. /\ n # k /\ n \notin DOMAIN d /\ k \notin DOMAIN d /\ k \notin DOMAIN s_mem'.live
        /\ n \in DOMAIN s_mem'.live
    BY <1>2, <1>3, <2>2, <2>3
  <2>10. \A a \in s_given : a.kind = "tokens" => a.grant # k /\ a.token # k /\ a.grant # n
    BY <1>1, <1>2 DEF SessionsInv, MapsOk, CodesOk, CodesFor, Numbered
  <2>11. PendingOk'
    <3>1. Numbered(s_reply', n)
      BY <1>2, <2>3, <2>7 DEF Numbered
    <3>2. CodesFor(s_mem'.codes, s_reply', s_booted, s_tried') /\ LiveFor(s_mem'.live, s_reply', s_tried')
      BY <2>1, <2>7, <2>9 DEF CodesFor, LiveFor
    <3>3. \A t : RetiredFor(t, s_reply', s_booted, s_given)
      BY <2>7, <2>10 DEF RetiredFor
    <3> QED
      BY <1>1, <1>6, <2>7, <2>8, <2>9, <2>10, <3>1, <3>2, <3>3
      DEF PendingOk, ClientsFor, DenyFor
  <2>12. \A m, x \in {s_mem', s_disk} : DOMAIN m.codes \cap DOMAIN x.live = {}
    <3>1. n \notin DOMAIN s_disk.codes /\ DOMAIN s_mem'.codes \subseteq DOMAIN s_mem.codes
      BY <1>2, <1>3, <2>1, <2>3
    <3> QED
      BY <1>2, <2>1, <2>2, <2>9, <3>1 DEF SessionsInv
  <2>13. s_todo' \in Seq(Files)
    BY <1>6 DEF Files
  <2> QED
    BY <1>1, <1>2, <1>6, <2>6, <2>8, <2>11, <2>12, <2>13, HandleInv
<1>7. \/ /\ s_mem' = [s_mem EXCEPT !.codes = d] /\ s_todo' = <<"codes">>
         /\ s_reply' = Sessions!Refuse /\ s_fresh' = s_fresh
      \/ /\ s_mem' = [s_mem EXCEPT !.codes = d, !.live = Sessions!Put(@, n, v)]
         /\ s_todo' = <<"codes", "live">> /\ s_fresh' = n
         /\ s_reply' = [kind |-> "tokens", grant |-> k, token |-> n,
                        exp |-> s_clock + SessionTtl]
  BY DEF Sessions!ExchangeCode, Sessions!Handle, d
<1> QED
  BY <1>5, <1>6, <1>7


(***************************************************************************)
(* Tokens are retired: they were tried.                                    *)
(***************************************************************************)
LEMMA RetireFields ==
  ASSUME SessionsInv, NEW ks, NEW m, m = Sessions!Retire(s_mem, ks)
  PROVE  /\ DOMAIN m = Files
         /\ m.clients = s_mem.clients /\ m.codes = s_mem.codes /\ m.deny = s_mem.deny
         /\ DOMAIN m.live = DOMAIN s_mem.live \ ks
         /\ \A x \in DOMAIN m.live : m.live[x] = s_mem.live[x]
         /\ DOMAIN m.retired = DOMAIN s_mem.retired \cup ks
         /\ \A x \in DOMAIN m.retired :
              m.retired[x] = IF x \in ks THEN [family |-> s_mem.live[x].family, at |-> s_clock]
                             ELSE s_mem.retired[x]
<1>1. /\ DOMAIN m = Files
      /\ m.clients = s_mem.clients /\ m.codes = s_mem.codes /\ m.deny = s_mem.deny
      /\ m.live = Sessions!Drop(s_mem.live, ks)
      /\ m.retired = [x \in DOMAIN s_mem.retired \cup ks |->
                        IF x \in ks THEN [family |-> s_mem.live[x].family, at |-> s_clock]
                        ELSE s_mem.retired[x]]
  BY DEF Sessions!Retire, SessionsInv, MapsOk, Files
<1> QED
  BY <1>1 DEF Sessions!Drop

(* Retiring the tokens ks leaves a store that is consistent with what was *)
(* tried and given.                                                       *)
LEMMA RetireOk ==
  ASSUME SessionsInv, NEW ks \in SUBSET DOMAIN s_mem.live,
         NEW m, m = Sessions!Retire(s_mem, ks)
  PROVE  MapsOk(m, s_fresh, s_booted, s_tried \cup ks, s_given)
<1> DEFINE T == s_tried \cup ks
<1>1. MapsOk(s_mem, s_fresh, s_booted, T, s_given) /\ s_clock \in Nat
  BY MapsLater DEF SessionsInv
<1>2. LiveOk(m.live, s_fresh, T, s_given)
  <2>1. DOMAIN m.live \subseteq DOMAIN s_mem.live /\ \A x \in DOMAIN m.live : m.live[x] = s_mem.live[x]
    BY RetireFields
  <2>2. \A a \in s_given : LiveFor(m.live, a, T)
    <3> TAKE a \in s_given
    <3>1. LiveFor(s_mem.live, a, T)
      BY <1>1 DEF MapsOk, LiveOk
    <3>2. DOMAIN m.live = DOMAIN s_mem.live \ ks
      BY RetireFields
    <3> QED
      BY <2>1, <3>1, <3>2 DEF LiveFor
  <2> QED
    BY <1>1, <2>1, <2>2 DEF MapsOk, LiveOk
<1>3. RetiredOk(m.retired, s_fresh, s_booted, s_given)
  <2>1. \A x \in ks : s_mem.live[x].family \in 1..s_fresh
    BY <1>1 DEF MapsOk, LiveOk
  <2>2. /\ DOMAIN m.retired = DOMAIN s_mem.retired \cup ks
        /\ \A x \in DOMAIN m.retired :
             m.retired[x] = IF x \in ks THEN [family |-> s_mem.live[x].family, at |-> s_clock]
                            ELSE s_mem.retired[x]
    BY RetireFields
  <2> QED
    <3>1. \A x \in DOMAIN m.retired : m.retired[x].family \in 1..s_fresh /\ m.retired[x].at \in Nat
      <4> TAKE x \in DOMAIN m.retired
      <4>1. CASE x \in ks
        <5>1. m.retired[x] = [family |-> s_mem.live[x].family, at |-> s_clock]
          BY <2>2, <4>1
        <5>2. s_mem.live[x].family \in 1..s_fresh /\ s_clock \in Nat
          BY <1>1, <2>1, <4>1
        <5> QED
          BY <5>1, <5>2
      <4>2. CASE x \notin ks
        BY <1>1, <2>2, <4>2 DEF MapsOk, RetiredOk
      <4> QED
        BY <4>1, <4>2
    <3>2. \A a \in s_given : RetiredFor(m.retired, a, s_booted, s_given)
      <4> TAKE a \in s_given
      <4>1. RetiredFor(s_mem.retired, a, s_booted, s_given) /\ LiveFor(s_mem.live, a, T)
        BY <1>1 DEF MapsOk, RetiredOk, LiveOk
      <4>2. a.kind = "tokens" => a.grant \notin ks
        BY <4>1 DEF LiveFor
      <4>3. a.kind = "tokens" /\ a.grant \in DOMAIN s_mem.retired =>
              a.grant \in DOMAIN m.retired /\ m.retired[a.grant] = s_mem.retired[a.grant]
        BY <2>2, <4>2
      <4> QED
        BY <4>1, <4>3 DEF RetiredFor
    <3> QED
      BY <3>1, <3>2 DEF RetiredOk
<1> QED
  BY <1>1, <1>2, <1>3, RetireFields DEF MapsOk

(* Presenting a rotated refresh token ends its family, and keeps the *)
(* invariant.                                                        *)
LEMMA ReuseDetectedInv ==
  ASSUME SessionsInv, NEW r \in Sessions!Ids, Sessions!ReuseDetected(r)
  PROVE  SessionsInv'
<1> DEFINE f == s_mem.retired[r].family
           ks == Sessions!Members(f)
<1>1. /\ s_reply = None /\ UNCHANGED <<s_disk, s_clock, s_booted, s_given, s_fresh>>
      /\ r \in DOMAIN s_mem.retired
      /\ s_tried' = s_tried \cup ks /\ s_mem' = Sessions!Retire(s_mem, ks)
      /\ s_todo' = IF ks = {} THEN <<>> ELSE <<"live", "retired">>
      /\ s_reply' = [Sessions!Refuse EXCEPT !.kind = "reuse", !.grant = f]
  BY DEF Sessions!ReuseDetected, Sessions!Idle, Sessions!Handle
<1>2. s_fresh \in Nat /\ SameLive(s_disk.live, s_mem.live) /\ f \in 1..s_fresh
  BY <1>1 DEF SessionsInv, InTodo, MapsOk, RetiredOk
<1>3. ks = {x \in DOMAIN s_mem.live : s_mem.live[x].family = f}
  BY DEF Sessions!Members
<1>4. MapsOk(s_mem', s_fresh, s_booted, s_tried', s_given)
  BY <1>1, <1>3, RetireOk
<1>5. /\ s_mem'.codes = s_mem.codes /\ DOMAIN s_mem'.live = DOMAIN s_mem.live \ ks
      /\ \A x \in DOMAIN s_mem'.live : s_mem'.live[x] = s_mem.live[x] /\ s_mem'.live[x].family # f
  BY <1>1, <1>3, RetireFields
<1>6. s_reply'.kind = "reuse" /\ s_reply'.grant = f /\ s_reply' \in Sessions!Answer
  <2>1. f \in Nat
    BY <1>2
  <2> HIDE DEF f
  <2> QED
    BY <1>1, <2>1 DEF Sessions!Refuse, Sessions!Answer
<1>7. s_todo' \in Seq(Files) /\ (InTodo("live")' \/ ks = {})
  <2> HIDE DEF ks
  <2>1. CASE ks = {}
    BY <1>1, <2>1
  <2>2. CASE ks # {}
    <3>1. s_todo' = <<"live", "retired">>
      BY <1>1, <2>2
    <3> QED
      BY <3>1 DEF Files, InTodo
  <2> QED
    BY <2>1, <2>2
<1>8. InTodo("live")' \/ SameLive(s_disk.live, s_mem'.live)
  BY <1>2, <1>5, <1>7 DEF SameLive
<1>9. PendingOk'
  <2>1. LiveFor(s_mem'.live, s_reply', s_tried')
    BY <1>5, <1>6 DEF LiveFor
  <2>2. InTodo("live")' \/ LiveFor(s_disk.live, s_reply', s_tried')
    BY <1>6, <1>8, <2>1 DEF LiveFor, SameLive
  <2> QED
    BY <1>1, <1>2, <1>6, <2>1, <2>2
    DEF PendingOk, Numbered, ClientsFor, CodesFor, RetiredFor, DenyFor
<1>10. \A m, x \in {s_mem', s_disk} : DOMAIN m.codes \cap DOMAIN x.live = {}
  BY <1>5 DEF SessionsInv
<1> HIDE DEF ks, f
<1> QED
  BY <1>1, <1>2, <1>4, <1>7, <1>8, <1>9, <1>10, HandleInv

(* Revoking a refresh token keeps the invariant. *)
LEMMA RevokeRefreshInv ==
  ASSUME SessionsInv, NEW r \in Sessions!Ids, Sessions!RevokeRefresh(r)
  PROVE  SessionsInv'
<1>1. /\ s_reply = None /\ UNCHANGED <<s_disk, s_clock, s_booted, s_given, s_fresh>>
      /\ r \in DOMAIN s_mem.live
      /\ s_tried' = s_tried \cup {r} /\ s_mem' = Sessions!Retire(s_mem, {r})
      /\ s_todo' = <<"live", "retired">>
      /\ s_reply' = [Sessions!Refuse EXCEPT !.kind = "revoked", !.grant = r]
  BY DEF Sessions!RevokeRefresh, Sessions!Idle, Sessions!Handle
<1>2. s_fresh \in Nat /\ r \in 1..s_fresh /\ r \in Nat
  BY <1>1 DEF SessionsInv, MapsOk, LiveOk
<1>3. MapsOk(s_mem', s_fresh, s_booted, s_tried', s_given)
  BY <1>1, RetireOk
<1>4. s_mem'.codes = s_mem.codes /\ DOMAIN s_mem'.live = DOMAIN s_mem.live \ {r}
  BY <1>1, RetireFields
<1>5. s_reply'.kind = "revoked" /\ s_reply'.grant = r /\ s_reply' \in Sessions!Answer
  BY <1>1, <1>2 DEF Sessions!Refuse, Sessions!Answer
<1>6. s_todo' \in Seq(Files) /\ InTodo("live")'
  BY <1>1 DEF Files, InTodo
<1>7. PendingOk'
  BY <1>1, <1>2, <1>4, <1>5, <1>6
  DEF PendingOk, Numbered, ClientsFor, CodesFor, LiveFor, RetiredFor, DenyFor
<1>8. \A m, x \in {s_mem', s_disk} : DOMAIN m.codes \cap DOMAIN x.live = {}
  BY <1>4 DEF SessionsInv
<1>9. s_tried \subseteq s_tried' /\ s_fresh' \in Nat /\ s_fresh <= s_fresh'
  BY <1>1, <1>2
<1>10. MapsOk(s_mem', s_fresh', s_booted, s_tried', s_given)
  BY <1>1, <1>3
<1> QED
  BY <1>1, <1>6, <1>7, <1>8, <1>9, <1>10, HandleInv

(* Rotation takes the old refresh token away in the step that grants the new *)
(* one.                                                                      *)
LEMMA RotateInv ==
  ASSUME SessionsInv, NEW c \in Clients, NEW r \in Sessions!Ids, Sessions!Rotate(c, r)
  PROVE  SessionsInv'
<1> DEFINE o == Sessions!Retire(s_mem, {r})
           n == s_fresh + 1
           v == s_mem.live[r]
<1>1. /\ s_reply = None /\ UNCHANGED <<s_disk, s_clock, s_booted, s_given>> /\ s_fresh' = n
      /\ r \in DOMAIN s_mem.live
      /\ s_tried' = s_tried \cup {r}
      /\ s_mem' = [o EXCEPT !.live = Sessions!Put(@, n, v)]
      /\ s_todo' = <<"live", "retired">>
      /\ s_reply' = [kind |-> "tokens", grant |-> r, token |-> n, exp |-> s_clock + SessionTtl]
  BY DEF Sessions!Rotate, Sessions!Idle, Sessions!Handle
<1>2. /\ s_fresh \in Nat /\ s_clock \in Nat /\ SessionTtl \in Nat /\ n \in Nat
      /\ SameLive(s_disk.live, s_mem.live)
  BY <1>1, SessionsAssumption DEF SessionsInv, Sessions!TtlAssumption, InTodo
<1>3. /\ DOMAIN o = Files
      /\ o.clients = s_mem.clients /\ o.codes = s_mem.codes /\ o.deny = s_mem.deny
      /\ DOMAIN o.live = DOMAIN s_mem.live \ {r}
      /\ \A x \in DOMAIN o.live : o.live[x] = s_mem.live[x]
      /\ r \in DOMAIN o.retired /\ o.retired[r].at = s_clock
  <2> HIDE DEF o
  <2>1. o = Sessions!Retire(s_mem, {r})
    BY DEF o
  <2>2. /\ DOMAIN o = Files
        /\ o.clients = s_mem.clients /\ o.codes = s_mem.codes /\ o.deny = s_mem.deny
        /\ DOMAIN o.live = DOMAIN s_mem.live \ {r}
        /\ \A x \in DOMAIN o.live : o.live[x] = s_mem.live[x]
        /\ r \in DOMAIN o.retired
    BY <2>1, RetireFields
  <2>3. o.retired[r] = [family |-> s_mem.live[r].family, at |-> s_clock]
    <3>1. \A x \in DOMAIN o.retired :
            o.retired[x] = IF x \in {r} THEN [family |-> s_mem.live[x].family, at |-> s_clock]
                           ELSE s_mem.retired[x]
      BY <2>1, RetireFields
    <3> QED
      BY <2>2, <3>1
  <2> QED
    BY <2>2, <2>3
<1>4. MapsOk(o, s_fresh, s_booted, s_tried', s_given)
  BY <1>1, RetireOk
<1> HIDE DEF o
<1>5. MapsOk(o, n, s_booted, s_tried', s_given)
  BY <1>2, <1>4, MapsLater DEF SessionsInv
<1>6. /\ DOMAIN s_mem' = Files /\ s_mem'.clients = o.clients
      /\ s_mem'.codes = o.codes /\ s_mem'.live = Sessions!Put(o.live, n, v)
      /\ s_mem'.retired = o.retired /\ s_mem'.deny = o.deny
  BY <1>1, <1>3 DEF Files
<1>7. /\ DOMAIN s_mem'.live = DOMAIN o.live \cup {n}
      /\ \A x \in DOMAIN s_mem'.live : s_mem'.live[x] = IF x = n THEN v ELSE o.live[x]
  BY <1>6 DEF Sessions!Put
<1>8. /\ DOMAIN s_mem.codes \subseteq 1..s_fresh /\ DOMAIN s_disk.codes \subseteq 1..s_fresh
      /\ DOMAIN s_mem.live \subseteq 1..s_fresh /\ DOMAIN o.live \subseteq 1..s_fresh
      /\ r \in 1..s_fresh /\ r \notin DOMAIN s_mem.codes /\ r \notin DOMAIN s_disk.codes
      /\ v.family \in 1..s_fresh
      /\ \A x \in DOMAIN s_mem.live : s_mem.live[x].family = v.family => x = r
  BY <1>1, <1>3 DEF SessionsInv, MapsOk, CodesOk, LiveOk
<1>9. LiveOk(s_mem'.live, n, s_tried', s_given)
  <2>1. \A x, y \in DOMAIN s_mem'.live : s_mem'.live[x].family = s_mem'.live[y].family => x = y
    BY <1>3, <1>5, <1>7, <1>8 DEF MapsOk, LiveOk
  <2>2. \A a \in s_given : LiveFor(s_mem'.live, a, s_tried')
    <3> TAKE a \in s_given
    <3>1. LiveFor(o.live, a, s_tried') /\ LiveFor(s_mem.live, a, s_tried) /\ Numbered(a, s_fresh)
      BY <1>5 DEF MapsOk, LiveOk, SessionsInv
    <3> QED
      BY <1>1, <1>2, <1>7, <3>1 DEF LiveFor, Numbered
  <2>3. \A x \in DOMAIN s_mem'.live : x \in 1..n /\ s_mem'.live[x].family \in 1..n
    BY <1>2, <1>5, <1>7, <1>8 DEF MapsOk, LiveOk
  <2> QED
    BY <2>1, <2>2, <2>3 DEF LiveOk
<1>10. MapsOk(s_mem', n, s_booted, s_tried', s_given)
  BY <1>5, <1>6, <1>9 DEF MapsOk
<1>11. /\ s_reply'.kind = "tokens" /\ s_reply'.grant = r /\ s_reply'.token = n
       /\ s_reply'.exp = s_clock + SessionTtl
       /\ s_reply' \in Sessions!Answer
  BY <1>1, <1>2, <1>8 DEF Sessions!Answer
<1>12. \A g : InTodo(g)' <=> g \in {"live", "retired"}
  BY <1>1 DEF InTodo
<1>13. /\ n # r /\ n \notin DOMAIN s_mem.codes /\ n \notin DOMAIN s_disk.codes
       /\ r \notin DOMAIN s_mem'.live /\ n \in DOMAIN s_mem'.live
  BY <1>2, <1>3, <1>7, <1>8
<1>14. \A a \in s_given : a.kind = "tokens" => a.grant # r /\ a.grant # n
  BY <1>1, <1>2 DEF SessionsInv, MapsOk, LiveOk, LiveFor, Numbered
<1>15. PendingOk'
  <2>1. Numbered(s_reply', n)
    BY <1>2, <1>8, <1>11 DEF Numbered
  <2>2. /\ CodesFor(s_mem'.codes, s_reply', s_booted, s_tried')
        /\ CodesFor(s_disk.codes, s_reply', s_booted, s_tried')
        /\ LiveFor(s_mem'.live, s_reply', s_tried')
    BY <1>3, <1>6, <1>8, <1>11, <1>13 DEF CodesFor, LiveFor
  <2>3. RetiredFor(s_mem'.retired, s_reply', s_booted, s_given)
    <3>1. o.retired[r].at + SessionTtl >= s_reply'.exp
      BY <1>2, <1>3, <1>11
    <3> QED
      BY <1>3, <1>6, <1>11, <3>1 DEF RetiredFor
  <2> QED
    BY <1>1, <1>11, <1>12, <1>13, <1>14, <2>1, <2>2, <2>3 DEF PendingOk, ClientsFor, DenyFor
<1>16. \A m, x \in {s_mem', s_disk} : DOMAIN m.codes \cap DOMAIN x.live = {}
  BY <1>2, <1>3, <1>6, <1>7, <1>13 DEF SessionsInv
<1>17. s_todo' \in Seq(Files)
  BY <1>1 DEF Files
<1> QED
  BY <1>1, <1>2, <1>10, <1>12, <1>15, <1>16, <1>17, HandleInv

(* A login grants an access token and nothing else. *)
LEMMA LoginInv == SessionsInv /\ Sessions!Login => SessionsInv'
<1> SUFFICES ASSUME SessionsInv, Sessions!Login PROVE SessionsInv'
  OBVIOUS
<1>1. /\ s_reply = None /\ UNCHANGED <<s_disk, s_clock, s_booted, s_given, s_tried, s_mem>>
      /\ s_fresh' = s_fresh + 1 /\ s_todo' = <<>>
      /\ s_reply' = [kind |-> "login", grant |-> 0, token |-> s_fresh + 1,
                     exp |-> s_clock + SessionTtl]
  BY DEF Sessions!Login, Sessions!Idle, Sessions!Handle
<1>2. /\ s_fresh \in Nat /\ s_clock \in Nat /\ SessionTtl \in Nat /\ s_fresh' \in Nat
      /\ SameLive(s_disk.live, s_mem.live)
  BY <1>1, SessionsAssumption DEF SessionsInv, Sessions!TtlAssumption, InTodo
<1>3. MapsOk(s_mem, s_fresh', s_booted, s_tried, s_given)
  BY <1>1, <1>2, MapsLater DEF SessionsInv
<1>4. s_reply'.kind = "login" /\ s_reply' \in Sessions!Answer
  BY <1>1, <1>2 DEF Sessions!Answer
<1>5. PendingOk'
  BY <1>4 DEF PendingOk, Numbered, ClientsFor, CodesFor, LiveFor, RetiredFor, DenyFor
<1>6. \A m, k \in {s_mem', s_disk} : DOMAIN m.codes \cap DOMAIN k.live = {}
  BY <1>1 DEF SessionsInv
<1>7. s_todo' \in Seq(Files)
  BY <1>1
<1> QED
  BY <1>1, <1>2, <1>3, <1>5, <1>6, <1>7, HandleInv

(* Revoking an access token keeps the invariant. *)
LEMMA RevokeAccessInv ==
  ASSUME SessionsInv, NEW a \in s_given, Sessions!RevokeAccess(a)
  PROVE  SessionsInv'
<1>1. /\ s_reply = None /\ UNCHANGED <<s_disk, s_clock, s_booted, s_given, s_tried, s_fresh>>
      /\ a.token \notin DOMAIN s_mem.deny
      /\ s_mem' = [s_mem EXCEPT !.deny = Sessions!Put(@, a.token, a.exp)] /\ s_todo' = <<"deny">>
      /\ s_reply' = [Sessions!Refuse EXCEPT !.kind = "denied", !.token = a.token, !.exp = a.exp]
  BY DEF Sessions!RevokeAccess, Sessions!Idle, Sessions!Handle, Sessions!Accepts
<1>2. s_fresh \in Nat /\ SameLive(s_disk.live, s_mem.live) /\ a.token \in Nat /\ a.exp \in Nat
  BY <1>1 DEF SessionsInv, InTodo, Sessions!Answer
<1>3. /\ DOMAIN s_mem' = Files /\ s_mem'.clients = s_mem.clients
      /\ s_mem'.codes = s_mem.codes /\ s_mem'.live = s_mem.live
      /\ s_mem'.retired = s_mem.retired /\ s_mem'.deny = Sessions!Put(s_mem.deny, a.token, a.exp)
  BY <1>1 DEF SessionsInv, MapsOk, Files
<1>4. /\ DOMAIN s_mem'.deny = DOMAIN s_mem.deny \cup {a.token}
      /\ \A x \in DOMAIN s_mem'.deny : s_mem'.deny[x] = IF x = a.token THEN a.exp ELSE s_mem.deny[x]
  BY <1>3 DEF Sessions!Put
<1>5. DenyOk(s_mem'.deny, s_booted, s_given)
  BY <1>1, <1>4 DEF SessionsInv, MapsOk, DenyOk, DenyFor
<1>6. MapsOk(s_mem', s_fresh, s_booted, s_tried, s_given)
  BY <1>3, <1>5 DEF SessionsInv, MapsOk
<1>7. /\ s_reply'.kind = "denied" /\ s_reply'.token = a.token /\ s_reply'.exp = a.exp
      /\ s_reply' \in Sessions!Answer
  BY <1>1, <1>2 DEF Sessions!Refuse, Sessions!Answer
<1>8. \A g : InTodo(g)' <=> g = "deny"
  BY <1>1 DEF InTodo
<1>9. PendingOk'
  BY <1>4, <1>7, <1>8
  DEF PendingOk, Numbered, ClientsFor, CodesFor, LiveFor, RetiredFor, DenyFor
<1>10. \A m, k \in {s_mem', s_disk} : DOMAIN m.codes \cap DOMAIN k.live = {}
  BY <1>3 DEF SessionsInv
<1>11. s_todo' \in Seq(Files)
  BY <1>1 DEF Files
<1> QED
  BY <1>1, <1>2, <1>3, <1>6, <1>9, <1>10, <1>11, HandleInv

(* Every step of sessions and OAuth keeps the invariant. *)
LEMMA SessionsStep == SessionsInv /\ [Sessions!Next]_Sessions!vars => SessionsInv'
<1> SUFFICES ASSUME SessionsInv, [Sessions!Next]_Sessions!vars PROVE SessionsInv'
  OBVIOUS
<1>1. CASE UNCHANGED Sessions!vars
  BY <1>1 DEF Sessions!vars, SessionsInv, PendingOk, InTodo
<1> QED
  BY <1>1, RegisterInv, IssueCodeInv, ExchangeCodeInv, RotateInv, ReuseDetectedInv,
     RevokeRefreshInv, LoginInv, RevokeAccessInv, PersistInv, DeliverInv, SessionsCrashInv,
     TickInv DEF Sessions!Next

(* The invariant gives the three properties of the run. *)
LEMMA SessionsImplies ==
  SessionsInv => Sessions!GrantOnce /\ Sessions!RevokedStaysRevoked /\ Sessions!AnsweredDurable
<1> SUFFICES ASSUME SessionsInv
             PROVE  Sessions!GrantOnce /\ Sessions!RevokedStaysRevoked /\ Sessions!AnsweredDurable
  OBVIOUS
<1>1. Sessions!GrantOnce
  BY DEF SessionsInv, Sessions!GrantOnce, Sessions!Grants, MapsOk, LiveOk
<1>2. Sessions!RevokedStaysRevoked
  <2>1. /\ MapsOk(s_mem, s_fresh, s_booted, s_tried, s_given)
        /\ s_clock \in Nat /\ s_booted \in Nat /\ s_booted <= s_clock
        /\ \A a \in s_given : a.exp \in Nat
        /\ SessionTtl \in Nat /\ RefreshTtl \in Nat
    BY SessionsAssumption DEF SessionsInv, Sessions!Answer, Sessions!TtlAssumption
  <2>2. ASSUME NEW a \in s_given
        PROVE  /\ a.kind = "reuse" => Sessions!Members(a.grant) = {}
               /\ a.kind = "revoked" => a.grant \notin DOMAIN s_mem.live
    BY <2>1 DEF Sessions!Members, MapsOk, LiveOk, LiveFor
  <2>3. ASSUME NEW a \in s_given, a.kind = "denied", Sessions!Accepts(a.token, a.exp)
        PROVE  a.exp = s_clock /\ s_booted = s_clock
    BY <2>1, <2>3 DEF Sessions!Accepts, MapsOk, DenyOk, DenyFor
  <2>4. ASSUME NEW a \in Sessions!Grants
        PROVE  a.grant \notin DOMAIN s_mem.live
    BY <2>1 DEF Sessions!Grants, MapsOk, LiveOk, LiveFor
  <2>5. ASSUME NEW a \in Sessions!Grants, NEW b \in Sessions!Grants, b.token = a.grant,
               s_clock < Sessions!RotatedAt(a) + RefreshTtl
        PROVE  a.grant \in DOMAIN s_mem.retired
    <3>1. RetiredFor(s_mem.retired, a, s_booted, s_given) /\ a.kind = "tokens" /\ b.kind = "tokens"
      BY <2>1 DEF MapsOk, RetiredOk, Sessions!Grants
    <3>2. a \in s_given /\ b \in s_given
      BY DEF Sessions!Grants
    <3>3. s_booted + SessionTtl < a.exp + RefreshTtl
      BY <2>1, <2>5, <3>2 DEF Sessions!RotatedAt
    <3> QED
      BY <2>5, <3>1, <3>2, <3>3 DEF RetiredFor
  <2> QED
    BY <2>2, <2>3, <2>4, <2>5 DEF Sessions!RevokedStaysRevoked
<1>3. Sessions!AnsweredDurable
  BY DEF SessionsInv, Sessions!AnsweredDurable, MapsOk, ClientsOk, ClientsFor, CodesOk,
         CodesFor, LiveOk, LiveFor
<1> QED
  BY <1>1, <1>2, <1>3

(***************************************************************************)
(* The OAuth provider through restarts between any two file writes, for    *)
(* any clients, lifetimes and length of history: a code or refresh token   *)
(* is answered with tokens once, what was revoked stays revoked, what a    *)
(* client was given is still good (oauth-provider.ts, session.ts).         *)
(***************************************************************************)
THEOREM SessionsSound ==
  Sessions!Spec =>
    [](Sessions!GrantOnce /\ Sessions!RevokedStaysRevoked /\ Sessions!AnsweredDurable)
BY SessionsInit, SessionsStep, SessionsImplies, PTL DEF Sessions!Spec

(***************************************************************************)
(* The invariant, and the three properties, in the run of Gateway.         *)
(***************************************************************************)
LEMMA GatewaySessions == GatewaySpec => [](part = "sessions" => SessionsInv)
<1> DEFINE Inv == part = "sessions" => SessionsInv
<1>1. GatewayInit => Inv
  BY SessionsInit DEF GatewayInit
<1>2. Inv /\ [GatewayNext]_all => Inv'
  BY PartStep, SessionsStep
<1> QED
  BY <1>1, <1>2, PTL DEF GatewaySpec

(***************************************************************************)
(* A code or a refresh token is exchanged once, as the run states it.      *)
(***************************************************************************)
THEOREM GatewayGrantOnce == GatewaySpec => []GrantOnce
<1>1. (part = "sessions" => SessionsInv) => GrantOnce
  BY SessionsImplies DEF GrantOnce
<1> QED
  BY <1>1, GatewaySessions, PTL

(***************************************************************************)
(* Revocations outlive restarts, as the run states it.                     *)
(***************************************************************************)
THEOREM GatewayRevokedStays == GatewaySpec => []RevokedStaysRevoked
<1>1. (part = "sessions" => SessionsInv) => RevokedStaysRevoked
  BY SessionsImplies DEF RevokedStaysRevoked
<1> QED
  BY <1>1, GatewaySessions, PTL

(***************************************************************************)
(* Answers outlive restarts, as the run states it.                         *)
(***************************************************************************)
THEOREM GatewayAnsweredDurable == GatewaySpec => []AnsweredDurable
<1>1. (part = "sessions" => SessionsInv) => AnsweredDurable
  BY SessionsImplies DEF AnsweredDurable
<1> QED
  BY <1>1, GatewaySessions, PTL


-----------------------------------------------------------------------------
(* The Beckn bridge.                                                       *)

CallFields == {"pc", "msg", "status"}

IsOutcome(a) == a.action \in {"CompleteTask", "FailTask"}

(***************************************************************************)
(* `seen' holds exactly what this process submitted an outcome for, or     *)
(* less after a restart; attempts of earlier processes have older epochs.  *)
(***************************************************************************)
BecknInv ==
  /\ b_epoch \in Nat
  /\ DOMAIN b_calls = Beckn!Requests
  /\ \A r \in Beckn!Requests : DOMAIN b_calls[r] = CallFields
  /\ \A a \in b_attempts : a.epoch \in 0..b_epoch
  /\ \A a \in b_attempts : IsOutcome(a) /\ a.epoch = b_epoch => a.txn \in b_seen
  /\ \A t \in b_seen : \E a \in b_attempts : IsOutcome(a) /\ a.txn = t
  /\ Beckn!OutcomeOnce
  /\ Beckn!OnlySubmittedBlocks

(* The bridge starts in the invariant. *)
LEMMA BecknInit == Beckn!Init => BecknInv
BY DEF Beckn!Init, BecknInv, Beckn!OutcomeOnce, Beckn!OnlySubmittedBlocks, Beckn!Outcomes,
       Beckn!NoCall, Beckn!Requests, CallFields

(***************************************************************************)
(* A step that starts no outcome and forgets no id: only calls that were   *)
(* not refused as duplicates, or were for a seen id, may end.              *)
(***************************************************************************)
LEMMA BecknQuiet ==
  ASSUME BecknInv, b_epoch' = b_epoch, b_seen' = b_seen,
         b_attempts \subseteq b_attempts',
         \A a \in b_attempts' \ b_attempts : ~IsOutcome(a) /\ a.epoch = b_epoch,
         DOMAIN b_calls' = Beckn!Requests,
         \A r \in Beckn!Requests : DOMAIN b_calls'[r] = CallFields,
         \A r \in Beckn!Requests :
           b_calls'[r].pc = "done" /\ b_calls'[r].status = 409 =>
             \/ b_calls'[r] = b_calls[r]
             \/ b_calls'[r].msg.txn \in b_seen
  PROVE  BecknInv'
<1>1. \A a \in b_attempts' : IsOutcome(a) => a \in b_attempts
  OBVIOUS
<1>2. Beckn!OutcomeOnce'
  BY <1>1 DEF BecknInv, Beckn!OutcomeOnce, Beckn!Outcomes, IsOutcome
<1>3. Beckn!OnlySubmittedBlocks'
  BY DEF BecknInv, Beckn!OnlySubmittedBlocks, Beckn!Outcomes, IsOutcome
<1>4. \A a \in b_attempts' : a.epoch \in 0..b_epoch'
  BY DEF BecknInv
<1> QED
  BY <1>1, <1>2, <1>3, <1>4 DEF BecknInv

(***************************************************************************)
(* A route that answers at once keeps the invariant when its status is not *)
(* 409 or the id was seen.                                                 *)
(***************************************************************************)
LEMMA BecknAnswer ==
  ASSUME BecknInv, NEW r \in Beckn!Requests, NEW m, NEW s, Beckn!Answer(r, m, s),
         s # 409 \/ m.txn \in b_seen, b_epoch' = b_epoch
  PROVE  BecknInv'
<1>1. /\ b_attempts' = b_attempts /\ b_seen' = b_seen
      /\ b_calls' = [b_calls EXCEPT ![r] = [pc |-> "done", msg |-> m, status |-> s]]
  BY DEF Beckn!Answer
<1>2. /\ DOMAIN b_calls' = Beckn!Requests
      /\ b_calls'[r] = [pc |-> "done", msg |-> m, status |-> s]
      /\ \A q \in Beckn!Requests \ {r} : b_calls'[q] = b_calls[q]
      /\ \A q \in Beckn!Requests : DOMAIN b_calls'[q] = CallFields
  BY <1>1 DEF BecknInv, CallFields
<1>3. \A q \in Beckn!Requests : b_calls'[q].pc = "done" /\ b_calls'[q].status = 409 =>
        b_calls'[q] = b_calls[q] \/ b_calls'[q].msg.txn \in b_seen
  BY <1>2
<1> QED
  BY <1>1, <1>2, <1>3, BecknQuiet

(***************************************************************************)
(* A route that starts another instruction keeps it.                       *)
(***************************************************************************)
LEMMA BecknSubmit ==
  ASSUME BecknInv, NEW r \in Beckn!Requests, NEW m,
         NEW action \in {"search", "select", "PublishCatalogResponse"},
         Beckn!Submit(r, m, action), b_seen' = b_seen, b_epoch' = b_epoch
  PROVE  BecknInv'
<1> DEFINE a == [req |-> r, action |-> action, txn |-> m.txn, epoch |-> b_epoch]
<1>1. /\ b_attempts' = b_attempts \cup {a}
      /\ b_calls' = [b_calls EXCEPT ![r] = [pc |-> "submit", msg |-> m, status |-> 0]]
  BY DEF Beckn!Submit
<1>2. /\ DOMAIN b_calls' = Beckn!Requests
      /\ b_calls'[r].pc = "submit"
      /\ \A q \in Beckn!Requests \ {r} : b_calls'[q] = b_calls[q]
      /\ \A q \in Beckn!Requests : DOMAIN b_calls'[q] = CallFields
  BY <1>1 DEF BecknInv, CallFields
<1>3. ~IsOutcome(a) /\ a.epoch = b_epoch
  BY DEF IsOutcome
<1> HIDE DEF a
<1>4. \A q \in Beckn!Requests : b_calls'[q].pc = "done" /\ b_calls'[q].status = 409 =>
        b_calls'[q] = b_calls[q] \/ b_calls'[q].msg.txn \in b_seen
  BY <1>2
<1> QED
  BY <1>1, <1>2, <1>3, <1>4, BecknQuiet

(***************************************************************************)
(* The callback that passes every gate: its id is recorded with the        *)
(* submission, and was not recorded before.                                *)
(***************************************************************************)
LEMMA BecknOutcome ==
  ASSUME BecknInv, NEW r \in Beckn!Requests, NEW m, m.txn \notin b_seen,
         b_seen' = b_seen \cup {m.txn}, Beckn!Submit(r, m, Beckn!Outcome(m)),
         b_epoch' = b_epoch
  PROVE  BecknInv'
<1> DEFINE a == [req |-> r, action |-> Beckn!Outcome(m), txn |-> m.txn, epoch |-> b_epoch]
<1>1. /\ b_attempts' = b_attempts \cup {a}
      /\ b_calls' = [b_calls EXCEPT ![r] = [pc |-> "submit", msg |-> m, status |-> 0]]
  BY DEF Beckn!Submit
<1>2. /\ DOMAIN b_calls' = Beckn!Requests
      /\ b_calls'[r].pc = "submit"
      /\ \A q \in Beckn!Requests \ {r} : b_calls'[q] = b_calls[q]
      /\ \A q \in Beckn!Requests : DOMAIN b_calls'[q] = CallFields
  BY <1>1 DEF BecknInv, CallFields
<1>3. IsOutcome(a) /\ a.epoch = b_epoch /\ a.txn = m.txn
  BY DEF IsOutcome, Beckn!Outcome
<1> HIDE DEF a
<1>4. \A x \in b_attempts' : x.epoch \in 0..b_epoch'
  BY <1>1, <1>3 DEF BecknInv
<1>5. \A x \in b_attempts' : IsOutcome(x) /\ x.epoch = b_epoch' => x.txn \in b_seen'
  BY <1>1, <1>3 DEF BecknInv
<1>6. \A t \in b_seen' : \E x \in b_attempts' : IsOutcome(x) /\ x.txn = t
  BY <1>1, <1>3 DEF BecknInv
<1>7. Beckn!OutcomeOnce'
  <2> SUFFICES ASSUME NEW x \in b_attempts', NEW y \in b_attempts', IsOutcome(x), IsOutcome(y),
                      x.txn = y.txn, x.epoch = y.epoch
               PROVE  x = y
    BY DEF Beckn!OutcomeOnce, Beckn!Outcomes, IsOutcome
  <2>1. CASE x = a /\ y = a
    BY <2>1
  <2>2. CASE x \in b_attempts /\ y \in b_attempts
    BY <2>2 DEF BecknInv, Beckn!OutcomeOnce, Beckn!Outcomes, IsOutcome
  <2>3. CASE x \in b_attempts /\ y = a
    BY <2>3, <1>3 DEF BecknInv
  <2>4. CASE x = a /\ y \in b_attempts
    BY <2>4, <1>3 DEF BecknInv
  <2> QED
    BY <2>1, <2>2, <2>3, <2>4, <1>1
<1>8. Beckn!OnlySubmittedBlocks'
  BY <1>1, <1>2 DEF BecknInv, Beckn!OnlySubmittedBlocks, Beckn!Outcomes
<1> QED
  BY <1>2, <1>4, <1>5, <1>6, <1>7, <1>8 DEF BecknInv

(* A request that is received, or refused, keeps the invariant. *)
LEMMA BecknReceive ==
  ASSUME BecknInv, NEW r \in Beckn!Requests, NEW m, Beckn!Receive(r, m)
  PROVE  BecknInv'
<1>1. CASE Beckn!OnRequest(r, m)
  <2>1. m.route \in {"search", "select"} /\ b_epoch' = b_epoch
    BY <1>1 DEF Beckn!OnRequest, Beckn!Arrives, Beckn!Rest
  <2>2. \/ \E s \in {400, 401} : Beckn!Answer(r, m, s)
        \/ Beckn!Submit(r, m, m.route) /\ b_seen' = b_seen
    BY <1>1 DEF Beckn!OnRequest
  <2> QED
    BY <2>1, <2>2, BecknAnswer, BecknSubmit
<1>2. CASE Beckn!OnSearch(r, m)
  <2>1. b_epoch' = b_epoch
    BY <1>2 DEF Beckn!OnSearch, Beckn!Rest
  <2>2. \/ Beckn!Answer(r, m, 400)
        \/ Beckn!Submit(r, m, "PublishCatalogResponse") /\ b_seen' = b_seen
    BY <1>2 DEF Beckn!OnSearch
  <2> QED
    BY <2>1, <2>2, BecknAnswer, BecknSubmit
<1>3. CASE Beckn!OnSelect(r, m)
  <2>1. b_epoch' = b_epoch /\ \E s \in {200, 400} : Beckn!Answer(r, m, s)
    BY <1>3 DEF Beckn!OnSelect, Beckn!Rest
  <2> QED
    BY <2>1, BecknAnswer
<1>4. CASE Beckn!OnBare(r, m)
  <2>1. b_epoch' = b_epoch /\ \E s \in {413, 415, 400, 200} : Beckn!Answer(r, m, s)
    BY <1>4 DEF Beckn!OnBare, Beckn!Rest
  <2> QED
    BY <2>1, BecknAnswer
<1>5. CASE Beckn!OnConfirm(r, m)
  <2>1. b_epoch' = b_epoch
    BY <1>5 DEF Beckn!OnConfirm, Beckn!Rest
  <2>2. \/ \E s \in {429, 400, 401, 403} : Beckn!Answer(r, m, s)
        \/ m.txn \in b_seen /\ Beckn!Answer(r, m, 409)
        \/ /\ m.txn \notin b_seen
           /\ b_seen' = b_seen \cup {m.txn}
           /\ Beckn!Submit(r, m, Beckn!Outcome(m))
    BY <1>5 DEF Beckn!OnConfirm
  <2> QED
    BY <2>1, <2>2, BecknAnswer, BecknOutcome
<1> QED
  BY <1>1, <1>2, <1>3, <1>4, <1>5 DEF Beckn!Receive

(* Every step of the Beckn bridge keeps the invariant. *)
LEMMA BecknStep == BecknInv /\ [Beckn!Next]_Beckn!vars => BecknInv'
<1> SUFFICES ASSUME BecknInv, [Beckn!Next]_Beckn!vars PROVE BecknInv'
  OBVIOUS
<1>1. ASSUME NEW r \in Beckn!Requests, Beckn!SubmitEnds(r) PROVE BecknInv'
  <2>0. \/ b_calls' = [b_calls EXCEPT ![r].pc = "done", ![r].status = 200]
        \/ b_calls' = [b_calls EXCEPT ![r].pc = "done", ![r].status = 202]
        \/ b_calls' = [b_calls EXCEPT ![r].pc = "done", ![r].status = 500]
    BY <1>1 DEF Beckn!SubmitEnds
  <2>1. PICK status \in {200, 202, 500} :
          b_calls' = [b_calls EXCEPT ![r].pc = "done", ![r].status = status]
    BY <2>0
  <2>2. b_epoch' = b_epoch /\ b_seen' = b_seen /\ b_attempts' = b_attempts
    BY <1>1 DEF Beckn!SubmitEnds
  <2>3. /\ DOMAIN b_calls' = Beckn!Requests
        /\ \A q \in Beckn!Requests \ {r} : b_calls'[q] = b_calls[q]
    BY <2>1 DEF BecknInv
  <2>4. b_calls'[r] = [[b_calls[r] EXCEPT !.pc = "done"] EXCEPT !.status = status]
    BY <2>1 DEF BecknInv
  <2>5. b_calls'[r].status # 409 /\ DOMAIN b_calls'[r] = CallFields
    BY <2>1, <2>4 DEF BecknInv, CallFields
  <2>6. \A q \in Beckn!Requests : b_calls'[q].pc = "done" /\ b_calls'[q].status = 409 =>
          b_calls'[q] = b_calls[q] \/ b_calls'[q].msg.txn \in b_seen
    BY <2>3, <2>5
  <2>7. \A q \in Beckn!Requests : DOMAIN b_calls'[q] = CallFields
    BY <2>3, <2>5 DEF BecknInv
  <2> QED
    BY <2>2, <2>3, <2>6, <2>7, BecknQuiet
<1>2. ASSUME b_epoch' = b_epoch, b_seen' = b_seen, b_attempts' = b_attempts,
             b_calls' = b_calls
      PROVE  BecknInv'
  BY <1>2 DEF BecknInv, Beckn!OutcomeOnce, Beckn!OnlySubmittedBlocks, Beckn!Outcomes
<1>3. CASE Beckn!Crash
  <2>1. /\ b_epoch' = b_epoch + 1 /\ b_seen' = {} /\ b_attempts' = b_attempts
        /\ DOMAIN b_calls' = Beckn!Requests
        /\ \A q \in Beckn!Requests :
             b_calls'[q] = IF b_calls[q].pc = "submit"
                           THEN [b_calls[q] EXCEPT !.pc = "lost"] ELSE b_calls[q]
    BY <1>3 DEF Beckn!Crash
  <2>2. \A q \in Beckn!Requests : /\ DOMAIN b_calls'[q] = CallFields
                                  /\ b_calls'[q].pc = "done" => b_calls'[q] = b_calls[q]
    BY <2>1 DEF BecknInv, CallFields
  <2> QED
    BY <2>1, <2>2 DEF BecknInv, Beckn!OutcomeOnce, Beckn!OnlySubmittedBlocks, Beckn!Outcomes
<1>4. ASSUME NEW t, Beckn!HandleTrigger(t) PROVE BecknInv'
  BY <1>2, <1>4 DEF Beckn!HandleTrigger
<1>5. CASE Beckn!Tick
  BY <1>2, <1>5 DEF Beckn!Tick
<1>6. CASE UNCHANGED Beckn!vars
  BY <1>2, <1>6 DEF Beckn!vars
<1> QED
  BY <1>1, <1>3, <1>4, <1>5, <1>6, BecknReceive DEF Beckn!Next

(***************************************************************************)
(* The on_confirm gate, for any peers, messages and number of requests and *)
(* restarts: between restarts a transaction gets at most one outcome, and  *)
(* only a submitted outcome makes a callback a duplicate (inbound-bpp.ts). *)
(***************************************************************************)
THEOREM BecknCallbackOnce == Beckn!Spec => []Beckn!CallbackSound
<1>1. BecknInv => Beckn!CallbackSound
  BY DEF BecknInv, Beckn!CallbackSound
<1> QED
  BY <1>1, BecknInit, BecknStep, PTL DEF Beckn!Spec

(***************************************************************************)
(* The same for the run of Gateway.                                        *)
(***************************************************************************)
THEOREM GatewayCallbackSound == GatewaySpec => []CallbackSound
<1> DEFINE Inv == part = "beckn" => BecknInv
<1>1. GatewayInit => Inv
  BY BecknInit DEF GatewayInit
<1>2. Inv /\ [GatewayNext]_all => Inv'
  BY PartStep, BecknStep
<1>3. Inv => CallbackSound
  BY DEF BecknInv, CallbackSound, Beckn!CallbackSound
<1> QED
  BY <1>1, <1>2, <1>3, PTL DEF GatewaySpec


-----------------------------------------------------------------------------
(* The mesh validator.                                                     *)

ReqFields == {"pc", "body", "bal", "status"}

(***************************************************************************)
(* The attestations of A made for request r; the balance q judged.         *)
(***************************************************************************)
MadeFor(A, r) == {a.att : a \in {e \in A : e.for = r}}
BalanceJudged(q) == [address |-> q.body.address, balance |-> q.bal]
ReadFrom(q) == Mesh!ReadOn(q.body.chain)

(***************************************************************************)
(* M holds an attestation of the balance q judged, of a block no later     *)
(* than the source's height in h; and one with the state that follows it.  *)
(***************************************************************************)
Balance(M, q, h) ==
  \E b \in M : /\ b.type = "balance" /\ b.sourceChain = q.body.chain
               /\ b.data = BalanceJudged(q)
               /\ b.sourceBlock \in Nat /\ b.sourceBlock <= h[ReadFrom(q)]

Evidence(M, q) ==
  \E b, s \in M : /\ b.type = "balance" /\ b.sourceChain = q.body.chain
                  /\ b.data = BalanceJudged(q)
                  /\ s.type = "state" /\ s.sourceChain = ReadFrom(q)
                  /\ s.destChain = q.body.to
                  /\ s.sourceBlock >= b.sourceBlock

(***************************************************************************)
(* A request q for which M was attested, whose credits that landed are cr. *)
(***************************************************************************)
ReqOk(q, M, h, cr) ==
  /\ q.pc \in {"idle", "balance", "block", "state", "credit", "done"}
  /\ cr \in {0, 1}
  /\ q.pc # "idle" => DOMAIN q = ReqFields /\ q.body \in Mesh!Body /\ q.bal \in Nat
  /\ q.pc \notin {"idle", "done"} => q.status = "pending"
  /\ q.pc # "done" => cr = 0
  /\ q.pc = "balance" => q.body.path # "/attest"
  /\ q.pc \in {"state", "credit"} /\ q.body.path = "/transfer" =>
       Balance(M, q, h) /\ q.bal >= q.body.amount
  /\ q.pc = "credit" => q.body.path = "/transfer" /\ Evidence(M, q)
  /\ cr = 1 => Evidence(M, q) /\ q.bal >= q.body.amount
  /\ q.pc = "done" /\ q.status = "settled" => cr = 1

Started(q) == {r \in Job : q[r].pc # "idle"}

MeshInv ==
  /\ x_height \in [Mesh!Chain -> 0..MaxHeight]
  /\ x_balance \in [Mesh!Chain \X Address -> Nat]
  /\ x_credited \in [Job -> {0, 1}]
  /\ x_bucket \in [count : Nat, late : BOOLEAN]
  /\ x_bucket.count <= Cardinality(Started(x_reqs))
  /\ DOMAIN x_loop = {"pc", "seen", "n"} /\ x_loop.pc \in {"read", "eto", "eth"}
  /\ DOMAIN x_reqs = Job
  /\ \A r \in Job : ReqOk(x_reqs[r], MadeFor(x_attestations, r), x_height, x_credited[r])

(* The constants of the mesh, as its proofs use them. *)
LEMMA MeshConstants ==
  /\ IsFiniteSet(Job) /\ Amount \subseteq Nat /\ Limit \in Nat /\ MaxHeight \in Nat
  /\ Bodies \subseteq Mesh!Body /\ Funds \in [Mesh!Chain \X Address -> Nat]
BY MeshAssumption DEF Mesh!MeshAssumption, Mesh!IsFiniteSet, IsFiniteSet

(* The requests that have started are finitely many and no more than there *)
(* are.                                                                    *)
LEMMA StartedFinite ==
  ASSUME NEW q
  PROVE  /\ IsFiniteSet(Started(q)) /\ Cardinality(Started(q)) \in Nat
         /\ Cardinality(Job) \in Nat /\ Cardinality(Started(q)) <= Cardinality(Job)
<1>1. Started(q) \in SUBSET Job
  BY DEF Started
<1> QED
  BY <1>1, MeshConstants, FS_Subset, FS_CardinalityType

(* The validator starts in the invariant. *)
LEMMA MeshInit == Mesh!Init => MeshInv
<1> SUFFICES ASSUME Mesh!Init PROVE MeshInv
  OBVIOUS
<1>1. /\ x_height \in [Mesh!Chain -> 0..MaxHeight]
      /\ x_balance \in [Mesh!Chain \X Address -> Nat]
      /\ x_credited \in [Job -> {0, 1}]
      /\ x_bucket \in [count : Nat, late : BOOLEAN]
      /\ x_bucket.count = 0
      /\ DOMAIN x_loop = {"pc", "seen", "n"} /\ x_loop.pc \in {"read", "eto", "eth"}
      /\ DOMAIN x_reqs = Job
  BY MeshConstants DEF Mesh!Init
<1>2. \A r \in Job : x_reqs[r].pc = "idle" /\ x_credited[r] = 0
  BY DEF Mesh!Init, Mesh!Idle
<1>3. \A r \in Job : ReqOk(x_reqs[r], MadeFor(x_attestations, r), x_height, x_credited[r])
  BY <1>2 DEF ReqOk
<1>4. x_bucket.count <= Cardinality(Started(x_reqs))
  BY <1>1, StartedFinite
<1> QED
  BY <1>1, <1>3, <1>4 DEF MeshInv

(***************************************************************************)
(* Blocks and attestations are only added, so what was evidence stays.     *)
(***************************************************************************)
LEMMA ReqMonotone ==
  ASSUME NEW q, NEW A, NEW B, NEW h, NEW k, NEW cr, ReqOk(q, A, h, cr), A \subseteq B,
         \A c \in Mesh!Chain : h[c] \in Nat /\ k[c] \in Nat /\ h[c] <= k[c]
  PROVE  ReqOk(q, B, k, cr)
<1>1. ASSUME Balance(A, q, h) PROVE Balance(B, q, k)
  <2>1. ReadFrom(q) \in Mesh!Chain
    BY DEF ReadFrom, Mesh!ReadOn, Mesh!Chain
  <2> HIDE DEF ReadFrom
  <2> QED
    BY <1>1, <2>1 DEF Balance
<1>2. Evidence(A, q) => Evidence(B, q)
  BY DEF Evidence
<1> QED
  BY <1>1, <1>2 DEF ReqOk

(* What a balance attestation says of its chain, its block and its data. *)
LEMMA BalanceFields ==
  ASSUME NEW c, NEW n, NEW adr, NEW bal
  PROVE  /\ Mesh!createBalanceAttestation(c, adr, bal, n).type = "balance"
         /\ Mesh!createBalanceAttestation(c, adr, bal, n).sourceChain = c
         /\ Mesh!createBalanceAttestation(c, adr, bal, n).data =
              [address |-> adr, balance |-> bal]
         /\ Mesh!createBalanceAttestation(c, adr, bal, n).sourceBlock = n
BY DEF Mesh!createBalanceAttestation, Mesh!Attested

(* What a state attestation says of its chains and its block. *)
LEMMA StateFields ==
  ASSUME NEW c, NEW n, NEW dest
  PROVE  /\ Mesh!createStateAttestation(c, n, dest).type = "state"
         /\ Mesh!createStateAttestation(c, n, dest).sourceChain = c
         /\ Mesh!createStateAttestation(c, n, dest).destChain = dest
         /\ Mesh!createStateAttestation(c, n, dest).sourceBlock = n
BY DEF Mesh!createStateAttestation, Mesh!Attested

(* Attestations that are stored stay those of their request. *)
LEMMA MadeGrows ==
  ASSUME NEW A, NEW B, A \subseteq B
  PROVE  \A r : MadeFor(A, r) \subseteq MadeFor(B, r)
BY DEF MadeFor

Stores(A, B, who, what) == B = A \cup {[for |-> who, att |-> what]}

(* What is stored for a request is among those made for it. *)
LEMMA MadeStored ==
  ASSUME NEW A, NEW B, NEW who, NEW what, Stores(A, B, who, what)
  PROVE  A \subseteq B /\ what \in MadeFor(B, who) /\ MadeFor(A, who) \subseteq MadeFor(B, who)
<1> DEFINE x == [for |-> who, att |-> what]
<1>1. x.att = what /\ x.for = who
  OBVIOUS
<1>2. B = A \cup {x}
  BY DEF Stores
<1> HIDE DEF x
<1> QED
  BY <1>1, <1>2 DEF MadeFor

(***************************************************************************)
(* A step of one request r that has started: the others keep what they     *)
(* have, so only r is to be looked at.                                     *)
(***************************************************************************)
LEMMA MeshRequest ==
  ASSUME MeshInv, NEW r \in Job, x_reqs[r].pc # "idle",
         x_height' = x_height, x_bucket' = x_bucket, x_loop' = x_loop,
         x_balance' \in [Mesh!Chain \X Address -> Nat],
         x_attestations \subseteq x_attestations',
         DOMAIN x_reqs' = Job, DOMAIN x_credited' = Job, x_credited' \in [Job -> {0, 1}],
         \A q \in Job \ {r} : x_reqs'[q] = x_reqs[q] /\ x_credited'[q] = x_credited[q],
         x_reqs'[r].pc # "idle",
         ReqOk(x_reqs'[r], MadeFor(x_attestations', r), x_height', x_credited'[r])
  PROVE  MeshInv'
<1>1. Started(x_reqs') = Started(x_reqs)
  BY DEF Started
<1>2. \A c \in Mesh!Chain : x_height[c] \in Nat /\ x_height[c] <= x_height[c]
  BY MeshConstants DEF MeshInv
<1>3. \A q \in Job \ {r} : ReqOk(x_reqs'[q], MadeFor(x_attestations', q), x_height', x_credited'[q])
  BY <1>2, MadeGrows, ReqMonotone DEF MeshInv
<1> QED
  BY <1>1, <1>3 DEF MeshInv

(***************************************************************************)
(* A step that leaves the requests alone.                                  *)
(***************************************************************************)
LEMMA MeshElsewhere ==
  ASSUME MeshInv, x_reqs' = x_reqs, x_credited' = x_credited,
         x_height' \in [Mesh!Chain -> 0..MaxHeight],
         \A c \in Mesh!Chain : x_height[c] <= x_height'[c],
         x_balance' \in [Mesh!Chain \X Address -> Nat],
         x_attestations \subseteq x_attestations',
         x_bucket' \in [count : Nat, late : BOOLEAN], x_bucket'.count <= x_bucket.count,
         DOMAIN x_loop' = {"pc", "seen", "n"}, x_loop'.pc \in {"read", "eto", "eth"}
  PROVE  MeshInv'
<1>1. \A c \in Mesh!Chain :
        x_height[c] \in Nat /\ x_height'[c] \in Nat /\ x_height[c] <= x_height'[c]
  BY MeshConstants DEF MeshInv
<1>2. \A q \in Job : ReqOk(x_reqs'[q], MadeFor(x_attestations', q), x_height', x_credited'[q])
  BY <1>1, MadeGrows, ReqMonotone DEF MeshInv
<1>3. x_bucket'.count <= Cardinality(Started(x_reqs'))
  BY StartedFinite DEF MeshInv
<1> QED
  BY <1>2, <1>3 DEF MeshInv


(***************************************************************************)
(* A request arrives: one more has started, so the window may count it.    *)
(***************************************************************************)
LEMMA MeshArrive ==
  ASSUME MeshInv, NEW r \in Job, NEW body \in Bodies, NEW authorized \in BOOLEAN,
         Mesh!Arrive(r, body, authorized)
  PROVE  MeshInv'
<1>1. /\ x_reqs[r].pc = "idle"
      /\ x_bucket' = IF authorized THEN [count |-> Mesh!Counted, late |-> FALSE] ELSE x_bucket
      /\ x_height' = x_height /\ x_balance' = x_balance /\ x_attestations' = x_attestations
      /\ x_credited' = x_credited /\ x_loop' = x_loop
      /\ DOMAIN x_reqs' = Job
      /\ \A q \in Job \ {r} : x_reqs'[q] = x_reqs[q]
      /\ x_reqs'[r] =
           [pc |-> IF ~authorized \/ Mesh!Counted > Limit THEN "done"
                   ELSE IF body.path = "/attest" THEN "state" ELSE "balance",
            body |-> body, bal |-> 0,
            status |-> IF ~authorized THEN "401" ELSE IF Mesh!Counted > Limit THEN "429"
                       ELSE "pending"]
  BY DEF Mesh!Arrive, MeshInv
<1>2. Started(x_reqs') = Started(x_reqs) \cup {r} /\ r \notin Started(x_reqs)
  <2>1. x_reqs'[r].pc # "idle"
    BY <1>1
  <2> QED
    BY <1>1, <2>1 DEF Started
<1>3. Cardinality(Started(x_reqs')) = Cardinality(Started(x_reqs)) + 1
  BY <1>2, StartedFinite, FS_AddElement
<1>4. /\ x_bucket' \in [count : Nat, late : BOOLEAN]
      /\ x_bucket'.count <= Cardinality(Started(x_reqs'))
  BY <1>1, <1>3, StartedFinite DEF MeshInv, Mesh!Counted
<1>5. ReqOk(x_reqs'[r], MadeFor(x_attestations', r), x_height', x_credited'[r])
  <2>1. x_credited[r] = 0
    BY <1>1 DEF MeshInv, ReqOk
  <2>2. /\ x_reqs'[r].pc \in {"state", "balance", "done"}
        /\ x_reqs'[r].pc = "state" => body.path # "/transfer"
        /\ x_reqs'[r].pc # "done" => x_reqs'[r].status = "pending"
        /\ x_reqs'[r].status # "settled"
        /\ x_reqs'[r].body = body /\ x_reqs'[r].bal = 0 /\ DOMAIN x_reqs'[r] = ReqFields
    BY <1>1 DEF ReqFields
  <2> QED
    BY <1>1, <2>1, <2>2, MeshConstants DEF ReqOk
<1> QED
  BY <1>1, <1>4, <1>5 DEF MeshInv

(***************************************************************************)
(* The handler of a request, from its first RPC to its answer.             *)
(***************************************************************************)
LEMMA MeshHandler ==
  ASSUME MeshInv, NEW r \in Job,
         Mesh!RpcFails(r) \/ Mesh!ReadBalance(r) \/ Mesh!ReadBlock(r) \/ Mesh!AttestState(r)
  PROVE  MeshInv'
<1> DEFINE q == x_reqs[r]
<1>0. ReqOk(q, MadeFor(x_attestations, r), x_height, x_credited[r]) /\ x_balance \in [Mesh!Chain \X Address -> Nat]
  BY DEF MeshInv
<1>a. /\ DOMAIN x_credited = Job /\ x_credited \in [Job -> {0, 1}]
      /\ \A c \in Mesh!Chain : x_height[c] \in Nat
  BY MeshConstants DEF MeshInv
<1>b. q.pc # "idle" => /\ DOMAIN q = ReqFields /\ q.body \in Mesh!Body /\ q.bal \in Nat
                       /\ ReadFrom(q) \in Mesh!Chain
  BY <1>0 DEF ReqOk, ReadFrom, Mesh!ReadOn, Mesh!Chain
<1>1. CASE Mesh!RpcFails(r)
  <2>1. /\ q.pc \in {"balance", "block", "state"}
        /\ x_height' = x_height /\ x_balance' = x_balance /\ x_attestations' = x_attestations
        /\ x_credited' = x_credited /\ x_loop' = x_loop /\ x_bucket' = x_bucket
        /\ DOMAIN x_reqs' = Job
        /\ \A p \in Job \ {r} : x_reqs'[p] = x_reqs[p]
        /\ x_reqs'[r] = [q EXCEPT !.pc = "done"]
    BY <1>1 DEF Mesh!RpcFails, MeshInv
  <2>2. /\ DOMAIN x_reqs'[r] = ReqFields /\ x_reqs'[r].pc = "done"
        /\ x_reqs'[r].status = q.status /\ x_reqs'[r].body = q.body /\ x_reqs'[r].bal = q.bal
    BY <1>b, <2>1 DEF ReqFields
  <2>3. ReqOk(x_reqs'[r], MadeFor(x_attestations', r), x_height', x_credited'[r])
    BY <1>0, <2>1, <2>2 DEF ReqOk
  <2> QED
    BY <1>0, <1>a, <2>1, <2>2, <2>3, MeshRequest
<1>2. CASE Mesh!ReadBalance(r)
  <2>1. /\ q.pc = "balance"
        /\ x_height' = x_height /\ x_balance' = x_balance /\ x_attestations' = x_attestations
        /\ x_credited' = x_credited /\ x_loop' = x_loop /\ x_bucket' = x_bucket
        /\ DOMAIN x_reqs' = Job
        /\ \A p \in Job \ {r} : x_reqs'[p] = x_reqs[p]
        /\ x_reqs'[r] = [q EXCEPT !.bal = x_balance[<<ReadFrom(q), q.body.address>>], !.pc = "block"]
    BY <1>2 DEF Mesh!ReadBalance, MeshInv, Mesh!Source, ReadFrom
  <2>a. q.body.path # "/attest" /\ q.body.address \in Address
    BY <1>0, <1>b, <2>1 DEF ReqOk, Mesh!Body
  <2>2. /\ DOMAIN x_reqs'[r] = ReqFields /\ x_reqs'[r].pc = "block"
        /\ x_reqs'[r].status = q.status /\ x_reqs'[r].body = q.body /\ x_reqs'[r].bal \in Nat
    BY <1>0, <1>b, <2>1, <2>a DEF ReqFields
  <2>3. ReqOk(x_reqs'[r], MadeFor(x_attestations', r), x_height', x_credited'[r])
    BY <1>0, <2>1, <2>2 DEF ReqOk
  <2> QED
    BY <1>0, <1>a, <2>1, <2>2, <2>3, MeshRequest
<1>3. CASE Mesh!ReadBlock(r)
  <2>1. /\ q.pc = "block"
        /\ x_height' = x_height /\ x_balance' = x_balance
        /\ x_credited' = x_credited /\ x_loop' = x_loop /\ x_bucket' = x_bucket
        /\ DOMAIN x_reqs' = Job
        /\ \A p \in Job \ {r} : x_reqs'[p] = x_reqs[p]
    BY <1>3 DEF Mesh!ReadBlock, MeshInv
  <2> DEFINE b == Mesh!createBalanceAttestation(q.body.chain, q.body.address, q.bal,
                                                x_height[ReadFrom(q)])
             t == q.body.path = "/transfer"
  <2>2. CASE t => q.bal >= q.body.amount
    <3>1. /\ Stores(x_attestations, x_attestations', r, b)
          /\ x_reqs'[r] = [q EXCEPT !.pc = IF t THEN "state" ELSE "done",
                                    !.status = IF t THEN q.status ELSE "ok"]
      BY <1>3, <2>2 DEF Mesh!ReadBlock, MeshInv, Mesh!Covers, Mesh!Transfer, Mesh!Source,
         Mesh!storeAttestation, ReadFrom, Stores
    <3>a. /\ x_attestations \subseteq x_attestations'
          /\ b \in MadeFor(x_attestations', r)
      BY <3>1, MadeStored
    <3>2. /\ DOMAIN x_reqs'[r] = ReqFields /\ x_reqs'[r].pc = IF t THEN "state" ELSE "done"
          /\ x_reqs'[r].status = IF t THEN q.status ELSE "ok"
          /\ x_reqs'[r].body = q.body /\ x_reqs'[r].bal = q.bal
      BY <1>b, <2>1, <3>1 DEF ReqFields
    <3>3. Balance(MadeFor(x_attestations', r), q, x_height)
      <4>1. /\ b.type = "balance" /\ b.sourceChain = q.body.chain /\ b.data = BalanceJudged(q)
            /\ b.sourceBlock = x_height[ReadFrom(q)]
        BY BalanceFields DEF BalanceJudged
      <4> HIDE DEF b
      <4> QED
        BY <1>a, <1>b, <2>1, <3>a, <4>1 DEF Balance
    <3>b. Balance(MadeFor(x_attestations', r), x_reqs'[r], x_height)
      BY <3>2, <3>3 DEF Balance, BalanceJudged, ReadFrom
    <3>4. ReqOk(x_reqs'[r], MadeFor(x_attestations', r), x_height', x_credited'[r])
      BY <1>0, <1>b, <2>1, <2>2, <3>2, <3>b DEF ReqOk
    <3> QED
      BY <1>0, <1>a, <2>1, <3>a, <3>2, <3>4, MeshRequest
  <2>3. CASE ~(t => q.bal >= q.body.amount)
    <3>1. /\ x_attestations' = x_attestations
          /\ x_reqs'[r] = [q EXCEPT !.pc = "done", !.status = "failed"]
      BY <1>3, <2>3 DEF Mesh!ReadBlock, MeshInv, Mesh!Covers, Mesh!Transfer
    <3>2. /\ DOMAIN x_reqs'[r] = ReqFields /\ x_reqs'[r].pc = "done"
          /\ x_reqs'[r].status = "failed"
          /\ x_reqs'[r].body = q.body /\ x_reqs'[r].bal \in Nat
      BY <1>b, <2>1, <3>1 DEF ReqFields
    <3>3. ReqOk(x_reqs'[r], MadeFor(x_attestations', r), x_height', x_credited'[r])
      BY <1>0, <2>1, <3>1, <3>2 DEF ReqOk
    <3> QED
      BY <1>0, <1>a, <2>1, <3>1, <3>2, <3>3, MeshRequest
  <2> QED
    BY <2>2, <2>3
<1>4. CASE Mesh!AttestState(r)
  <2> DEFINE t == q.body.path = "/transfer"
             d == IF t THEN q.body.to ELSE Mesh!Other(ReadFrom(q))
             s == Mesh!createStateAttestation(ReadFrom(q), x_height[ReadFrom(q)], d)
  <2>1. /\ q.pc = "state"
        /\ x_height' = x_height /\ x_balance' = x_balance
        /\ x_credited' = x_credited /\ x_loop' = x_loop /\ x_bucket' = x_bucket
        /\ DOMAIN x_reqs' = Job
        /\ \A p \in Job \ {r} : x_reqs'[p] = x_reqs[p]
        /\ Stores(x_attestations, x_attestations', r, s)
        /\ x_reqs'[r] = [q EXCEPT !.pc = IF t THEN "credit" ELSE "done",
                                  !.status = IF t THEN q.status ELSE "ok"]
    BY <1>4 DEF Mesh!AttestState, MeshInv, Mesh!Transfer, Mesh!Source, Mesh!storeAttestation,
       ReadFrom, Stores
  <2>a. /\ x_attestations \subseteq x_attestations'
        /\ s \in MadeFor(x_attestations', r)
        /\ MadeFor(x_attestations, r) \subseteq MadeFor(x_attestations', r)
    BY <2>1, MadeStored
  <2>2. /\ DOMAIN x_reqs'[r] = ReqFields /\ x_reqs'[r].pc = IF t THEN "credit" ELSE "done"
        /\ x_reqs'[r].status = IF t THEN q.status ELSE "ok"
        /\ x_reqs'[r].body = q.body /\ x_reqs'[r].bal = q.bal
    BY <1>b, <2>1 DEF ReqFields
  <2>3. ASSUME t PROVE /\ Balance(MadeFor(x_attestations', r), x_reqs'[r], x_height)
                       /\ Evidence(MadeFor(x_attestations', r), x_reqs'[r])
                       /\ q.bal >= q.body.amount
    <3>1. Balance(MadeFor(x_attestations, r), q, x_height) /\ q.bal >= q.body.amount
      BY <1>0, <2>1, <2>3 DEF ReqOk
    <3>2. s.type = "state" /\ s.sourceChain = ReadFrom(q) /\ s.destChain = q.body.to
            /\ s.sourceBlock = x_height[ReadFrom(q)]
      <4> HIDE DEF d
      <4>1. s.type = "state" /\ s.sourceChain = ReadFrom(q) /\ s.destChain = d
              /\ s.sourceBlock = x_height[ReadFrom(q)]
        BY StateFields
      <4>2. d = q.body.to
        BY <2>3 DEF d
      <4> QED
        BY <4>1, <4>2
    <3>3. ReadFrom(x_reqs'[r]) = ReadFrom(q) /\ BalanceJudged(x_reqs'[r]) = BalanceJudged(q)
      BY <2>2 DEF ReadFrom, BalanceJudged
    <3>4. PICK a \in MadeFor(x_attestations, r) :
            /\ a.type = "balance" /\ a.sourceChain = q.body.chain /\ a.data = BalanceJudged(q)
            /\ a.sourceBlock \in Nat /\ a.sourceBlock <= x_height[ReadFrom(q)]
      BY <3>1 DEF Balance
    <3>5. s \in MadeFor(x_attestations', r) /\ a \in MadeFor(x_attestations', r)
      BY <2>a
    <3>6. s.sourceBlock >= a.sourceBlock
      BY <1>a, <1>b, <2>1, <3>2, <3>4
    <3> HIDE DEF s
    <3> QED
      BY <2>2, <3>1, <3>2, <3>3, <3>4, <3>5, <3>6 DEF Balance, Evidence
  <2>4. ReqOk(x_reqs'[r], MadeFor(x_attestations', r), x_height', x_credited'[r])
    BY <1>0, <1>b, <2>1, <2>2, <2>3 DEF ReqOk
  <2> QED
    BY <1>0, <1>a, <2>1, <2>a, <2>2, <2>4, MeshRequest
<1> QED
  BY <1>1, <1>2, <1>3, <1>4

(* A credit, whether it lands and whether its reply arrives, follows an *)
(* attestation.                                                         *)
LEMMA MeshCredit ==
  ASSUME MeshInv, NEW r \in Job, NEW lands \in BOOLEAN, NEW replies \in BOOLEAN,
         Mesh!Credit(r, lands, replies)
  PROVE  MeshInv'
<1> DEFINE q == x_reqs[r]
<1>0. ReqOk(q, MadeFor(x_attestations, r), x_height, x_credited[r]) /\ x_balance \in [Mesh!Chain \X Address -> Nat]
  BY DEF MeshInv
<1>1. /\ q.pc = "credit" /\ (replies => lands)
      /\ x_height' = x_height /\ x_attestations' = x_attestations
      /\ x_loop' = x_loop /\ x_bucket' = x_bucket
      /\ DOMAIN x_reqs' = Job
      /\ \A p \in Job \ {r} : x_reqs'[p] = x_reqs[p]
      /\ x_reqs'[r] = [q EXCEPT !.pc = "done", !.status = IF replies THEN "settled" ELSE "failed"]
  BY DEF Mesh!Credit, MeshInv
<1>2. /\ q.body \in Mesh!Body /\ q.body.path = "/transfer" /\ q.bal \in Nat
      /\ x_credited[r] = 0 /\ DOMAIN q = ReqFields
  BY <1>0, <1>1 DEF ReqOk
<1> DEFINE at == <<Mesh!CreditedOn(q.body.to), q.body.dest>>
<1>3. at \in Mesh!Chain \X Address /\ q.body.amount \in Nat
  BY <1>2, MeshConstants DEF Mesh!Body, Mesh!CreditedOn, Mesh!Chain
<1>4. /\ DOMAIN x_reqs'[r] = ReqFields /\ x_reqs'[r].pc = "done"
      /\ x_reqs'[r].status = IF replies THEN "settled" ELSE "failed"
      /\ x_reqs'[r].body = q.body /\ x_reqs'[r].bal = q.bal
  BY <1>1, <1>2 DEF ReqFields
<1>5. /\ x_credited' = IF lands THEN [x_credited EXCEPT ![r] = @ + 1] ELSE x_credited
      /\ x_balance' = IF lands THEN [x_balance EXCEPT ![at] = @ + q.body.amount]
                      ELSE x_balance
  BY DEF Mesh!Credit
<1>6. x_balance' \in [Mesh!Chain \X Address -> Nat]
  <2> HIDE DEF at
  <2> QED
    BY <1>0, <1>3, <1>5
<1>7. /\ x_credited' \in [Job -> {0, 1}] /\ DOMAIN x_credited' = Job
      /\ x_credited'[r] = IF lands THEN 1 ELSE 0
      /\ \A p \in Job \ {r} : x_credited'[p] = x_credited[p]
  BY <1>2, <1>5 DEF MeshInv
<1>a. Evidence(MadeFor(x_attestations', r), x_reqs'[r]) /\ q.bal >= q.body.amount
  BY <1>0, <1>1, <1>2, <1>4 DEF ReqOk, Evidence, ReadFrom, BalanceJudged
<1>8. ReqOk(x_reqs'[r], MadeFor(x_attestations', r), x_height', x_credited'[r])
  BY <1>1, <1>2, <1>4, <1>7, <1>a DEF ReqOk
<1> QED
  BY <1>1, <1>4, <1>6, <1>7, <1>8, MeshRequest

(* Every step of the validator, the chains and the bridge keeps the *)
(* invariant.                                                       *)
LEMMA MeshStep == MeshInv /\ [Mesh!Next]_Mesh!vars => MeshInv'
<1> SUFFICES ASSUME MeshInv, [Mesh!Next]_Mesh!vars PROVE MeshInv'
  OBVIOUS
<1>0. /\ x_height \in [Mesh!Chain -> 0..MaxHeight] /\ x_balance \in [Mesh!Chain \X Address -> Nat]
      /\ x_bucket \in [count : Nat, late : BOOLEAN]
      /\ \A c \in Mesh!Chain : x_height[c] \in Nat /\ x_height[c] <= x_height[c]
      /\ DOMAIN x_loop = {"pc", "seen", "n"} /\ x_loop.pc \in {"read", "eto", "eth"}
      /\ x_bucket.count <= x_bucket.count
  BY MeshConstants DEF MeshInv
<1>1. CASE Mesh!LoopRead
  <2>1. DOMAIN x_loop' = {"pc", "seen", "n"} /\ x_loop'.pc = "eto"
    BY <1>1 DEF Mesh!LoopRead
  <2> QED
    BY <1>0, <1>1, <2>1, MeshElsewhere DEF Mesh!LoopRead
<1>2. ASSUME NEW c \in Mesh!Chain, Mesh!LoopAttest(c) PROVE MeshInv'
  <2>1. /\ DOMAIN x_loop' = {"pc", "seen", "n"} /\ x_loop'.pc \in {"eth", "read"}
        /\ x_attestations \subseteq x_attestations'
    BY <1>0, <1>2 DEF Mesh!LoopAttest, Mesh!storeAttestation
  <2> QED
    BY <1>0, <1>2, <2>1, MeshElsewhere DEF Mesh!LoopAttest
<1>3. ASSUME NEW c \in Mesh!Chain, Mesh!NewBlock(c) PROVE MeshInv'
  <2>1. /\ x_height[c] < MaxHeight /\ x_height' = [x_height EXCEPT ![c] = @ + 1]
        /\ x_balance' = x_balance /\ x_reqs' = x_reqs /\ x_credited' = x_credited
        /\ x_attestations' = x_attestations /\ x_bucket' = x_bucket /\ x_loop' = x_loop
    BY <1>3 DEF Mesh!NewBlock
  <2>2. /\ x_height' \in [Mesh!Chain -> 0..MaxHeight]
        /\ \A d \in Mesh!Chain : x_height[d] <= x_height'[d]
    BY <1>0, <2>1, MeshConstants
  <2> QED
    BY <1>0, <2>1, <2>2, MeshElsewhere
<1>4. ASSUME NEW at \in Mesh!Chain \X Address, Mesh!Spend(at) PROVE MeshInv'
  <2>1. x_balance' \in [Mesh!Chain \X Address -> Nat]
    BY <1>0, <1>4 DEF Mesh!Spend
  <2> QED
    BY <1>0, <1>4, <2>1, MeshElsewhere DEF Mesh!Spend
<1>5. CASE Mesh!MinutePasses
  <2>1. x_bucket' \in [count : Nat, late : BOOLEAN] /\ x_bucket'.count = x_bucket.count
    BY <1>0, <1>5 DEF Mesh!MinutePasses
  <2>2. x_bucket'.count <= x_bucket.count
    BY <1>0, <2>1
  <2> QED
    BY <1>0, <1>5, <2>1, <2>2, MeshElsewhere DEF Mesh!MinutePasses
<1>6. CASE UNCHANGED Mesh!vars
  BY <1>0, <1>6, MeshElsewhere DEF Mesh!vars
<1> QED
  BY <1>1, <1>2, <1>3, <1>4, <1>5, <1>6, MeshArrive, MeshHandler, MeshCredit DEF Mesh!Next

(* The invariant gives the types and that every credit was attested. *)
LEMMA MeshImplies == MeshInv => Mesh!TypeOK /\ Mesh!CreditAttested
<1> SUFFICES ASSUME MeshInv PROVE Mesh!TypeOK /\ Mesh!CreditAttested
  OBVIOUS
<1>1. Mesh!Cardinality(Job) = Cardinality(Job)
  BY DEF Mesh!Cardinality, Cardinality
<1>2. x_bucket \in [count : 0..Limit + Mesh!Cardinality(Job), late : BOOLEAN]
  <2>1. x_bucket.count \in 0..Limit + Mesh!Cardinality(Job)
    BY <1>1, MeshConstants, StartedFinite DEF MeshInv
  <2> QED
    BY <2>1 DEF MeshInv
<1>3. Mesh!TypeOK
  BY <1>2 DEF MeshInv, Mesh!TypeOK, ReqOk
<1>4. Mesh!CreditAttested
  <2>1. \A r \in Job :
          /\ x_credited[r] <= 1
          /\ x_reqs[r].pc = "done" /\ x_reqs[r].status = "settled" => x_credited[r] = 1
          /\ x_credited[r] = 1 => /\ Evidence(MadeFor(x_attestations, r), x_reqs[r])
                                  /\ x_reqs[r].bal >= x_reqs[r].body.amount
    BY DEF MeshInv, ReqOk
  <2> QED
    BY <2>1, Zenon DEF Evidence, MadeFor, BalanceJudged, ReadFrom, Mesh!CreditAttested, Mesh!Source
<1> QED
  BY <1>3, <1>4

(***************************************************************************)
(* The validator's transfers, for any requests, amounts, limit and chain   *)
(* heights and any interleaving of requests, blocks and spending: a credit *)
(* lands at most once, after an attestation stored for its request of the  *)
(* balance that was judged, which covers it, and a state attestation of    *)
(* the chain that was read, no older than that (mesh/validator.ts).        *)
(***************************************************************************)
THEOREM MeshCreditsAttested == Mesh!Spec => [](Mesh!TypeOK /\ Mesh!CreditAttested)
BY MeshInit, MeshStep, MeshImplies, PTL DEF Mesh!Spec

(***************************************************************************)
(* The same for the run of Gateway.                                        *)
(***************************************************************************)
THEOREM GatewayCreditAttested == GatewaySpec => []CreditAttested
<1> DEFINE Inv == part = "mesh" => MeshInv
<1>1. GatewayInit => Inv
  BY MeshInit DEF GatewayInit
<1>2. Inv /\ [GatewayNext]_all => Inv'
  BY PartStep, MeshStep
<1>3. Inv => CreditAttested
  BY MeshImplies DEF CreditAttested
<1> QED
  BY <1>1, <1>2, <1>3, PTL DEF GatewaySpec


-----------------------------------------------------------------------------
(* The wallet files.                                                       *)

SaverFields == {"pc", "snap", "fd"}
Busy == {"open", "write", "rename"}

(***************************************************************************)
(* A save v: while it runs alone, what it opened is the tmp file, nobody   *)
(* else writes there, and its snapshot has all that must not be lost.      *)
(***************************************************************************)
SaverOk(v, tm, d, ack, leg) ==
  /\ DOMAIN v = SaverFields
  /\ v.pc \in {"idle", "wait", "done", "failed"} \cup Busy
  /\ v.snap.wallets \subseteq Job \cup Legacy
  /\ v.pc \in {"write", "rename"} => v.fd = tm /\ tm \in Inodes
  /\ v.pc \notin {"write", "rename"} => v.fd = None
  /\ v.pc = "write" => d[tm].wallets = {}
  /\ v.pc = "rename" => d[tm] = v.snap
  /\ v.pc \in Busy => ack \subseteq v.snap.wallets /\ (leg \/ Legacy \subseteq v.snap.wallets)

(***************************************************************************)
(* The store as long as no two saves overlapped and none was blind: at     *)
(* most one runs, the load comes before all others, and once it is over    *)
(* the map has what was answered and what the legacy file no longer has,   *)
(* or it has missed the file and nothing was saved since.                  *)
(***************************************************************************)
Alone ==
  /\ DOMAIN w_saver = Wallets!Savers
  /\ DOMAIN w_data = Inodes
  /\ \A i \in Inodes : w_data[i].wallets \subseteq Job \cup Legacy
  /\ w_mem \subseteq Job \cup Legacy
  /\ w_file \in Inodes \cup {None} /\ w_tmp \in Inodes \cup {None}
  /\ w_tmp # None => w_tmp # w_file
  /\ \A s \in Wallets!Savers : SaverOk(w_saver[s], w_tmp, w_data, w_acked, w_legacy)
  /\ \A s \in Wallets!Savers :
       w_saver[s].pc \in Busy /\ s \in Job => s \in w_saver[s].snap.wallets /\ s \in w_mem
  /\ \A s, t \in Wallets!Savers : w_saver[s].pc \in Busy /\ w_saver[t].pc \in Busy => s = t
  /\ w_load \in {"none", "stat", "migrate", "read", "done", "blind"}
  /\ w_load \in {"none", "stat", "read", "blind"} => \A s \in Wallets!Savers : w_saver[s].pc \notin Busy
  /\ w_load = "migrate" =>
       /\ \A s \in Wallets!Savers :
            w_saver[s].pc \in Busy =>
              s = "migration" /\ Legacy \subseteq w_saver[s].snap.wallets
       /\ w_saver["migration"].pc # "done" => w_file = None
       /\ w_saver["migration"].pc = "done" => Legacy \subseteq Wallets!Saved
  /\ w_load = "done" => w_acked \subseteq w_mem /\ (w_legacy \/ Legacy \subseteq w_mem)
  /\ w_acked \subseteq Wallets!Saved
  /\ w_legacy \/ Legacy \subseteq Wallets!Saved

WalletsInv ==
  /\ w_overlapped \in BOOLEAN /\ w_blind \in BOOLEAN
  /\ ~w_overlapped /\ ~w_blind => Alone

(* The constants of the wallet store, as its proofs use them. *)
LEMMA WalletsConstants ==
  /\ IsFiniteSet(Job) /\ IsFiniteSet(Legacy) /\ IsFiniteSet(Inodes)
  /\ Cardinality(Inodes) > Cardinality(Job) + 3
  /\ None \notin Inodes
  /\ "migration" \notin Job /\ "resave" \notin Job
<1>1. \A S : Wallets!Cardinality(S) = Cardinality(S)
  BY DEF Wallets!Cardinality, Cardinality
<1> QED
  BY <1>1, WalletsAssumption DEF Wallets!InodesAssumption, Wallets!IsFiniteSet, IsFiniteSet

(***************************************************************************)
(* There is an inode besides the wallet file's.                            *)
(***************************************************************************)
LEMMA InodeLeft == ASSUME NEW f PROVE \E i \in Inodes : i # f
<1>1. IsFiniteSet({f}) /\ Cardinality({f}) = 1
  BY FS_Singleton
<1>2. Cardinality(Job) \in Nat /\ Cardinality(Inodes) \in Nat
  BY WalletsConstants, FS_CardinalityType
<1>3. ASSUME Inodes \subseteq {f} PROVE FALSE
  BY <1>1, <1>2, <1>3, WalletsConstants, FS_Subset
<1> QED
  BY <1>3

(***************************************************************************)
(* A payload of wallets is no shorter than an empty file.                  *)
(***************************************************************************)
LEMMA PayloadFits ==
  ASSUME NEW W, W \subseteq Job \cup Legacy
  PROVE  ~(Wallets!Cardinality({}) > Wallets!Cardinality(W))
<1>1. \A S : Wallets!Cardinality(S) = Cardinality(S)
  BY DEF Wallets!Cardinality, Cardinality
<1>2. IsFiniteSet(Job \cup Legacy)
  BY WalletsConstants, FS_Union
<1>3. Cardinality(W) \in Nat /\ Cardinality({}) = 0
  BY <1>2, FS_Subset, FS_CardinalityType, FS_EmptySet
<1> QED
  BY <1>1, <1>3

(* The wallet store starts in the invariant. *)
LEMMA WalletsInit == Wallets!Init => WalletsInv
<1> SUFFICES ASSUME Wallets!Init PROVE Alone /\ w_overlapped = FALSE /\ w_blind = FALSE
  BY DEF WalletsInv
<1>1. \A s \in Wallets!Savers :
        w_saver[s] = [pc |-> "idle", snap |-> Wallets!Partial, fd |-> None]
  BY DEF Wallets!Init, Wallets!NoSave
<1>2. \A s \in Wallets!Savers : SaverOk(w_saver[s], w_tmp, w_data, w_acked, w_legacy)
  BY <1>1 DEF SaverOk, SaverFields, Wallets!Partial, Busy
<1>3. \A i \in Inodes : w_data[i].wallets \subseteq Job \cup Legacy
  BY DEF Wallets!Init, Wallets!Partial
<1>4. w_legacy \/ Legacy = {}
  BY Zenon DEF Wallets!Init
<1>5. w_acked = {} /\ Wallets!Saved = {} /\ w_overlapped = FALSE /\ w_blind = FALSE
  BY DEF Wallets!Init, Wallets!Saved
<1>6. /\ DOMAIN w_saver = Wallets!Savers /\ DOMAIN w_data = Inodes
      /\ w_file = None /\ w_tmp = None /\ w_load = "none" /\ w_mem = {}
  BY DEF Wallets!Init
<1>7. \A s \in Wallets!Savers : w_saver[s].pc \notin Busy
  BY <1>1 DEF Busy
<1> QED
  BY <1>2, <1>3, <1>4, <1>5, <1>6, <1>7 DEF Alone

(***************************************************************************)
(* Where the saves stand after one of them, s, changed to v.               *)
(***************************************************************************)
LEMMA Disjoint == "migration" \in Wallets!Savers /\ "resave" \in Wallets!Savers
                    /\ Job \subseteq Wallets!Savers
BY DEF Wallets!Savers

(* A request that arrives keeps the state of a lone caller. *)
LEMMA WalletsCall ==
  ASSUME Alone, NEW c \in Job, Wallets!Call(c)
  PROVE  Alone'
<1>1. /\ w_saver[c].pc = "idle"
      /\ w_saver' = [w_saver EXCEPT ![c].pc = "wait"]
      /\ w_load' = IF w_load = "none" THEN "stat" ELSE w_load
      /\ w_mem' = w_mem /\ w_file' = w_file /\ w_tmp' = w_tmp /\ w_data' = w_data
      /\ w_legacy' = w_legacy /\ w_acked' = w_acked
  BY DEF Wallets!Call
<1>2. /\ DOMAIN w_saver' = Wallets!Savers
      /\ \A s \in Wallets!Savers \ {c} : w_saver'[s] = w_saver[s]
      /\ w_saver'[c] = [w_saver[c] EXCEPT !.pc = "wait"]
  BY <1>1, Disjoint DEF Alone
<1>3. /\ DOMAIN w_saver'[c] = SaverFields /\ w_saver'[c].pc = "wait"
      /\ w_saver'[c].snap = w_saver[c].snap /\ w_saver'[c].fd = w_saver[c].fd
  BY <1>2, Disjoint DEF Alone, SaverOk, SaverFields
<1>4. \A s \in Wallets!Savers : SaverOk(w_saver'[s], w_tmp', w_data', w_acked', w_legacy')
  BY <1>1, <1>2, <1>3, Disjoint DEF Alone, SaverOk, Busy
<1>5. \A s \in Wallets!Savers :
        w_saver'[s].pc \in Busy => w_saver'[s] = w_saver[s] /\ w_saver[s].pc \in Busy
  BY <1>2, <1>3 DEF Busy
<1>6. w_saver'["migration"] = w_saver["migration"]
  BY <1>2, Disjoint, WalletsConstants
<1>7. Wallets!Saved' = Wallets!Saved
  BY <1>1 DEF Wallets!Saved
<1> QED
  BY <1>1, <1>2, <1>4, <1>5, <1>6, <1>7 DEF Alone

(***************************************************************************)
(* A save starts: it is the only one if the step is not an overlap.        *)
(***************************************************************************)
LEMMA WalletsStart ==
  ASSUME Alone, NEW s \in Wallets!Savers, NEW ws, NEW form, Wallets!StartSave(s, ws, form),
         ~w_overlapped', ws \subseteq Job \cup Legacy,
         w_acked \subseteq ws, w_legacy \/ Legacy \subseteq ws,
         w_tmp' = w_tmp, w_data' = w_data, w_acked' = w_acked, w_legacy' = w_legacy
  PROVE  /\ DOMAIN w_saver' = Wallets!Savers
         /\ w_saver'[s].pc = "open" /\ w_saver'[s].snap.wallets = ws
         /\ \A t \in Wallets!Savers \ {s} : w_saver'[t] = w_saver[t]
         /\ \A t \in Wallets!Savers : w_saver'[t].pc \in Busy => t = s
         /\ \A t \in Wallets!Savers :
              SaverOk(w_saver'[t], w_tmp', w_data', w_acked', w_legacy')
<1>1. /\ w_saver' = [w_saver EXCEPT ![s] = [pc |-> "open", fd |-> None,
                                            snap |-> [wallets |-> ws, form |-> form]]]
      /\ Wallets!Saving = {}
  BY DEF Wallets!StartSave
<1>2. /\ DOMAIN w_saver' = Wallets!Savers
      /\ w_saver'[s] = [pc |-> "open", fd |-> None, snap |-> [wallets |-> ws, form |-> form]]
      /\ \A t \in Wallets!Savers \ {s} : w_saver'[t] = w_saver[t]
  BY <1>1 DEF Alone
<1>3. \A t \in Wallets!Savers : w_saver[t].pc \notin Busy
  BY <1>1 DEF Wallets!Saving, Busy
<1>4. SaverOk(w_saver'[s], w_tmp', w_data', w_acked', w_legacy')
  BY <1>2 DEF SaverOk, SaverFields, Busy
<1> QED
  BY <1>2, <1>3, <1>4 DEF Alone


(* Looking for a legacy file keeps the state of a lone caller. *)
LEMMA WalletsStat ==
  ASSUME Alone, Wallets!Stat, ~w_overlapped', ~w_blind'
  PROVE  Alone'
<1>1. /\ w_load = "stat"
      /\ w_mem' = w_mem /\ w_file' = w_file /\ w_tmp' = w_tmp /\ w_data' = w_data
      /\ w_legacy' = w_legacy /\ w_acked' = w_acked
  BY DEF Wallets!Stat
<1>2. Wallets!Saved' = Wallets!Saved
  BY <1>1 DEF Wallets!Saved
<1>3. CASE /\ w_file = None /\ w_load' = "migrate"
           /\ Wallets!StartSave("migration", Legacy, "old")
  <2>1. w_acked = {}
    BY <1>3 DEF Alone, Wallets!Saved
  <2>2. /\ DOMAIN w_saver' = Wallets!Savers
        /\ w_saver'["migration"].pc = "open" /\ w_saver'["migration"].snap.wallets = Legacy
        /\ \A t \in Wallets!Savers : w_saver'[t].pc \in Busy => t = "migration"
        /\ \A t \in Wallets!Savers :
             SaverOk(w_saver'[t], w_tmp', w_data', w_acked', w_legacy')
    BY <1>1, <1>3, <2>1, WalletsStart, Disjoint
  <2> QED
    BY <1>1, <1>2, <1>3, <2>2, WalletsConstants DEF Alone
<1>4. CASE w_load' = "read" /\ w_saver' = w_saver
  BY <1>1, <1>2, <1>4 DEF Alone
<1> QED
  BY <1>3, <1>4 DEF Wallets!Stat

(* A save of the migration that failed leaves the load over, and no file. *)
LEMMA WalletsNotMigrated ==
  ASSUME Alone, Wallets!Migrated, w_saver["migration"].pc = "failed"
  PROVE  Alone'
<1>1. /\ w_load = "migrate"
      /\ w_mem' = w_mem /\ w_file' = w_file /\ w_tmp' = w_tmp /\ w_data' = w_data
      /\ w_saver' = w_saver /\ w_acked' = w_acked /\ w_legacy' = w_legacy
      /\ w_load' = Wallets!Nothing
  BY DEF Wallets!Migrated
<1>2. Wallets!Saved' = Wallets!Saved
  BY <1>1 DEF Wallets!Saved
<1>3. w_file = None /\ w_load' = "done" /\ Wallets!Saved = {}
  BY <1>1 DEF Alone, Wallets!Nothing, Wallets!Saved
<1>4. \A s \in Wallets!Savers : w_saver[s].pc \notin Busy
  BY <1>1 DEF Alone, Busy
<1> QED
  BY <1>1, <1>2, <1>3, <1>4 DEF Alone

(* The end of the migration keeps the state of a lone caller. *)
LEMMA WalletsMigrated ==
  ASSUME Alone, Wallets!Migrated, w_saver["migration"].pc # "failed"
  PROVE  Alone'
<1>1. /\ w_load = "migrate"
      /\ w_mem' = w_mem /\ w_file' = w_file /\ w_tmp' = w_tmp /\ w_data' = w_data
      /\ w_saver' = w_saver /\ w_acked' = w_acked
  BY DEF Wallets!Migrated
<1>2. Wallets!Saved' = Wallets!Saved
  BY <1>1 DEF Wallets!Saved
<1>3. w_saver["migration"].pc = "done" /\ w_load' = "read" /\ w_legacy' \in BOOLEAN
  BY <1>1 DEF Wallets!Migrated, Alone
<1>4. Legacy \subseteq Wallets!Saved
  BY <1>1, <1>3 DEF Alone
<1>5. \A s \in Wallets!Savers : w_saver[s].pc \notin Busy
  BY <1>1, <1>3 DEF Alone, Busy
<1>6. \A s \in Wallets!Savers : SaverOk(w_saver'[s], w_tmp', w_data', w_acked', w_legacy')
  BY <1>1, <1>5 DEF Alone, SaverOk
<1> QED
  BY <1>1, <1>2, <1>3, <1>4, <1>5, <1>6 DEF Alone

(* A load that finds nothing, whether or not there is a file. *)
LEMMA WalletsMissed ==
  ASSUME Alone, Wallets!Read, w_load' = Wallets!Nothing, w_saver' = w_saver, w_mem' = w_mem
  PROVE  Alone'
<1>1. /\ w_load = "read"
      /\ w_file' = w_file /\ w_tmp' = w_tmp /\ w_data' = w_data
      /\ w_legacy' = w_legacy /\ w_acked' = w_acked
  BY DEF Wallets!Read
<1>2. Wallets!Saved' = Wallets!Saved
  BY <1>1 DEF Wallets!Saved
<1>3. \A s \in Wallets!Savers : w_saver[s].pc \notin Busy
  BY <1>1 DEF Alone
<1>4. w_load' = "blind" \/ (w_load' = "done" /\ Wallets!Saved = {})
  BY DEF Wallets!Nothing, Wallets!Saved
<1> QED
  BY <1>1, <1>2, <1>3, <1>4 DEF Alone

(* Reading the store keeps the state of a lone caller. *)
LEMMA WalletsRead ==
  ASSUME Alone, Wallets!Read, ~w_overlapped',
         w_load' = "done", w_mem' = w_mem \cup Wallets!Content.wallets,
         Wallets!StartSave("resave", w_mem', "new") \/ w_saver' = w_saver
  PROVE  Alone'
<1>1. /\ w_load = "read" /\ w_load' = "done"
      /\ w_file' = w_file /\ w_tmp' = w_tmp /\ w_data' = w_data
      /\ w_legacy' = w_legacy /\ w_acked' = w_acked
      /\ w_mem' = w_mem \cup Wallets!Content.wallets
  BY DEF Wallets!Read
<1>2. Wallets!Saved' = Wallets!Saved
  BY <1>1 DEF Wallets!Saved
<1>3. Wallets!Content.wallets = Wallets!Saved
  BY DEF Wallets!Content, Wallets!Saved, Wallets!Partial
<1>4. /\ w_mem' \subseteq Job \cup Legacy
      /\ w_acked \subseteq w_mem' /\ (w_legacy \/ Legacy \subseteq w_mem')
  BY <1>1, <1>3 DEF Alone, Wallets!Saved
<1>5. CASE Wallets!StartSave("resave", w_mem', "new")
  <2>1. /\ DOMAIN w_saver' = Wallets!Savers
        /\ \A t \in Wallets!Savers : w_saver'[t].pc \in Busy => t = "resave"
        /\ \A t \in Wallets!Savers :
             SaverOk(w_saver'[t], w_tmp', w_data', w_acked', w_legacy')
    BY <1>1, <1>4, <1>5, WalletsStart, Disjoint
  <2> QED
    BY <1>1, <1>2, <1>4, <2>1, WalletsConstants DEF Alone
<1>6. CASE w_saver' = w_saver
  <2>1. \A s \in Wallets!Savers : w_saver[s].pc \notin Busy
    BY <1>1 DEF Alone
  <2> QED
    BY <1>1, <1>2, <1>4, <1>6, <2>1 DEF Alone
<1> QED
  BY <1>5, <1>6

(* A wallet is added to what the caller has just read. *)
LEMMA WalletsCreate ==
  ASSUME Alone, NEW c \in Job, Wallets!Create(c), ~w_overlapped', ~w_blind'
  PROVE  Alone'
<1>1. /\ w_load = "done" /\ w_load' = w_load
      /\ w_file' = w_file /\ w_tmp' = w_tmp /\ w_data' = w_data
      /\ w_legacy' = w_legacy /\ w_acked' = w_acked
      /\ w_mem' = w_mem \cup {c} /\ Wallets!StartSave(c, w_mem', "new")
  BY DEF Wallets!Create
<1>2. Wallets!Saved' = Wallets!Saved
  BY <1>1 DEF Wallets!Saved
<1>3. /\ w_mem' \subseteq Job \cup Legacy /\ c \in w_mem'
      /\ w_acked \subseteq w_mem' /\ (w_legacy \/ Legacy \subseteq w_mem')
  BY <1>1 DEF Alone
<1>4. /\ DOMAIN w_saver' = Wallets!Savers
      /\ w_saver'[c].snap.wallets = w_mem'
      /\ \A t \in Wallets!Savers : w_saver'[t].pc \in Busy => t = c
      /\ \A t \in Wallets!Savers :
           SaverOk(w_saver'[t], w_tmp', w_data', w_acked', w_legacy')
  BY <1>1, <1>3, WalletsStart, Disjoint
<1> QED
  BY <1>1, <1>2, <1>3, <1>4 DEF Alone

(***************************************************************************)
(* The file that is opened and truncated is never the wallet file.         *)
(***************************************************************************)
LEMMA WalletsOpen ==
  ASSUME Alone, NEW s \in Wallets!Savers, Wallets!Open(s)
  PROVE  Alone'
<1>1. /\ w_saver[s].pc = "open"
      /\ w_tmp' = IF w_tmp = None THEN CHOOSE i \in Wallets!Unused : TRUE ELSE w_tmp
      /\ w_data' = [w_data EXCEPT ![w_tmp'] = Wallets!Partial]
      /\ w_saver' = [w_saver EXCEPT ![s].pc = "write", ![s].fd = w_tmp']
      /\ w_mem' = w_mem /\ w_load' = w_load /\ w_file' = w_file
      /\ w_legacy' = w_legacy /\ w_acked' = w_acked
  BY DEF Wallets!Open
<1>2. \A t \in Wallets!Savers \ {s} : w_saver[t].pc \notin Busy
  BY <1>1 DEF Alone, Busy
<1>3. \A t \in Wallets!Savers : w_saver[t].fd = None
  BY <1>1, <1>2 DEF Alone, SaverOk, Busy
<1>4. w_tmp' \in Inodes /\ w_tmp' # w_file /\ w_tmp' # None
  <2>1. CASE w_tmp = None
    <3>1. PICK i \in Inodes : i # w_file
      BY InodeLeft
    <3>2. i \in Wallets!Unused
      BY <1>3, <2>1, <3>1, WalletsConstants DEF Wallets!Unused
    <3>3. w_tmp' \in Wallets!Unused
      BY <1>1, <2>1, <3>2
    <3> QED
      BY <3>3, WalletsConstants DEF Wallets!Unused
  <2>2. CASE w_tmp # None
    BY <1>1, <2>2 DEF Alone
  <2> QED
    BY <2>1, <2>2
<1> DEFINE x == w_tmp'
<1> HIDE DEF x
<1>5. /\ DOMAIN w_data' = Inodes /\ w_data'[x] = Wallets!Partial
      /\ \A i \in Inodes \ {x} : w_data'[i] = w_data[i]
  BY <1>1, <1>4 DEF Alone, x
<1>6. /\ DOMAIN w_saver' = Wallets!Savers
      /\ \A t \in Wallets!Savers \ {s} : w_saver'[t] = w_saver[t]
      /\ w_saver'[s] = [w_saver[s] EXCEPT !.pc = "write", !.fd = x]
  BY <1>1 DEF Alone, x
<1>7. /\ DOMAIN w_saver'[s] = SaverFields /\ w_saver'[s].pc = "write"
      /\ w_saver'[s].snap = w_saver[s].snap /\ w_saver'[s].fd = x
  BY <1>6 DEF Alone, SaverOk, SaverFields
<1>8. Wallets!Saved' = Wallets!Saved
  BY <1>1, <1>4, <1>5 DEF Wallets!Saved, Alone, x
<1>9. \A t \in Wallets!Savers : SaverOk(w_saver'[t], w_tmp', w_data', w_acked', w_legacy')
  <2>1. SaverOk(w_saver'[s], x, w_data', w_acked', w_legacy')
    BY <1>1, <1>4, <1>5, <1>7 DEF Alone, SaverOk, Busy, Wallets!Partial, x
  <2>2. \A t \in Wallets!Savers \ {s} : SaverOk(w_saver'[t], x, w_data', w_acked', w_legacy')
    BY <1>1, <1>2, <1>6 DEF Alone, SaverOk, Busy
  <2> QED
    BY <2>1, <2>2 DEF x
<1>10. \A t \in Wallets!Savers : w_saver'[t].pc \in Busy => t = s
  BY <1>2, <1>6
<1>11. \A i \in Inodes : w_data'[i].wallets \subseteq Job \cup Legacy
  BY <1>5 DEF Alone, Wallets!Partial
<1>12. /\ w_load \in {"migrate", "done"}
       /\ w_load = "migrate" => s = "migration" /\ Legacy \subseteq w_saver[s].snap.wallets
  BY <1>1 DEF Alone, Busy
<1>13. s \in Job => s \in w_saver'[s].snap.wallets /\ s \in w_mem
  BY <1>1, <1>7 DEF Alone, Busy
<1> QED
  BY <1>1, <1>4, <1>5, <1>6, <1>7, <1>8, <1>9, <1>10, <1>11, <1>12, <1>13 DEF Alone

(***************************************************************************)
(* What is written into the truncated file is the whole snapshot.          *)
(***************************************************************************)
LEMMA WalletsWrite ==
  ASSUME Alone, NEW s \in Wallets!Savers, Wallets!Write(s)
  PROVE  Alone'
<1> DEFINE v == w_saver[s]
<1>0. SaverOk(v, w_tmp, w_data, w_acked, w_legacy)
  BY DEF Alone
<1>1. /\ v.pc = "write"
      /\ w_saver' = [w_saver EXCEPT ![s].pc = "rename"]
      /\ w_mem' = w_mem /\ w_load' = w_load /\ w_file' = w_file /\ w_tmp' = w_tmp
      /\ w_legacy' = w_legacy /\ w_acked' = w_acked
      /\ w_data' = [w_data EXCEPT ![v.fd] =
           IF Wallets!Cardinality(w_data[v.fd].wallets) > Wallets!Cardinality(v.snap.wallets)
           THEN Wallets!Garbled ELSE v.snap]
  BY DEF Wallets!Write
<1>2. /\ v.fd = w_tmp /\ w_tmp \in Inodes /\ w_data[w_tmp].wallets = {}
      /\ v.snap.wallets \subseteq Job \cup Legacy
  BY <1>0, <1>1 DEF SaverOk
<1>3. w_data' = [w_data EXCEPT ![w_tmp] = v.snap]
  BY <1>1, <1>2, PayloadFits
<1>4. /\ DOMAIN w_data' = Inodes /\ w_data'[w_tmp] = v.snap
      /\ \A i \in Inodes \ {w_tmp} : w_data'[i] = w_data[i]
  BY <1>2, <1>3 DEF Alone
<1>5. \A t \in Wallets!Savers \ {s} : w_saver[t].pc \notin Busy
  BY <1>1 DEF Alone, Busy
<1>6. /\ DOMAIN w_saver' = Wallets!Savers
      /\ \A t \in Wallets!Savers \ {s} : w_saver'[t] = w_saver[t]
      /\ w_saver'[s] = [v EXCEPT !.pc = "rename"]
  BY <1>1 DEF Alone
<1>7. /\ DOMAIN w_saver'[s] = SaverFields /\ w_saver'[s].pc = "rename"
      /\ w_saver'[s].snap = v.snap /\ w_saver'[s].fd = v.fd
  BY <1>0, <1>6 DEF SaverOk, SaverFields
<1>8. Wallets!Saved' = Wallets!Saved
  BY <1>1, <1>2, <1>4, WalletsConstants DEF Wallets!Saved, Alone
<1>9. \A t \in Wallets!Savers : SaverOk(w_saver'[t], w_tmp', w_data', w_acked', w_legacy')
  <2>1. SaverOk(w_saver'[s], w_tmp', w_data', w_acked', w_legacy')
    BY <1>0, <1>1, <1>2, <1>4, <1>7 DEF SaverOk, Busy
  <2>2. \A t \in Wallets!Savers \ {s} :
          SaverOk(w_saver'[t], w_tmp', w_data', w_acked', w_legacy')
    BY <1>1, <1>5, <1>6 DEF Alone, SaverOk, Busy
  <2> QED
    BY <2>1, <2>2
<1>10. \A t \in Wallets!Savers : w_saver'[t].pc \in Busy => t = s
  BY <1>5, <1>6
<1>11. \A i \in Inodes : w_data'[i].wallets \subseteq Job \cup Legacy
  BY <1>2, <1>4 DEF Alone
<1>12. /\ w_load \in {"migrate", "done"}
       /\ w_load = "migrate" => s = "migration" /\ Legacy \subseteq w_saver[s].snap.wallets
  BY <1>1 DEF Alone, Busy
<1>13. s \in Job => s \in w_saver'[s].snap.wallets /\ s \in w_mem
  BY <1>1, <1>7 DEF Alone, Busy
<1>14. w_tmp # None => w_tmp # w_file
  BY DEF Alone
<1>15. w_load = "migrate" =>
         /\ \A t \in Wallets!Savers :
              w_saver'[t].pc \in Busy =>
                t = "migration" /\ Legacy \subseteq w_saver'[t].snap.wallets
         /\ w_saver'["migration"].pc # "done" => w_file = None
         /\ w_saver'["migration"].pc = "done" => Legacy \subseteq Wallets!Saved'
  BY <1>1, <1>7, <1>10, <1>12 DEF Alone
<1> HIDE DEF v
<1> QED
  BY <1>1, <1>4, <1>6, <1>8, <1>9, <1>10, <1>11, <1>12, <1>13, <1>14, <1>15 DEF Alone

(***************************************************************************)
(* The rename puts the snapshot in the wallet file's place, and only then  *)
(* is the call answered.                                                   *)
(***************************************************************************)
LEMMA WalletsRename ==
  ASSUME Alone, NEW s \in Wallets!Savers, Wallets!Rename(s)
  PROVE  Alone'
<1> DEFINE v == w_saver[s]
<1>0. SaverOk(v, w_tmp, w_data, w_acked, w_legacy)
  BY DEF Alone
<1>a. v.pc = "rename"
  BY DEF Wallets!Rename
<1>b. /\ w_tmp \in Inodes /\ w_tmp # None /\ w_data[w_tmp] = v.snap
      /\ w_acked \subseteq v.snap.wallets /\ (w_legacy \/ Legacy \subseteq v.snap.wallets)
  BY <1>0, <1>a, WalletsConstants DEF SaverOk, Busy
<1>1. /\ w_file' = w_tmp /\ w_tmp' = None
      /\ w_saver' = [w_saver EXCEPT ![s] = [Wallets!NoSave EXCEPT !.pc = "done"]]
      /\ w_acked' = w_acked \cup ({s} \cap Job)
      /\ w_mem' = w_mem /\ w_load' = w_load /\ w_data' = w_data /\ w_legacy' = w_legacy
  BY <1>b DEF Wallets!Rename
<1>2. Wallets!Saved' = v.snap.wallets
  BY <1>1, <1>b DEF Wallets!Saved
<1>3. \A t \in Wallets!Savers \ {s} : w_saver[t].pc \notin Busy
  BY <1>a DEF Alone, Busy
<1>4. /\ DOMAIN w_saver' = Wallets!Savers
      /\ \A t \in Wallets!Savers \ {s} : w_saver'[t] = w_saver[t]
      /\ w_saver'[s] = [pc |-> "done", snap |-> Wallets!Partial, fd |-> None]
  BY <1>1 DEF Alone, Wallets!NoSave
<1>5. \A t \in Wallets!Savers : w_saver'[t].pc \notin Busy
  BY <1>3, <1>4 DEF Busy
<1>6. \A t \in Wallets!Savers : SaverOk(w_saver'[t], w_tmp', w_data', w_acked', w_legacy')
  <2>1. SaverOk(w_saver'[s], w_tmp', w_data', w_acked', w_legacy')
    BY <1>4 DEF SaverOk, SaverFields, Busy, Wallets!Partial
  <2>2. \A t \in Wallets!Savers \ {s} :
          SaverOk(w_saver'[t], w_tmp', w_data', w_acked', w_legacy')
    BY <1>1, <1>3, <1>4 DEF Alone, SaverOk, Busy
  <2> QED
    BY <2>1, <2>2
<1>7. s \in Job => s \in v.snap.wallets /\ s \in w_mem
  BY <1>a DEF Alone, Busy
<1>8. /\ w_load \in {"migrate", "done"}
      /\ w_load = "migrate" => s = "migration" /\ Legacy \subseteq v.snap.wallets
  BY <1>a DEF Alone, Busy
<1>9. /\ w_acked' \subseteq Wallets!Saved' /\ (w_legacy' \/ Legacy \subseteq Wallets!Saved')
      /\ w_load = "done" => w_acked' \subseteq w_mem
  BY <1>1, <1>2, <1>b, <1>7 DEF Alone
<1>10. w_load = "migrate" => /\ Legacy \subseteq Wallets!Saved'
                             /\ w_saver'["migration"].pc = "done"
  BY <1>2, <1>4, <1>8
<1> HIDE DEF v
<1> QED
  BY <1>1, <1>b, <1>4, <1>5, <1>6, <1>8, <1>9, <1>10 DEF Alone

(* A save that fails leaves the file and what was answered as they are. *)
LEMMA WalletsFail ==
  ASSUME Alone, NEW s \in Wallets!Savers, Wallets!SaveFails(s)
  PROVE  Alone'
<1>1. /\ w_saver[s].pc \in Busy
      /\ w_saver' = [w_saver EXCEPT ![s] = [Wallets!NoSave EXCEPT !.pc = "failed"]]
      /\ w_mem' = w_mem /\ w_load' = w_load /\ w_file' = w_file /\ w_tmp' = w_tmp
      /\ w_data' = w_data /\ w_legacy' = w_legacy /\ w_acked' = w_acked
  BY DEF Wallets!SaveFails, Wallets!Saving, Busy
<1>2. Wallets!Saved' = Wallets!Saved
  BY <1>1 DEF Wallets!Saved
<1>3. \A t \in Wallets!Savers \ {s} : w_saver[t].pc \notin Busy
  BY <1>1 DEF Alone
<1>4. /\ DOMAIN w_saver' = Wallets!Savers
      /\ \A t \in Wallets!Savers \ {s} : w_saver'[t] = w_saver[t]
      /\ w_saver'[s] = [pc |-> "failed", snap |-> Wallets!Partial, fd |-> None]
  BY <1>1 DEF Alone, Wallets!NoSave
<1>5. \A t \in Wallets!Savers : w_saver'[t].pc \notin Busy
  BY <1>3, <1>4 DEF Busy
<1>6. \A t \in Wallets!Savers : SaverOk(w_saver'[t], w_tmp', w_data', w_acked', w_legacy')
  <2>1. SaverOk(w_saver'[s], w_tmp', w_data', w_acked', w_legacy')
    BY <1>4 DEF SaverOk, SaverFields, Busy, Wallets!Partial
  <2>2. \A t \in Wallets!Savers \ {s} :
          SaverOk(w_saver'[t], w_tmp', w_data', w_acked', w_legacy')
    BY <1>1, <1>3, <1>4 DEF Alone, SaverOk, Busy
  <2> QED
    BY <2>1, <2>2
<1>7. w_load = "migrate" => /\ w_saver'["migration"].pc # "done" => w_file = None
                            /\ w_saver'["migration"].pc = "done" => Legacy \subseteq Wallets!Saved
  BY <1>1, <1>4, Disjoint DEF Alone, Busy
<1> QED
  BY <1>1, <1>2, <1>4, <1>5, <1>6, <1>7 DEF Alone

(***************************************************************************)
(* A crash leaves the files as they are, and nobody writing.               *)
(***************************************************************************)
LEMMA WalletsCrash ==
  ASSUME Alone, Wallets!Crash
  PROVE  Alone'
<1>1. /\ w_mem' = {} /\ w_load' = "none"
      /\ w_file' = w_file /\ w_tmp' = w_tmp /\ w_data' = w_data
      /\ w_legacy' = w_legacy /\ w_acked' = w_acked
      /\ DOMAIN w_saver' = Wallets!Savers
      /\ \A s \in Wallets!Savers :
           w_saver'[s] = [pc |-> "idle", snap |-> Wallets!Partial, fd |-> None]
  BY DEF Wallets!Crash, Wallets!NoSave
<1>2. Wallets!Saved' = Wallets!Saved
  BY <1>1 DEF Wallets!Saved
<1>3. \A s \in Wallets!Savers :
        /\ w_saver'[s].pc \notin Busy
        /\ SaverOk(w_saver'[s], w_tmp', w_data', w_acked', w_legacy')
  BY <1>1 DEF SaverOk, SaverFields, Busy, Wallets!Partial
<1> QED
  BY <1>1, <1>2, <1>3 DEF Alone

(* Every step of the wallet store keeps the invariant. *)
LEMMA WalletsStep == WalletsInv /\ [Wallets!Next]_Wallets!vars => WalletsInv'
<1> SUFFICES ASSUME WalletsInv, [Wallets!Next]_Wallets!vars PROVE WalletsInv'
  OBVIOUS
<1>1. CASE UNCHANGED Wallets!vars
  BY <1>1 DEF Wallets!vars, WalletsInv, Alone, Wallets!Saved
<1>2. CASE Wallets!Next
  <2>1. /\ w_overlapped' \in BOOLEAN /\ (w_overlapped => w_overlapped')
        /\ w_blind' \in BOOLEAN /\ (w_blind => w_blind')
    BY <1>2 DEF Wallets!Next, Wallets!Call, Wallets!Create, Wallets!Open, Wallets!Write,
       Wallets!Rename, Wallets!SaveFails, Wallets!Stat, Wallets!Migrated, Wallets!Read,
       Wallets!Crash, Wallets!StartSave, WalletsInv
  <2>2. ASSUME ~w_overlapped', ~w_blind' PROVE Alone'
    <3>1. Alone
      BY <2>1, <2>2 DEF WalletsInv
    <3>2. CASE Wallets!Read
      <4>1. \/ /\ w_load' = "done" /\ w_mem' = w_mem \cup Wallets!Content.wallets
               /\ Wallets!StartSave("resave", w_mem', "new") \/ w_saver' = w_saver
            \/ w_load' = Wallets!Nothing /\ w_saver' = w_saver /\ w_mem' = w_mem
        BY <3>2 DEF Wallets!Read
      <4> QED
        BY <2>2, <3>1, <3>2, <4>1, WalletsRead, WalletsMissed
    <3> QED
      BY <1>2, <2>2, <3>1, <3>2, WalletsCall, WalletsStat, WalletsMigrated,
         WalletsNotMigrated, WalletsCreate, WalletsOpen, WalletsWrite, WalletsRename,
         WalletsFail, WalletsCrash DEF Wallets!Next
  <2> QED
    BY <2>1, <2>2 DEF WalletsInv
<1> QED
  BY <1>1, <1>2

(***************************************************************************)
(* The wallet file, for any wallets and number of crashes: as long as no   *)
(* two saves of the scope overlapped and none came from a process whose    *)
(* load had failed on a file that was there, every wallet that was         *)
(* answered is in it, and so are the legacy wallets once their file is put *)
(* away (wallet-store.ts, local-signer.ts).                                *)
(***************************************************************************)
THEOREM WalletsDurableAlone == Wallets!Spec => []Wallets!AloneDurable
<1>1. WalletsInv => Wallets!AloneDurable
  BY DEF WalletsInv, Alone, Wallets!AloneDurable
<1> QED
  BY <1>1, WalletsInit, WalletsStep, PTL DEF Wallets!Spec

(***************************************************************************)
(* The same for the run of Gateway.                                        *)
(***************************************************************************)
THEOREM GatewayAloneDurable == GatewaySpec => []AloneDurable
<1> DEFINE Inv == part = "wallets" => WalletsInv
<1>1. GatewayInit => Inv
  BY WalletsInit DEF GatewayInit
<1>2. Inv /\ [GatewayNext]_all => Inv'
  BY PartStep, WalletsStep
<1>3. Inv => AloneDurable
  BY DEF WalletsInv, Alone, AloneDurable, Wallets!AloneDurable
<1> QED
  BY <1>1, <1>2, <1>3, PTL DEF GatewaySpec


-----------------------------------------------------------------------------
(* Key rotation and attestation.                                           *)

(***************************************************************************)
(* kid k is the one of process i at epoch e, or was made before it.        *)
(***************************************************************************)
Made(k, i, e) == k \in Rotation!Kid /\ (k[1] < i \/ (k[1] = i /\ k[2] <= e))

(***************************************************************************)
(* The server: a kid not yet demoted has no end; the kid demoted last is   *)
(* in the overlap entry until its window has passed.                       *)
(***************************************************************************)
ServerOk(t, i, e, k, f, o, en) ==
  /\ t \in 0..MaxNow /\ i \in 0..MaxRestart /\ e \in 0..MaxRot /\ k \in Nat /\ f \in Nat
  /\ en \in [Rotation!Kid -> Nat]
  /\ \A x \in Rotation!Kid : x[1] > i \/ (x[1] = i /\ x[2] >= e) => en[x] = MaxNow + 1
  /\ o = None => e = 0 \/ t > en[<<i, e - 1>>]
  /\ o # None => /\ o \in Rotation!Demoted /\ e > 0 /\ o.kid = <<i, e - 1>>
                 /\ en[o.kid] = o.at + o.window

TokenOk(x, i, e) == Made(x.kid, i, e) /\ x.exp \in Nat

(***************************************************************************)
(* A reply s: every key in it was in its window when it was sent.          *)
(***************************************************************************)
ServedOk(s, t, i, e, en) ==
  /\ s.at \in 0..t
  /\ \A j \in s.jwks : /\ j = [kid |-> j.kid, key |-> j.key]
                       /\ Made(j.kid, i, e)
                       /\ s.at <= en[j.kid]

(***************************************************************************)
(* The kid of token x is current or demoted last, and the reply s was sent *)
(* in its window: then s has it.                                           *)
(***************************************************************************)
InWindow(x, s, i, e, en) ==
  x.kid[1] = i /\ e - x.kid[2] <= 1 /\ s.at <= en[x.kid] =>
    [kid |-> x.kid, key |-> x.key] \in s.jwks

(***************************************************************************)
(* r is the verdict on token x by the JWKS ks at time b.                   *)
(***************************************************************************)
Named(x, ks) == {j \in ks : j.kid = x.kid}
Good(x, ks) == {j \in Named(x, ks) : j.key = x.key /\ x.flaw # "tampered"}
Verdict(x, ks, b, r) ==
  \/ Named(x, ks) = {} /\ r = "unknown-kid"
  \/ Named(x, ks) # {} /\ Good(x, ks) = {} /\ r = "tampered-signature"
  \/ Good(x, ks) # {} /\ x.flaw = "aud" /\ r = "bad-aud"
  \/ Good(x, ks) # {} /\ x.flaw # "aud" /\ x.exp < b /\ r = "expired"
  \/ Good(x, ks) # {} /\ x.flaw # "aud" /\ x.exp >= b /\ r = "ok"

(***************************************************************************)
(* A verification: where it stands (p), its token a, its start b, what it  *)
(* held, the response under way, its result r and what was served to it.   *)
(***************************************************************************)
VerOk(p, a, b, h, rp, r, s, tok, i, e, en) ==
  /\ p \in {"idle", "fetching"} => s = None
  /\ p # "idle" => a \in Token /\ tok[a] # None /\ b \in Nat
  /\ p = "replied" /\ s # None => \/ rp.status = "200" /\ rp.body = s.jwks
                                  \/ rp.status = "304" /\ h = s.jwks
  /\ p # "idle" /\ s # None => InWindow(tok[a], s, i, e, en)
  /\ p = "done" /\ s # None => Verdict(tok[a], s.jwks, b, r)

(***************************************************************************)
(* F says which key every kid that is current, demoted, in a token or in a *)
(* reply stands for.                                                       *)
(***************************************************************************)
KeyOf(F, i, e, k, o, tok, sv) ==
  /\ F[<<i, e>>] = k
  /\ o # None => F[o.kid] = o.key
  /\ \A t \in Token : tok[t] # None => F[tok[t].kid] = tok[t].key
  /\ \A v \in Job : sv[v] # None => \A j \in sv[v].jwks : F[j.kid] = j.key

RotationInv ==
  /\ DOMAIN k_token = Token /\ DOMAIN k_pc = Job /\ DOMAIN k_about = Job
  /\ DOMAIN k_began = Job /\ DOMAIN k_held = Job /\ DOMAIN k_reply = Job
  /\ DOMAIN k_result = Job /\ DOMAIN k_served = Job
  /\ ServerOk(k_now, k_inst, k_epoch, k_key, k_fresh, k_overlap, k_ends)
  /\ \A t \in Token : k_token[t] # None => TokenOk(k_token[t], k_inst, k_epoch)
  /\ \A v \in Job : k_served[v] # None => ServedOk(k_served[v], k_now, k_inst, k_epoch, k_ends)
  /\ \A v \in Job : VerOk(k_pc[v], k_about[v], k_began[v], k_held[v], k_reply[v], k_result[v],
                          k_served[v], k_token, k_inst, k_epoch, k_ends)
  /\ \E F \in [Rotation!Kid -> Nat] :
       KeyOf(F, k_inst, k_epoch, k_key, k_overlap, k_token, k_served)

(* The constants of key rotation, as its proofs use them. *)
LEMMA RotationConstants ==
  /\ Windows \subseteq Nat /\ Lifetime \in Nat
  /\ MaxRot \in Nat /\ MaxRestart \in Nat /\ MaxNow \in Nat
  /\ None \notin Rotation!Demoted
BY RotationAssumption DEF Rotation!AttestationAssumption

(* A key id is a pair of a start of the server and a rotation. *)
LEMMA KidIn ==
  ASSUME NEW i, NEW e
  PROVE  /\ <<i, e>> \in Rotation!Kid <=> i \in 0..MaxRestart /\ e \in 0..MaxRot
         /\ <<i, e>>[1] = i /\ <<i, e>>[2] = e
BY DEF Rotation!Kid, Rotation!Instance

(* A key id is made of its two parts. *)
LEMMA KidParts ==
  ASSUME NEW k \in Rotation!Kid
  PROVE  k[1] \in 0..MaxRestart /\ k[2] \in 0..MaxRot /\ k = <<k[1], k[2]>>
BY DEF Rotation!Kid, Rotation!Instance

(* The key set starts in the invariant. *)
LEMMA RotationInit == Rotation!Init => RotationInv
<1> SUFFICES ASSUME Rotation!Init PROVE RotationInv
  OBVIOUS
<1>1. /\ DOMAIN k_token = Token /\ DOMAIN k_pc = Job /\ DOMAIN k_about = Job
      /\ DOMAIN k_began = Job /\ DOMAIN k_held = Job /\ DOMAIN k_reply = Job
      /\ DOMAIN k_result = Job /\ DOMAIN k_served = Job
      /\ \A t \in Token : k_token[t] = None
      /\ \A v \in Job : k_pc[v] = "idle" /\ k_served[v] = None
      /\ k_now = 0 /\ k_inst = 0 /\ k_epoch = 0 /\ k_key = 0 /\ k_fresh = 0 /\ k_overlap = None
      /\ k_ends = [k \in Rotation!Kid |-> MaxNow + 1]
  BY DEF Rotation!Init, Rotation!Forever
<1>2. ServerOk(k_now, k_inst, k_epoch, k_key, k_fresh, k_overlap, k_ends)
  BY <1>1, RotationConstants DEF ServerOk
<1>3. \A v \in Job : VerOk(k_pc[v], k_about[v], k_began[v], k_held[v], k_reply[v], k_result[v],
                           k_served[v], k_token, k_inst, k_epoch, k_ends)
  BY <1>1 DEF VerOk
<1>4. \E F \in [Rotation!Kid -> Nat] :
        KeyOf(F, k_inst, k_epoch, k_key, k_overlap, k_token, k_served)
  <2> DEFINE F == [k \in Rotation!Kid |-> 0]
  <2>1. <<0, 0>> \in Rotation!Kid
    BY KidIn, RotationConstants
  <2>2. KeyOf(F, k_inst, k_epoch, k_key, k_overlap, k_token, k_served)
    BY <1>1, <2>1 DEF KeyOf
  <2>3. F \in [Rotation!Kid -> Nat]
    OBVIOUS
  <2> HIDE DEF F
  <2> QED
    BY <2>2, <2>3
<1> QED
  BY <1>1, <1>2, <1>3, <1>4 DEF RotationInv


(***************************************************************************)
(* A kid made now is none of those made before, so it can stand for any    *)
(* key.                                                                    *)
(***************************************************************************)
LEMMA NewKid ==
  ASSUME RotationInv, NEW i, NEW e, NEW k \in Nat, NEW o, <<i, e>> \in Rotation!Kid,
         ~Made(<<i, e>>, k_inst, k_epoch),
         o # None => o.kid = <<k_inst, k_epoch>> /\ o.key = k_key
  PROVE  \E F \in [Rotation!Kid -> Nat] : KeyOf(F, i, e, k, o, k_token, k_served)
<1>1. PICK F \in [Rotation!Kid -> Nat] :
        KeyOf(F, k_inst, k_epoch, k_key, k_overlap, k_token, k_served)
  BY DEF RotationInv
<1> DEFINE G == [F EXCEPT ![<<i, e>>] = k]
<1>2. G \in [Rotation!Kid -> Nat] /\ G[<<i, e>>] = k
  OBVIOUS
<1>3. \A x : Made(x, k_inst, k_epoch) => G[x] = F[x]
  BY DEF Made
<1>4. Made(<<k_inst, k_epoch>>, k_inst, k_epoch)
  BY KidIn DEF Made, RotationInv, ServerOk
<1> HIDE DEF G
<1>5. /\ \A t \in Token : k_token[t] # None => Made(k_token[t].kid, k_inst, k_epoch)
      /\ \A v \in Job : k_served[v] # None =>
           \A j \in k_served[v].jwks : Made(j.kid, k_inst, k_epoch)
  BY DEF RotationInv, TokenOk, ServedOk
<1>6. KeyOf(G, i, e, k, o, k_token, k_served)
  BY <1>1, <1>2, <1>3, <1>4, <1>5 DEF KeyOf
<1> QED
  BY <1>2, <1>6

(***************************************************************************)
(* A step of the server alone: the kids grow, and no end that a reply      *)
(* relied on is moved to before it.                                        *)
(***************************************************************************)
LEMMA ServerMoves ==
  ASSUME RotationInv,
         k_token' = k_token, k_pc' = k_pc, k_about' = k_about, k_began' = k_began,
         k_held' = k_held, k_reply' = k_reply, k_result' = k_result, k_served' = k_served,
         ServerOk(k_now, k_inst, k_epoch, k_key, k_fresh, k_overlap, k_ends)',
         k_now <= k_now',
         \A x : Made(x, k_inst, k_epoch) => Made(x, k_inst', k_epoch'),
         \A x, at : Made(x, k_inst, k_epoch) /\ at \in 0..k_now /\ at <= k_ends[x]
                      => at <= k_ends'[x],
         \A x, at : /\ Made(x, k_inst, k_epoch) /\ at \in 0..k_now
                    /\ x[1] = k_inst' /\ k_epoch' - x[2] <= 1 /\ at <= k_ends'[x]
                    => x[1] = k_inst /\ k_epoch - x[2] <= 1 /\ at <= k_ends[x],
         \E F \in [Rotation!Kid -> Nat] :
           KeyOf(F, k_inst', k_epoch', k_key', k_overlap', k_token, k_served)
  PROVE  RotationInv'
<1>0. k_now \in Nat /\ k_now' \in Nat
  BY DEF RotationInv, ServerOk
<1>1. \A t \in Token : k_token'[t] # None => TokenOk(k_token'[t], k_inst', k_epoch')
  BY DEF RotationInv, TokenOk
<1>2. \A v \in Job : k_served'[v] # None =>
        ServedOk(k_served'[v], k_now', k_inst', k_epoch', k_ends')
  <2> SUFFICES ASSUME NEW v \in Job, k_served[v] # None
               PROVE  ServedOk(k_served[v], k_now', k_inst', k_epoch', k_ends')
    OBVIOUS
  <2>1. ServedOk(k_served[v], k_now, k_inst, k_epoch, k_ends)
    BY DEF RotationInv
  <2>2. k_served[v].at \in 0..k_now'
    BY <1>0, <2>1 DEF ServedOk
  <2> QED
    BY <2>1, <2>2 DEF ServedOk
<1>3. \A v \in Job : VerOk(k_pc'[v], k_about'[v], k_began'[v], k_held'[v], k_reply'[v],
                           k_result'[v], k_served'[v], k_token', k_inst', k_epoch', k_ends')
  <2> SUFFICES ASSUME NEW v \in Job
               PROVE  VerOk(k_pc[v], k_about[v], k_began[v], k_held[v], k_reply[v], k_result[v],
                            k_served[v], k_token, k_inst', k_epoch', k_ends')
    OBVIOUS
  <2>1. VerOk(k_pc[v], k_about[v], k_began[v], k_held[v], k_reply[v], k_result[v],
              k_served[v], k_token, k_inst, k_epoch, k_ends)
    BY DEF RotationInv
  <2>2. ASSUME k_pc[v] # "idle", k_served[v] # None
        PROVE  InWindow(k_token[k_about[v]], k_served[v], k_inst', k_epoch', k_ends')
    <3>1. Made(k_token[k_about[v]].kid, k_inst, k_epoch) /\ k_served[v].at \in 0..k_now
      BY <2>1, <2>2 DEF VerOk, RotationInv, TokenOk, ServedOk
    <3>2. InWindow(k_token[k_about[v]], k_served[v], k_inst, k_epoch, k_ends)
      BY <2>1, <2>2 DEF VerOk
    <3> QED
      BY <3>1, <3>2 DEF InWindow
  <2> QED
    BY <2>1, <2>2 DEF VerOk
<1> QED
  BY <1>1, <1>2, <1>3 DEF RotationInv

(* Rotating the server key keeps the old key verifiable for its window. *)
LEMMA RotateServerKeyInv ==
  ASSUME RotationInv, NEW w \in Windows, NEW k \in {k_key, k_fresh + 1},
         Rotation!RotateServerKey(k, w)
  PROVE  RotationInv'
<1> DEFINE c == <<k_inst, k_epoch>>
           o == [kid |-> c, key |-> k_key, at |-> k_now, window |-> w]
<1>1. /\ k_epoch < MaxRot /\ k_overlap' = o /\ k_ends' = [k_ends EXCEPT ![c] = k_now + w]
      /\ k_key' = k /\ k_fresh' = (IF k = k_key THEN k_fresh ELSE k)
      /\ k_epoch' = k_epoch + 1 /\ k_inst' = k_inst /\ k_now' = k_now
      /\ k_token' = k_token /\ k_pc' = k_pc /\ k_about' = k_about /\ k_began' = k_began
      /\ k_held' = k_held /\ k_reply' = k_reply /\ k_result' = k_result /\ k_served' = k_served
  BY DEF Rotation!RotateServerKey, Rotation!ComputeKid, Rotation!callVars
<1>2. /\ k_now \in 0..MaxNow /\ k_inst \in 0..MaxRestart /\ k_epoch \in 0..MaxRot
      /\ k_key \in Nat /\ k_fresh \in Nat /\ k_ends \in [Rotation!Kid -> Nat] /\ w \in Nat
  BY RotationConstants DEF RotationInv, ServerOk
<1>3. /\ c \in Rotation!Kid /\ c[1] = k_inst /\ c[2] = k_epoch
      /\ <<k_inst, k_epoch + 1>> \in Rotation!Kid
      /\ <<k_inst, k_epoch + 1>>[1] = k_inst /\ <<k_inst, k_epoch + 1>>[2] = k_epoch + 1
  BY <1>1, <1>2, KidIn, RotationConstants
<1>4. k_ends[c] = MaxNow + 1
  BY <1>2, <1>3 DEF RotationInv, ServerOk
<1>5. o \in Rotation!Demoted /\ o # None /\ o.kid = c /\ o.key = k_key /\ o.at = k_now /\ o.window = w
  <2>1. o \in Rotation!Demoted
    BY <1>2, <1>3 DEF Rotation!Demoted
  <2> QED
    BY <2>1, RotationConstants
<1> HIDE DEF o
<1>6. /\ k_ends' \in [Rotation!Kid -> Nat] /\ k_ends'[c] = k_now + w
      /\ \A x \in Rotation!Kid \ {c} : k_ends'[x] = k_ends[x]
  BY <1>1, <1>2, <1>3
<1>7. ServerOk(k_now, k_inst, k_epoch, k_key, k_fresh, k_overlap, k_ends)'
  <2>1. \A x \in Rotation!Kid : x[1] > k_inst \/ (x[1] = k_inst /\ x[2] >= k_epoch + 1) =>
          k_ends'[x] = MaxNow + 1
    <3> SUFFICES ASSUME NEW x \in Rotation!Kid,
                        x[1] > k_inst \/ (x[1] = k_inst /\ x[2] >= k_epoch + 1)
                 PROVE  k_ends'[x] = MaxNow + 1
      OBVIOUS
    <3>1. x # c /\ (x[1] > k_inst \/ (x[1] = k_inst /\ x[2] >= k_epoch))
      BY <1>2, <1>3, KidParts
    <3> QED
      BY <1>6, <3>1 DEF RotationInv, ServerOk
  <2>2. /\ k_epoch + 1 \in 0..MaxRot /\ k_epoch + 1 > 0 /\ k_epoch + 1 - 1 = k_epoch
        /\ k_fresh' \in Nat /\ k \in Nat
    BY <1>1, <1>2, RotationConstants
  <2> QED
    BY <1>1, <1>2, <1>5, <1>6, <2>1, <2>2 DEF ServerOk
<1>8. \A x : Made(x, k_inst, k_epoch) => Made(x, k_inst', k_epoch') /\ x \in Rotation!Kid
  BY <1>1, <1>2, KidParts DEF Made
<1>9. \A x, at : Made(x, k_inst, k_epoch) /\ at \in 0..k_now /\ at <= k_ends[x]
                   => at <= k_ends'[x]
  BY <1>2, <1>6 DEF Made
<1>10. \A x, at : /\ Made(x, k_inst, k_epoch) /\ at \in 0..k_now
                  /\ x[1] = k_inst' /\ k_epoch' - x[2] <= 1 /\ at <= k_ends'[x]
                  => x[1] = k_inst /\ k_epoch - x[2] <= 1 /\ at <= k_ends[x]
  <2> SUFFICES ASSUME NEW x, NEW at, Made(x, k_inst, k_epoch), at \in 0..k_now,
                      x[1] = k_inst', k_epoch' - x[2] <= 1, at <= k_ends'[x]
               PROVE  x[1] = k_inst /\ k_epoch - x[2] <= 1 /\ at <= k_ends[x]
    OBVIOUS
  <2>1. x \in Rotation!Kid /\ x[2] \in Nat /\ x = <<x[1], x[2]>>
    BY KidParts DEF Made
  <2>2. x = c
    BY <1>1, <1>2, <2>1 DEF Made
  <2> QED
    BY <1>1, <1>2, <1>3, <1>4, <2>2, RotationConstants
<1>11. ~Made(<<k_inst, k_epoch + 1>>, k_inst, k_epoch)
  BY <1>2, <1>3 DEF Made
<1>12. \E F \in [Rotation!Kid -> Nat] :
         KeyOf(F, k_inst', k_epoch', k_key', k_overlap', k_token, k_served)
  <2>1. k \in Nat
    BY <1>2
  <2> QED
    BY <1>1, <1>3, <1>5, <1>11, <2>1, NewKid
<1>13. k_now <= k_now'
  BY <1>1, <1>2
<1> QED
  BY <1>1, <1>7, <1>8, <1>9, <1>10, <1>12, <1>13, ServerMoves

(* A restart, which forgets the demoted keys, keeps the invariant. *)
LEMMA RestartInv ==
  ASSUME RotationInv, Rotation!Restart
  PROVE  RotationInv'
<1>1. /\ k_inst < MaxRestart /\ k_inst' = k_inst + 1 /\ k_epoch' = 0 /\ k_overlap' = None
      /\ k_key' = (IF Ephemeral THEN k_fresh + 1 ELSE 0)
      /\ k_fresh' = (IF Ephemeral THEN k_fresh + 1 ELSE k_fresh)
      /\ k_ends' = [x \in Rotation!Kid |->
                      IF x[1] = k_inst /\ k_ends[x] > k_now THEN k_now ELSE k_ends[x]]
      /\ k_now' = k_now
      /\ k_token' = k_token /\ k_pc' = k_pc /\ k_about' = k_about /\ k_began' = k_began
      /\ k_held' = k_held /\ k_reply' = k_reply /\ k_result' = k_result /\ k_served' = k_served
  BY DEF Rotation!Restart, Rotation!callVars
<1>2. /\ k_now \in 0..MaxNow /\ k_inst \in 0..MaxRestart /\ k_epoch \in 0..MaxRot
      /\ k_key \in Nat /\ k_fresh \in Nat /\ k_ends \in [Rotation!Kid -> Nat]
      /\ k_key' \in Nat /\ k_fresh' \in Nat
  BY <1>1 DEF RotationInv, ServerOk
<1>3. /\ k_ends' \in [Rotation!Kid -> Nat]
      /\ \A x \in Rotation!Kid :
           k_ends'[x] = IF x[1] = k_inst /\ k_ends[x] > k_now THEN k_now ELSE k_ends[x]
  BY <1>1, <1>2
<1>4. ServerOk(k_now, k_inst, k_epoch, k_key, k_fresh, k_overlap, k_ends)'
  <2>1. \A x \in Rotation!Kid : x[1] > k_inst + 1 \/ (x[1] = k_inst + 1 /\ x[2] >= 0) =>
          k_ends'[x] = MaxNow + 1
    <3> SUFFICES ASSUME NEW x \in Rotation!Kid,
                        x[1] > k_inst + 1 \/ (x[1] = k_inst + 1 /\ x[2] >= 0)
                 PROVE  k_ends'[x] = MaxNow + 1
      OBVIOUS
    <3>1. x[1] > k_inst /\ x[1] # k_inst
      BY <1>2, KidParts
    <3> QED
      BY <1>3, <3>1 DEF RotationInv, ServerOk
  <2>2. k_inst + 1 \in 0..MaxRestart /\ 0 \in 0..MaxRot
    BY <1>1, <1>2, RotationConstants
  <2> QED
    BY <1>1, <1>2, <1>3, <2>1, <2>2 DEF ServerOk
<1>5. \A x : Made(x, k_inst, k_epoch) =>
        /\ Made(x, k_inst', k_epoch') /\ x \in Rotation!Kid /\ x[1] \in Nat /\ x[1] <= k_inst
  BY <1>1, <1>2, KidParts DEF Made
<1>6. \A x, at : Made(x, k_inst, k_epoch) /\ at \in 0..k_now /\ at <= k_ends[x]
                   => at <= k_ends'[x]
  BY <1>2, <1>3, <1>5
<1>7. \A x, at : /\ Made(x, k_inst, k_epoch) /\ at \in 0..k_now
                 /\ x[1] = k_inst' /\ k_epoch' - x[2] <= 1 /\ at <= k_ends'[x]
                 => x[1] = k_inst /\ k_epoch - x[2] <= 1 /\ at <= k_ends[x]
  BY <1>1, <1>2, <1>5
<1>8. <<k_inst + 1, 0>> \in Rotation!Kid /\ ~Made(<<k_inst + 1, 0>>, k_inst, k_epoch)
  BY <1>1, <1>2, KidIn, RotationConstants DEF Made
<1>9. \E F \in [Rotation!Kid -> Nat] :
        KeyOf(F, k_inst', k_epoch', k_key', k_overlap', k_token, k_served)
  BY <1>1, <1>2, <1>8, NewKid
<1>10. k_now <= k_now'
  BY <1>1, <1>2
<1> QED
  BY <1>1, <1>4, <1>5, <1>6, <1>7, <1>9, <1>10, ServerMoves


(* Minting a token under the current key keeps the invariant. *)
LEMMA MintInv ==
  ASSUME RotationInv, NEW t \in Token, NEW f, Rotation!Mint(t, f)
  PROVE  RotationInv'
<1> DEFINE x == [kid |-> <<k_inst, k_epoch>>, key |-> k_key, exp |-> k_now + Lifetime,
                 flaw |-> f]
<1>1. /\ k_token[t] = None /\ k_token' = [k_token EXCEPT ![t] = x]
      /\ k_now' = k_now /\ k_inst' = k_inst /\ k_epoch' = k_epoch /\ k_key' = k_key
      /\ k_fresh' = k_fresh /\ k_overlap' = k_overlap /\ k_ends' = k_ends
      /\ k_pc' = k_pc /\ k_about' = k_about /\ k_began' = k_began
      /\ k_held' = k_held /\ k_reply' = k_reply /\ k_result' = k_result /\ k_served' = k_served
  BY DEF Rotation!Mint, Rotation!ComputeKid, Rotation!serverVars, Rotation!callVars
<1>2. /\ DOMAIN k_token' = Token /\ k_token'[t] = x
      /\ \A u \in Token \ {t} : k_token'[u] = k_token[u]
  BY <1>1 DEF RotationInv
<1>3. /\ x.kid = <<k_inst, k_epoch>> /\ x.key = k_key /\ TokenOk(x, k_inst, k_epoch)
  BY KidIn, RotationConstants DEF TokenOk, Made, RotationInv, ServerOk
<1> HIDE DEF x
<1>4. \A v \in Job : VerOk(k_pc[v], k_about[v], k_began[v], k_held[v], k_reply[v], k_result[v],
                           k_served[v], k_token', k_inst, k_epoch, k_ends)
  <2> SUFFICES ASSUME NEW v \in Job
               PROVE  VerOk(k_pc[v], k_about[v], k_began[v], k_held[v], k_reply[v], k_result[v],
                            k_served[v], k_token', k_inst, k_epoch, k_ends)
    OBVIOUS
  <2>1. VerOk(k_pc[v], k_about[v], k_began[v], k_held[v], k_reply[v], k_result[v],
              k_served[v], k_token, k_inst, k_epoch, k_ends)
    BY DEF RotationInv
  <2>2. k_pc[v] # "idle" => k_about[v] \in Token \ {t}
    BY <1>1, <2>1 DEF VerOk
  <2> QED
    BY <1>2, <2>1, <2>2 DEF VerOk
<1>5. \E F \in [Rotation!Kid -> Nat] :
        KeyOf(F, k_inst, k_epoch, k_key, k_overlap, k_token', k_served)
  <2>1. PICK F \in [Rotation!Kid -> Nat] :
          KeyOf(F, k_inst, k_epoch, k_key, k_overlap, k_token, k_served)
    BY DEF RotationInv
  <2>2. KeyOf(F, k_inst, k_epoch, k_key, k_overlap, k_token', k_served)
    BY <1>2, <1>3, <2>1 DEF KeyOf
  <2> QED
    BY <2>2
<1>6. \A u \in Token : k_token'[u] # None => TokenOk(k_token'[u], k_inst, k_epoch)
  BY <1>2, <1>3 DEF RotationInv
<1> QED
  BY <1>1, <1>2, <1>4, <1>5, <1>6 DEF RotationInv

(***************************************************************************)
(* A step of one verification that gets no reply of the server.            *)
(***************************************************************************)
LEMMA CallMoves ==
  ASSUME RotationInv, NEW v \in Job,
         k_now' = k_now, k_inst' = k_inst, k_epoch' = k_epoch, k_key' = k_key,
         k_fresh' = k_fresh, k_overlap' = k_overlap, k_ends' = k_ends,
         k_token' = k_token, k_served' = k_served,
         DOMAIN k_pc' = Job, DOMAIN k_about' = Job, DOMAIN k_began' = Job,
         DOMAIN k_held' = Job, DOMAIN k_reply' = Job, DOMAIN k_result' = Job,
         \A u \in Job \ {v} :
           /\ k_pc'[u] = k_pc[u] /\ k_about'[u] = k_about[u] /\ k_began'[u] = k_began[u]
           /\ k_held'[u] = k_held[u] /\ k_reply'[u] = k_reply[u] /\ k_result'[u] = k_result[u],
         VerOk(k_pc'[v], k_about'[v], k_began'[v], k_held'[v], k_reply'[v], k_result'[v],
               k_served[v], k_token, k_inst, k_epoch, k_ends)
  PROVE  RotationInv'
<1>1. \A u \in Job : VerOk(k_pc'[u], k_about'[u], k_began'[u], k_held'[u], k_reply'[u],
                           k_result'[u], k_served[u], k_token, k_inst, k_epoch, k_ends)
  BY DEF RotationInv
<1> QED
  BY <1>1 DEF RotationInv

(* Beginning a verification keeps the invariant. *)
LEMMA BeginInv ==
  ASSUME RotationInv, NEW v \in Job, NEW t \in Token, Rotation!Begin(v, t)
  PROVE  RotationInv'
<1>1. /\ k_pc[v] = "idle" /\ k_token[t] # None
      /\ k_about' = [k_about EXCEPT ![v] = t] /\ k_began' = [k_began EXCEPT ![v] = k_now]
      /\ \/ /\ k_pc' = [k_pc EXCEPT ![v] = "done"]
            /\ k_result' = [k_result EXCEPT ![v] = "malformed-jws"] /\ k_held' = k_held
         \/ /\ k_pc' = [k_pc EXCEPT ![v] = "fetching"]
            /\ k_held' = [k_held EXCEPT ![v] = k_cache] /\ k_result' = k_result
      /\ k_now' = k_now /\ k_inst' = k_inst /\ k_epoch' = k_epoch /\ k_key' = k_key
      /\ k_fresh' = k_fresh /\ k_overlap' = k_overlap /\ k_ends' = k_ends
      /\ k_token' = k_token /\ k_reply' = k_reply /\ k_served' = k_served
  BY DEF Rotation!Begin, Rotation!Finish, Rotation!serverVars
<1>2. /\ DOMAIN k_pc' = Job /\ DOMAIN k_about' = Job /\ DOMAIN k_began' = Job
      /\ DOMAIN k_held' = Job /\ DOMAIN k_reply' = Job /\ DOMAIN k_result' = Job
      /\ \A u \in Job \ {v} :
           /\ k_pc'[u] = k_pc[u] /\ k_about'[u] = k_about[u] /\ k_began'[u] = k_began[u]
           /\ k_held'[u] = k_held[u] /\ k_reply'[u] = k_reply[u] /\ k_result'[u] = k_result[u]
      /\ k_pc'[v] \in {"done", "fetching"} /\ k_about'[v] = t /\ k_began'[v] = k_now
  BY <1>1 DEF RotationInv
<1>3. k_served[v] = None /\ k_now \in Nat
  BY <1>1 DEF RotationInv, VerOk, ServerOk
<1>4. VerOk(k_pc'[v], k_about'[v], k_began'[v], k_held'[v], k_reply'[v], k_result'[v],
            k_served[v], k_token, k_inst, k_epoch, k_ends)
  BY <1>1, <1>2, <1>3 DEF VerOk
<1> QED
  BY <1>1, <1>2, <1>4, CallMoves

(* A failed fetch of the key set keeps the invariant. *)
LEMMA ServeFailsInv ==
  ASSUME RotationInv, NEW v \in Job, Rotation!ServeFails(v)
  PROVE  RotationInv'
<1>1. /\ k_pc[v] = "fetching" /\ k_pc' = [k_pc EXCEPT ![v] = "replied"]
      /\ k_about' = k_about /\ k_began' = k_began /\ k_held' = k_held /\ k_result' = k_result
      /\ k_now' = k_now /\ k_inst' = k_inst /\ k_epoch' = k_epoch /\ k_key' = k_key
      /\ k_fresh' = k_fresh /\ k_overlap' = k_overlap /\ k_ends' = k_ends
      /\ k_token' = k_token /\ k_served' = k_served
  BY DEF Rotation!ServeFails, Rotation!serverVars, Rotation!callVars
<1>2. PICK s \in {"500", "network"} : k_reply' = [k_reply EXCEPT ![v] = [status |-> s]]
  BY DEF Rotation!ServeFails
<1>3. /\ DOMAIN k_pc' = Job /\ DOMAIN k_about' = Job /\ DOMAIN k_began' = Job
      /\ DOMAIN k_held' = Job /\ DOMAIN k_reply' = Job /\ DOMAIN k_result' = Job
      /\ \A u \in Job \ {v} :
           /\ k_pc'[u] = k_pc[u] /\ k_about'[u] = k_about[u] /\ k_began'[u] = k_began[u]
           /\ k_held'[u] = k_held[u] /\ k_reply'[u] = k_reply[u] /\ k_result'[u] = k_result[u]
      /\ k_pc'[v] = "replied"
  BY <1>1, <1>2 DEF RotationInv
<1>4. /\ k_served[v] = None
      /\ k_about[v] \in Token /\ k_token[k_about[v]] # None /\ k_began[v] \in Nat
  BY <1>1 DEF RotationInv, VerOk
<1>5. VerOk(k_pc'[v], k_about'[v], k_began'[v], k_held'[v], k_reply'[v], k_result'[v],
            k_served[v], k_token, k_inst, k_epoch, k_ends)
  BY <1>1, <1>3, <1>4 DEF VerOk
<1> QED
  BY <1>1, <1>3, <1>5, CallMoves

(***************************************************************************)
(* The verifier's steps reach the verdict, whatever it is.                 *)
(***************************************************************************)
LEMMA Judged ==
  ASSUME NEW v, NEW ks, Rotation!Judge(v, ks)
  PROVE  \E r : Rotation!Finish(v, r) /\ Verdict(k_token[k_about[v]], ks, k_began[v], r)
BY DEF Rotation!Judge, Verdict, Named, Good

(* A verdict on a token comes from the key set that was served. *)
LEMMA ReceiveInv ==
  ASSUME RotationInv, NEW v \in Job, Rotation!Receive(v)
  PROVE  RotationInv'
<1>1. /\ k_pc[v] = "replied"
      /\ k_held' = [k_held EXCEPT ![v] = None] /\ k_reply' = [k_reply EXCEPT ![v] = None]
      /\ k_about' = k_about /\ k_began' = k_began
      /\ k_now' = k_now /\ k_inst' = k_inst /\ k_epoch' = k_epoch /\ k_key' = k_key
      /\ k_fresh' = k_fresh /\ k_overlap' = k_overlap /\ k_ends' = k_ends
      /\ k_token' = k_token /\ k_served' = k_served
  BY DEF Rotation!Receive, Rotation!serverVars, Rotation!callVars
<1>2. VerOk(k_pc[v], k_about[v], k_began[v], k_held[v], k_reply[v], k_result[v],
            k_served[v], k_token, k_inst, k_epoch, k_ends)
  BY DEF RotationInv
<1>3. \E r : /\ Rotation!Finish(v, r)
             /\ k_served[v] # None =>
                  Verdict(k_token[k_about[v]], k_served[v].jwks, k_began[v], r)
  <2>1. CASE k_reply[v].status = "200" /\ Rotation!Judge(v, k_reply[v].body)
    <3>1. PICK r : /\ Rotation!Finish(v, r)
                   /\ Verdict(k_token[k_about[v]], k_reply[v].body, k_began[v], r)
      BY <2>1, Judged
    <3>2. k_served[v] # None => k_reply[v].body = k_served[v].jwks
      BY <1>1, <1>2, <2>1 DEF VerOk
    <3> QED
      BY <3>1, <3>2
  <2>2. CASE k_reply[v].status = "304" /\ Rotation!Judge(v, k_held[v])
    <3>1. PICK r : /\ Rotation!Finish(v, r)
                   /\ Verdict(k_token[k_about[v]], k_held[v], k_began[v], r)
      BY <2>2, Judged
    <3>2. k_served[v] # None => k_held[v] = k_served[v].jwks
      BY <1>1, <1>2, <2>2 DEF VerOk
    <3> QED
      BY <3>1, <3>2
  <2>3. CASE k_reply[v].status \in {"network", "500"}
    <3>1. k_served[v] = None
      BY <1>1, <1>2, <2>3 DEF VerOk
    <3>2. \E r : Rotation!Finish(v, r)
      BY <2>3, Judged DEF Rotation!Receive
    <3> QED
      BY <3>1, <3>2
  <2> QED
    BY <2>1, <2>2, <2>3 DEF Rotation!Receive
<1>4. PICK r : /\ Rotation!Finish(v, r)
               /\ k_served[v] # None =>
                    Verdict(k_token[k_about[v]], k_served[v].jwks, k_began[v], r)
  BY <1>3
<1>5. /\ DOMAIN k_pc' = Job /\ DOMAIN k_about' = Job /\ DOMAIN k_began' = Job
      /\ DOMAIN k_held' = Job /\ DOMAIN k_reply' = Job /\ DOMAIN k_result' = Job
      /\ \A u \in Job \ {v} :
           /\ k_pc'[u] = k_pc[u] /\ k_about'[u] = k_about[u] /\ k_began'[u] = k_began[u]
           /\ k_held'[u] = k_held[u] /\ k_reply'[u] = k_reply[u] /\ k_result'[u] = k_result[u]
      /\ k_pc'[v] = "done" /\ k_result'[v] = r
  BY <1>1, <1>4 DEF RotationInv, Rotation!Finish
<1>6. VerOk(k_pc'[v], k_about'[v], k_began'[v], k_held'[v], k_reply'[v], k_result'[v],
            k_served[v], k_token, k_inst, k_epoch, k_ends)
  BY <1>1, <1>2, <1>4, <1>5 DEF VerOk
<1> QED
  BY <1>1, <1>5, <1>6, CallMoves

(***************************************************************************)
(* The server's reply has the current key, and the demoted one exactly in  *)
(* its window.                                                             *)
(***************************************************************************)
LEMMA ServeInv ==
  ASSUME RotationInv, NEW v \in Job, Rotation!Serve(v)
  PROVE  RotationInv'
<1> DEFINE c == [kid |-> <<k_inst, k_epoch>>, key |-> k_key]
           o == Rotation!PurgeExpired(k_now)
           d == Rotation!CurrentJwks(o)
           s == [at |-> k_now, jwks |-> d]
           rp == [status |-> IF k_held[v] = d THEN "304" ELSE "200", body |-> d]
<1>1. /\ k_pc[v] = "fetching" /\ k_overlap' = o
      /\ k_pc' = [k_pc EXCEPT ![v] = "replied"]
      /\ k_reply' = [k_reply EXCEPT ![v] = rp]
      /\ k_served' = [k_served EXCEPT ![v] = s]
      /\ k_now' = k_now /\ k_inst' = k_inst /\ k_epoch' = k_epoch /\ k_key' = k_key
      /\ k_fresh' = k_fresh /\ k_ends' = k_ends /\ k_token' = k_token
      /\ k_about' = k_about /\ k_began' = k_began /\ k_held' = k_held /\ k_result' = k_result
  BY DEF Rotation!Serve, Rotation!callVars
<1>2. /\ ServerOk(k_now, k_inst, k_epoch, k_key, k_fresh, k_overlap, k_ends)
      /\ k_now \in 0..MaxNow /\ k_inst \in 0..MaxRestart /\ k_epoch \in 0..MaxRot
      /\ k_ends \in [Rotation!Kid -> Nat]
  BY DEF RotationInv, ServerOk
<1>3. /\ <<k_inst, k_epoch>> \in Rotation!Kid
      /\ <<k_inst, k_epoch>>[1] = k_inst /\ <<k_inst, k_epoch>>[2] = k_epoch
      /\ k_ends[<<k_inst, k_epoch>>] = MaxNow + 1
  BY <1>2, KidIn DEF ServerOk
<1>4. /\ o = None \/ o = k_overlap
      /\ k_overlap # None =>
           /\ k_overlap \in Rotation!Demoted /\ k_epoch > 0
           /\ k_overlap.kid = <<k_inst, k_epoch - 1>> /\ k_overlap.kid \in Rotation!Kid
           /\ k_ends[k_overlap.kid] = k_overlap.at + k_overlap.window
           /\ o = None <=> k_now > k_ends[k_overlap.kid]
  BY <1>2 DEF ServerOk, Rotation!PurgeExpired, Rotation!Demoted
<1>5. d = {c} \cup (IF o = None THEN {} ELSE {[kid |-> o.kid, key |-> o.key]})
  BY DEF Rotation!CurrentJwks, Rotation!ComputeKid
<1> HIDE DEF o, d
<1>6. s.at = k_now /\ s.jwks = d /\ rp.body = d
        /\ (rp.status = "200" \/ (rp.status = "304" /\ k_held[v] = d))
  OBVIOUS
<1> HIDE DEF s, rp
<1>7. /\ DOMAIN k_pc' = Job /\ DOMAIN k_reply' = Job /\ DOMAIN k_served' = Job
      /\ k_pc'[v] = "replied" /\ k_reply'[v] = rp /\ k_served'[v] = s
      /\ \A u \in Job \ {v} :
           k_pc'[u] = k_pc[u] /\ k_reply'[u] = k_reply[u] /\ k_served'[u] = k_served[u]
  BY <1>1 DEF RotationInv
<1>8. ServerOk(k_now, k_inst, k_epoch, k_key, k_fresh, o, k_ends)
  BY <1>2, <1>4 DEF ServerOk
<1>9. ServedOk(s, k_now, k_inst, k_epoch, k_ends)
  <2>1. /\ c = [kid |-> c.kid, key |-> c.key] /\ Made(c.kid, k_inst, k_epoch)
        /\ k_now <= k_ends[c.kid]
    BY <1>2, <1>3, RotationConstants DEF Made
  <2>2. ASSUME o # None
        PROVE  Made(o.kid, k_inst, k_epoch) /\ k_now <= k_ends[o.kid]
    <3>1. o = k_overlap /\ k_overlap # None
      BY <1>4, <2>2
    <3>2. o.kid[1] = k_inst /\ o.kid[2] = k_epoch - 1
      BY <1>4, <3>1, KidIn
    <3> QED
      BY <1>2, <1>4, <2>2, <3>1, <3>2 DEF Made
  <2> HIDE DEF c
  <2> QED
    BY <1>2, <1>5, <1>6, <2>1, <2>2 DEF ServedOk
<1>10. PICK F \in [Rotation!Kid -> Nat] :
         KeyOf(F, k_inst, k_epoch, k_key, k_overlap, k_token, k_served)
  BY DEF RotationInv
<1>11. \A j \in d : F[j.kid] = j.key
  BY <1>4, <1>5, <1>10 DEF KeyOf
<1>12. KeyOf(F, k_inst, k_epoch, k_key, o, k_token, k_served')
  BY <1>4, <1>6, <1>7, <1>10, <1>11 DEF KeyOf
<1>13. /\ k_about[v] \in Token /\ k_token[k_about[v]] # None /\ k_began[v] \in Nat
  BY <1>1 DEF RotationInv, VerOk
<1>14. InWindow(k_token[k_about[v]], s, k_inst, k_epoch, k_ends)
  <2> DEFINE x == k_token[k_about[v]]
  <2>1. Made(x.kid, k_inst, k_epoch) /\ F[x.kid] = x.key
    BY <1>10, <1>13 DEF RotationInv, TokenOk, KeyOf
  <2>2. x.kid[1] \in Nat /\ x.kid[2] \in Nat /\ x.kid = <<x.kid[1], x.kid[2]>>
    BY <2>1, KidParts DEF Made
  <2> SUFFICES ASSUME x.kid[1] = k_inst, k_epoch - x.kid[2] <= 1, k_now <= k_ends[x.kid]
               PROVE  [kid |-> x.kid, key |-> x.key] \in d
    BY <1>6 DEF InWindow
  <2>3. x.kid[2] = k_epoch \/ (k_epoch > 0 /\ x.kid[2] = k_epoch - 1)
    BY <1>2, <2>1, <2>2 DEF Made
  <2>4. CASE x.kid[2] = k_epoch
    <3>1. x.kid = <<k_inst, k_epoch>> /\ x.key = k_key
      BY <1>10, <2>1, <2>2, <2>4 DEF KeyOf
    <3> HIDE DEF x
    <3> QED
      BY <1>5, <3>1
  <2>5. CASE k_epoch > 0 /\ x.kid[2] = k_epoch - 1
    <3>1. x.kid = <<k_inst, k_epoch - 1>> /\ x.kid \in Rotation!Kid
      BY <2>1, <2>2, <2>5 DEF Made
    <3>2. k_overlap # None
      BY <1>2, <2>5, <3>1 DEF ServerOk
    <3>3. o = k_overlap /\ o # None
      BY <1>2, <1>4, <3>1, <3>2
    <3>4. o.kid = x.kid /\ o.key = x.key
      BY <1>4, <1>10, <2>1, <3>1, <3>2, <3>3 DEF KeyOf
    <3> HIDE DEF x
    <3> QED
      BY <1>5, <3>3, <3>4
  <2> QED
    BY <2>3, <2>4, <2>5
<1>15. \A u \in Job : VerOk(k_pc'[u], k_about[u], k_began[u], k_held[u], k_reply'[u],
                            k_result[u], k_served'[u], k_token, k_inst, k_epoch, k_ends)
  <2>1. VerOk(k_pc'[v], k_about[v], k_began[v], k_held[v], k_reply'[v], k_result[v],
              k_served'[v], k_token, k_inst, k_epoch, k_ends)
    BY <1>6, <1>7, <1>13, <1>14 DEF VerOk
  <2> QED
    BY <1>7, <2>1 DEF RotationInv
<1>16. \A u \in Job : k_served'[u] # None =>
         ServedOk(k_served'[u], k_now, k_inst, k_epoch, k_ends)
  BY <1>7, <1>9 DEF RotationInv
<1> QED
  BY <1>1, <1>7, <1>8, <1>12, <1>15, <1>16 DEF RotationInv

(* Every step of issuer, key set and verifiers keeps the invariant. *)
LEMMA RotationStep == RotationInv /\ [Rotation!Next]_Rotation!vars => RotationInv'
<1> SUFFICES ASSUME RotationInv, [Rotation!Next]_Rotation!vars PROVE RotationInv'
  OBVIOUS
<1>1. CASE UNCHANGED Rotation!vars
  BY <1>1 DEF Rotation!vars, RotationInv
<1>2. CASE Rotation!Tick
  <2>1. /\ k_now < MaxNow /\ k_now' = k_now + 1
        /\ k_inst' = k_inst /\ k_epoch' = k_epoch /\ k_key' = k_key
        /\ k_fresh' = k_fresh /\ k_overlap' = k_overlap /\ k_ends' = k_ends
        /\ k_token' = k_token /\ k_pc' = k_pc /\ k_about' = k_about /\ k_began' = k_began
        /\ k_held' = k_held /\ k_reply' = k_reply /\ k_result' = k_result
        /\ k_served' = k_served
    BY <1>2 DEF Rotation!Tick, Rotation!serverVars, Rotation!callVars
  <2>2. /\ k_now \in 0..MaxNow /\ k_now' \in 0..MaxNow /\ k_now <= k_now'
        /\ k_inst \in 0..MaxRestart /\ k_epoch \in 0..MaxRot
        /\ k_ends \in [Rotation!Kid -> Nat]
    BY <2>1, RotationConstants DEF RotationInv, ServerOk
  <2>3. k_epoch > 0 => <<k_inst, k_epoch - 1>> \in Rotation!Kid
    <3>1. k_epoch > 0 => k_epoch - 1 \in 0..MaxRot
      BY <2>2, RotationConstants
    <3> QED
      BY <2>2, <3>1, KidIn
  <2>4. ServerOk(k_now', k_inst, k_epoch, k_key, k_fresh, k_overlap, k_ends)
    BY <2>1, <2>2, <2>3 DEF RotationInv, ServerOk
  <2>5. \E F \in [Rotation!Kid -> Nat] :
          KeyOf(F, k_inst', k_epoch', k_key', k_overlap', k_token, k_served)
    BY <2>1 DEF RotationInv
  <2> QED
    BY <2>1, <2>2, <2>4, <2>5, ServerMoves
<1> QED
  BY <1>1, <1>2, RotateServerKeyInv, RestartInv, MintInv, BeginInv, ServeInv, ServeFailsInv,
     ReceiveInv DEF Rotation!Next

(* The invariant gives that rotation is sound. *)
LEMMA RotationImplies == RotationInv => Rotation!RotationSound
<1> SUFFICES ASSUME RotationInv PROVE Rotation!RotationSound
  OBVIOUS
<1>1. ASSUME NEW v \in Job, Rotation!Online(v)
      PROVE  /\ k_about[v] \in Token /\ k_token[k_about[v]] # None /\ k_began[v] \in Nat
             /\ TokenOk(k_token[k_about[v]], k_inst, k_epoch)
             /\ ServedOk(k_served[v], k_now, k_inst, k_epoch, k_ends)
             /\ InWindow(k_token[k_about[v]], k_served[v], k_inst, k_epoch, k_ends)
             /\ Verdict(k_token[k_about[v]], k_served[v].jwks, k_began[v], k_result[v])
  BY <1>1 DEF RotationInv, VerOk, Rotation!Online
<1>2. Rotation!InFlightKeepVerifying
  <2> SUFFICES ASSUME NEW v \in Job, Rotation!Online(v), Rotation!Sound(v),
                      k_inst = k_token[k_about[v]].kid[1], Rotation!Rotations(k_about[v]) <= 1,
                      k_served[v].at <= k_ends[k_token[k_about[v]].kid]
               PROVE  k_result[v] = "ok"
    BY DEF Rotation!InFlightKeepVerifying
  <2> DEFINE x == k_token[k_about[v]]
             j == [kid |-> x.kid, key |-> x.key]
  <2>1. j \in k_served[v].jwks
    BY <1>1 DEF InWindow, Rotation!Rotations
  <2>2. x.flaw = "none" /\ x.exp \in Nat /\ x.exp >= k_began[v] /\ k_began[v] \in Nat
    BY <1>1 DEF Rotation!Sound, TokenOk
  <2>3. j.kid = x.kid /\ j.key = x.key
    OBVIOUS
  <2>4. Verdict(x, k_served[v].jwks, k_began[v], k_result[v])
    BY <1>1
  <2> HIDE DEF x, j
  <2>5. j \in Good(x, k_served[v].jwks) /\ j \in Named(x, k_served[v].jwks)
    BY <2>1, <2>2, <2>3 DEF Good, Named
  <2> QED
    BY <2>2, <2>4, <2>5 DEF Verdict
<1>3. Rotation!RetiredNotAccepted
  BY <1>1 DEF Rotation!RetiredNotAccepted, Verdict, Good, Named, ServedOk
<1>4. Rotation!CacheTransparent
  <2> SUFFICES ASSUME NEW v \in Job, Rotation!Online(v)
               PROVE  LET kids == {j.kid : j \in k_served[v].jwks} IN
                        /\ k_result[v] = "unknown-kid" <=> k_token[k_about[v]].kid \notin kids
                        /\ k_result[v] = "ok" =>
                             [kid |-> k_token[k_about[v]].kid, key |-> k_token[k_about[v]].key]
                               \in k_served[v].jwks
    BY DEF Rotation!CacheTransparent
  <2> DEFINE x == k_token[k_about[v]]
             ks == k_served[v].jwks
  <2>1. /\ Verdict(x, ks, k_began[v], k_result[v])
        /\ \A j \in ks : j = [kid |-> j.kid, key |-> j.key]
    BY <1>1 DEF ServedOk
  <2> HIDE DEF x, ks
  <2>2. Named(x, ks) = {} <=> x.kid \notin {j.kid : j \in ks}
    BY DEF Named
  <2>3. Good(x, ks) # {} => Named(x, ks) # {} /\ [kid |-> x.kid, key |-> x.key] \in ks
    BY <2>1 DEF Good, Named
  <2>4. k_result[v] = "unknown-kid" <=> Named(x, ks) = {}
    BY <2>1, <2>3 DEF Verdict
  <2>5. k_result[v] = "ok" => [kid |-> x.kid, key |-> x.key] \in ks
    BY <2>1, <2>3 DEF Verdict
  <2> QED
    BY <2>2, <2>4, <2>5 DEF x, ks
<1>5. Rotation!KidNamesOneKey
  <2>1. PICK F \in [Rotation!Kid -> Nat] :
          KeyOf(F, k_inst, k_epoch, k_key, k_overlap, k_token, k_served)
    BY DEF RotationInv
  <2> DEFINE entries == (UNION {k_served[v].jwks : v \in {u \in Job : k_served[u] # None}})
                          \cup {[kid |-> k_token[t].kid, key |-> k_token[t].key] :
                                   t \in {u \in Token : k_token[u] # None}}
  <2>2. ASSUME NEW j \in entries PROVE F[j.kid] = j.key
    <3>1. CASE j \in UNION {k_served[v].jwks : v \in {u \in Job : k_served[u] # None}}
      BY <2>1, <3>1 DEF KeyOf
    <3>2. CASE j \in {[kid |-> k_token[t].kid, key |-> k_token[t].key] :
                         t \in {u \in Token : k_token[u] # None}}
      BY <2>1, <3>2 DEF KeyOf
    <3> QED
      BY <2>2, <3>1, <3>2
  <2> HIDE DEF entries
  <2>3. \A j, k \in entries : j.kid = k.kid => j.key = k.key
    BY <2>2
  <2> QED
    BY <2>3 DEF Rotation!KidNamesOneKey, entries
<1> QED
  BY <1>2, <1>3, <1>4, <1>5 DEF Rotation!RotationSound

(***************************************************************************)
(* Attestation between two origins, for any tokens, verifications, windows *)
(* and lifetime, with key file or without, through rotations, restarts and *)
(* the ETag cache: a token in flight keeps verifying in its window, a      *)
(* retired key is not accepted, the cache cannot be observed, a kid names  *)
(* one key (jwks.ts, server-key.ts, counterparty-verifier.ts).             *)
(***************************************************************************)
THEOREM RotationIsSound == Rotation!Spec => []Rotation!RotationSound
BY RotationInit, RotationStep, RotationImplies, PTL DEF Rotation!Spec

(***************************************************************************)
(* The same for the run of Gateway.                                        *)
(***************************************************************************)
THEOREM GatewayRotationSound == GatewaySpec => []RotationSound
<1> DEFINE Inv == part = "rotation" => RotationInv
<1>1. GatewayInit => Inv
  BY RotationInit DEF GatewayInit
<1>2. Inv /\ [GatewayNext]_all => Inv'
  BY PartStep, RotationStep
<1>3. Inv => RotationSound
  BY RotationImplies DEF RotationSound
<1> QED
  BY <1>1, <1>2, <1>3, PTL DEF GatewaySpec


-----------------------------------------------------------------------------
(* The rate limiter.                                                       *)

Calls(A, k, s) == {a \in A : a.key = k /\ a.at >= s}
Most == Rate!Top * Minute

(***************************************************************************)
(* A bucket of rate m with t tokens at time now, after the calls A of its  *)
(* key k: whatever second s one looks back to, the calls since then and    *)
(* the tokens left are at most a full bucket and what was refilled since.  *)
(***************************************************************************)
Paid(A, k, t, now) ==
  /\ t \in Nat
  /\ \A s \in 0..now :
       Cardinality(Calls(A, k, s)) * Minute + t <= Most + (now - s) * Rate!Top
  /\ \A a \in A : a.key = k =>
       a.at \in 0..now /\ a.left \in Nat /\ (a.at = now => a.left >= t)

BucketOk(b, A, k, now) ==
  /\ DOMAIN b = {"tokens", "last", "max"}
  /\ b.last \in 0..now /\ b.max \in 1..Rate!Top
  /\ Paid(A, k, b.tokens, b.last)

RateInv ==
  /\ r_clock \in Nat
  /\ IsFiniteSet(r_allowed)
  /\ \A a \in r_allowed : /\ a.key \in DOMAIN r_buckets
                          /\ a.at \in 0..r_clock /\ a.at > r_clock - Minute
                          /\ a.left \in Nat
  /\ \A k \in DOMAIN r_buckets : BucketOk(r_buckets[k], r_allowed, k, r_clock)

(***************************************************************************)
(* The largest rate exists, is one of them and bounds them all.            *)
(***************************************************************************)
LEMMA RateConstants ==
  /\ Minute \in Nat /\ Minute > 0 /\ IdleTicks \in Nat /\ IdleTicks >= Minute
  /\ PerMinute \in [Category -> Nat \ {0}] /\ IsFiniteSet(Category) /\ Category # {}
<1>1. IsFiniteSet(Category)
  BY RateAssumption DEF Rate!RateAssumption, Rate!IsFiniteSet, IsFiniteSet
<1> QED
  BY <1>1, RateAssumption DEF Rate!RateAssumption

(* Top is a natural that bounds the limit of every category. *)
LEMMA TopBounds ==
  Rate!Top \in Nat /\ \A c \in Category : PerMinute[c] \in 1..Rate!Top
<1> DEFINE P == {T \in SUBSET Category :
                   T = {} \/ \E c \in T : \A d \in T : PerMinute[c] >= PerMinute[d]}
<1>0. \A c \in Category : PerMinute[c] \in Nat /\ PerMinute[c] >= 1
  BY RateConstants
<1>1. ASSUME NEW T \in SUBSET Category, \A x \in T : T \ {x} \in P PROVE T \in P
  <2>1. SUFFICES ASSUME NEW x \in T PROVE \E c \in T : \A d \in T : PerMinute[c] >= PerMinute[d]
    OBVIOUS
  <2>2. CASE T \ {x} = {}
    BY <1>0, <2>2
  <2>3. CASE T \ {x} # {}
    <3>1. PICK c \in T \ {x} : \A d \in T \ {x} : PerMinute[c] >= PerMinute[d]
      BY <1>1, <2>3
    <3>2. CASE PerMinute[c] >= PerMinute[x]
      BY <3>1, <3>2
    <3>3. CASE ~(PerMinute[c] >= PerMinute[x])
      <4>1. \A d \in T : PerMinute[x] >= PerMinute[d]
        BY <1>0, <3>1, <3>3
      <4> QED
        BY <4>1
    <3> QED
      BY <3>2, <3>3
  <2> QED
    BY <2>2, <2>3
<1> HIDE DEF P
<1>2. Category \in P
  BY <1>1, RateConstants, SubsetInduct
<1>3. PICK c \in Category : \A d \in Category : PerMinute[c] >= PerMinute[d]
  BY <1>2, RateConstants DEF P
<1> DEFINE R == {PerMinute[d] : d \in Category}
<1>4. \E x \in R : \A y \in R : x >= y
  BY <1>3
<1>5. Rate!Top \in R /\ \A y \in R : Rate!Top >= y
  BY <1>4 DEF Rate!Top, Rate!Max
<1> QED
  BY <1>0, <1>5

(***************************************************************************)
(* Arithmetic.                                                             *)
(***************************************************************************)
LEMMA Times ==
  ASSUME NEW a \in Int, NEW b \in Int, NEW c \in Int
  PROVE  a * c \in Int /\ (a + b) * c = a * c + b * c /\ (a - b) * c = a * c - b * c
OBVIOUS

(* Multiplication by a natural is monotone. *)
LEMMA TimesGrows ==
  ASSUME NEW a \in Int, NEW b \in Int, NEW c \in Nat, a <= b
  PROVE  a * c <= b * c /\ c * a <= c * b
OBVIOUS

(* A positive factor can be cancelled from an inequality. *)
LEMMA TimesLeast ==
  ASSUME NEW a \in Int, NEW b \in Int, NEW c \in Nat, c > 0, a * c <= b * c
  PROVE  a <= b
<1>1. CASE a > b
  <2>1. a - b >= 1
    BY <1>1
  <2>2. (a - b) * c >= 1 * c
    BY <2>1
  <2> QED
    BY <2>2, Times
<1> QED
  BY <1>1

(* The minimum of two integers. *)
LEMMA MinOfTwo ==
  ASSUME NEW a \in Int, NEW b \in Int
  PROVE  Rate!Min({a, b}) \in {a, b} /\ Rate!Min({a, b}) <= a /\ Rate!Min({a, b}) <= b
<1>1. \E x \in {a, b} : \A y \in {a, b} : x =< y
  OBVIOUS
<1> QED
  BY <1>1 DEF Rate!Min

(***************************************************************************)
(* The calls since a second, one more or fewer.                            *)
(***************************************************************************)
LEMMA CallsFinite ==
  ASSUME NEW A, IsFiniteSet(A), NEW k, NEW s
  PROVE  IsFiniteSet(Calls(A, k, s)) /\ Cardinality(Calls(A, k, s)) \in Nat
<1>1. Calls(A, k, s) \in SUBSET A
  BY DEF Calls
<1> QED
  BY <1>1, FS_Subset, FS_CardinalityType

(* Fewer records hold fewer calls. *)
LEMMA CallsFewer ==
  ASSUME NEW A, IsFiniteSet(A), NEW B, B \subseteq A, NEW k, NEW s
  PROVE  Cardinality(Calls(B, k, s)) <= Cardinality(Calls(A, k, s))
<1>1. Calls(B, k, s) \in SUBSET Calls(A, k, s)
  BY DEF Calls
<1> QED
  BY <1>1, CallsFinite, FS_Subset

(***************************************************************************)
(* Old calls may be forgotten.                                             *)
(***************************************************************************)
LEMMA PaidFewer ==
  ASSUME NEW A, IsFiniteSet(A), NEW B, B \subseteq A, NEW k, NEW t, NEW now \in Nat,
         Paid(A, k, t, now), Rate!Top \in Nat
  PROVE  Paid(B, k, t, now)
<1> SUFFICES ASSUME NEW s \in 0..now
             PROVE  Cardinality(Calls(B, k, s)) * Minute + t <= Most + (now - s) * Rate!Top
  BY DEF Paid
<1> DEFINE n == Cardinality(Calls(A, k, s))
           m == Cardinality(Calls(B, k, s))
<1>1. n \in Nat /\ m \in Nat /\ m <= n
  BY CallsFinite, CallsFewer, FS_Subset
<1>2. n * Minute + t <= Most + (now - s) * Rate!Top /\ t \in Nat
  BY DEF Paid
<1> HIDE DEF n, m
<1>3. m * Minute <= n * Minute /\ m * Minute \in Int /\ n * Minute \in Int
  BY <1>1, RateConstants, TimesGrows, Times
<1>4. Most \in Int /\ (now - s) * Rate!Top \in Int
  BY RateConstants DEF Most
<1> QED
  BY <1>2, <1>3, <1>4 DEF n, m

(***************************************************************************)
(* A refill at time now, and a fresh bucket, keep the account.             *)
(***************************************************************************)
LEMMA PaidRefill ==
  ASSUME NEW A, IsFiniteSet(A), NEW k, NEW b, NEW now \in Nat,
         DOMAIN b = {"tokens", "last", "max"}, b.last \in 0..now, b.max \in 1..Rate!Top,
         Paid(A, k, b.tokens, b.last), Rate!Top \in Nat,
         NEW t, t = Rate!Min({b.max * Minute, b.tokens + (now - b.last) * b.max})
  PROVE  Paid(A, k, t, now)
<1> DEFINE T == Rate!Top
           d == now - b.last
<1>0. T \in Nat /\ d \in Nat /\ b.max \in Nat /\ b.max <= T /\ b.tokens \in Nat /\ b.last \in Nat
        /\ Minute \in Nat
  BY RateConstants DEF Paid
<1> HIDE DEF T
<1>1. /\ b.max * Minute \in Nat /\ d * b.max \in Nat /\ d * T \in Nat /\ T * Minute \in Nat
      /\ b.max * Minute <= T * Minute /\ d * b.max <= d * T
  BY <1>0, TimesGrows
<1> HIDE DEF d
<1>2. t \in Nat /\ t <= T * Minute /\ t <= b.tokens + d * T
      /\ t <= b.tokens + d * b.max
  <2> DEFINE p == b.max * Minute
             q == b.tokens + d * b.max
  <2>1. p \in Nat /\ q \in Nat /\ p <= T * Minute /\ q <= b.tokens + d * T
    BY <1>0, <1>1
  <2>2. t = Rate!Min({p, q})
    BY DEF d
  <2> HIDE DEF p, q
  <2>3. t \in {p, q} /\ t <= p /\ t <= q
    <3>1. p \in Int /\ q \in Int
      BY <2>1
    <3>2. Rate!Min({p, q}) \in {p, q} /\ Rate!Min({p, q}) <= p /\ Rate!Min({p, q}) <= q
      BY <3>1, MinOfTwo
    <3> QED
      BY <2>2, <3>2
  <2>4. t \in Nat /\ t <= T * Minute /\ t <= b.tokens + d * T /\ t <= q
    BY <1>0, <1>1, <2>1, <2>3
  <2> QED
    BY <2>4 DEF q
<1>3. ASSUME NEW s \in 0..now
      PROVE  Cardinality(Calls(A, k, s)) * Minute + t <= Most + (now - s) * T
  <2> DEFINE n == Cardinality(Calls(A, k, s))
  <2>0. n \in Nat /\ n * Minute \in Int
    BY <1>0, CallsFinite
  <2>1. CASE s <= b.last
    <3>1. n * Minute + b.tokens <= Most + (b.last - s) * T
      BY <1>0, <2>1 DEF Paid, T
    <3>2. (now - s) * T = d * T + (b.last - s) * T
      <4>1. now - s = d + (b.last - s)
        BY <1>0 DEF d
      <4>2. b.last - s \in Int
        BY <1>0
      <4> HIDE DEF d
      <4>3. (d + (b.last - s)) * T = d * T + (b.last - s) * T
        BY <1>0, <4>2, Times
      <4> QED
        BY <4>1, <4>3
    <3>3. (b.last - s) * T \in Int /\ Most \in Int
      BY <1>0, <1>1 DEF Most, T
    <3> HIDE DEF n
    <3> QED
      BY <1>0, <1>1, <1>2, <2>0, <3>1, <3>2, <3>3 DEF n
  <2>2. CASE ~(s <= b.last)
    <3>1. Calls(A, k, s) = {}
      BY <1>0, <2>2 DEF Calls, Paid
    <3>2. n * Minute = 0
      BY <1>0, <3>1, FS_EmptySet
    <3>3. (now - s) * T >= 0 /\ (now - s) * T \in Int /\ Most = T * Minute
      BY <1>0 DEF Most, T
    <3> QED
      BY <1>1, <1>2, <3>2, <3>3
  <2> QED
    BY <1>0, <2>1, <2>2
<1>4. ASSUME NEW a \in A, a.key = k
      PROVE  a.at \in 0..now /\ a.left \in Nat /\ (a.at = now => a.left >= t)
  <2>1. a.at \in 0..b.last /\ a.left \in Nat /\ (a.at = b.last => a.left >= b.tokens)
    BY <1>4 DEF Paid
  <2>2. a.at = now => a.left >= t
    <3>1. SUFFICES ASSUME a.at = now PROVE a.left >= t
      OBVIOUS
    <3>2. b.last = now /\ d = 0
      BY <1>0, <2>1, <3>1 DEF d
    <3>3. d * T = 0
      BY <1>0, <3>2
    <3> QED
      BY <1>0, <1>2, <2>1, <3>1, <3>2, <3>3
  <2> QED
    BY <1>0, <2>1, <2>2
<1> QED
  BY <1>2, <1>3, <1>4 DEF Paid, T


(***************************************************************************)
(* The bucket a call finds, refilled, or a new one: nothing of its key is  *)
(* on record when it is new.                                               *)
(***************************************************************************)
LEMMA Found ==
  ASSUME RateInv, NEW k, NEW cat \in Category,
         NEW b, b = Rate!Refill(Rate!GetOrCreate(k, cat))
  PROVE  /\ DOMAIN b = {"tokens", "last", "max"} /\ b.last = r_clock
         /\ b.max \in 1..Rate!Top /\ Rate!Top \in Nat
         /\ Paid(r_allowed, k, b.tokens, r_clock)
<1>0. Rate!Top \in Nat /\ PerMinute[cat] \in 1..Rate!Top /\ r_clock \in Nat /\ Minute \in Nat
      /\ IsFiniteSet(r_allowed)
  BY TopBounds, RateConstants DEF RateInv
<1> DEFINE c == Rate!GetOrCreate(k, cat)
<1>1. DOMAIN c = {"tokens", "last", "max"} /\ c.last \in 0..r_clock /\ c.max \in 1..Rate!Top
        /\ Paid(r_allowed, k, c.tokens, c.last)
  <2>1. CASE k \in DOMAIN r_buckets
    BY <2>1 DEF RateInv, BucketOk, Rate!GetOrCreate
  <2>2. CASE k \notin DOMAIN r_buckets
    <3>1. c = [tokens |-> PerMinute[cat] * Minute, last |-> r_clock, max |-> PerMinute[cat]]
      BY <2>2 DEF Rate!GetOrCreate, Rate!NewBucket
    <3>2. \A a \in r_allowed : a.key # k
      BY <2>2 DEF RateInv
    <3>3. ASSUME NEW s \in 0..r_clock
          PROVE  Cardinality(Calls(r_allowed, k, s)) * Minute + PerMinute[cat] * Minute
                   <= Most + (r_clock - s) * Rate!Top
      <4>1. Calls(r_allowed, k, s) = {}
        BY <3>2 DEF Calls
      <4>2. Cardinality(Calls(r_allowed, k, s)) * Minute = 0
        BY <1>0, <4>1, FS_EmptySet
      <4>3. (r_clock - s) * Rate!Top >= 0 /\ (r_clock - s) * Rate!Top \in Int
        BY <1>0
      <4>4. /\ PerMinute[cat] * Minute <= Rate!Top * Minute
            /\ PerMinute[cat] * Minute \in Nat /\ Rate!Top * Minute \in Nat
        BY <1>0, TimesGrows
      <4> QED
        BY <4>2, <4>3, <4>4 DEF Most
    <3>4. PerMinute[cat] * Minute \in Nat
      BY <1>0
    <3> QED
      BY <1>0, <3>1, <3>2, <3>3, <3>4 DEF Paid
  <2> QED
    BY <2>1, <2>2
<1>2. b = [c EXCEPT !.tokens = Rate!Min({c.max * Minute,
                                         c.tokens + (r_clock - c.last) * c.max}),
                    !.last = r_clock]
  BY DEF Rate!Refill
<1> HIDE DEF c
<1>3. /\ DOMAIN b = {"tokens", "last", "max"} /\ b.last = r_clock /\ b.max = c.max
      /\ b.tokens = Rate!Min({c.max * Minute, c.tokens + (r_clock - c.last) * c.max})
  BY <1>1, <1>2
<1>4. Paid(r_allowed, k, b.tokens, r_clock)
  BY <1>0, <1>1, <1>3, PaidRefill
<1> QED
  BY <1>0, <1>1, <1>3, <1>4

(***************************************************************************)
(* A call that is let through takes a token: one more since every second,  *)
(* and a minute's worth of units fewer.                                    *)
(***************************************************************************)
LEMMA PaidTake ==
  ASSUME NEW A, IsFiniteSet(A), NEW k, NEW t \in Nat, NEW now \in Nat, Paid(A, k, t, now),
         t >= Minute, NEW a, a.key = k, a.at = now, a.left = t - Minute, Rate!Top \in Nat
  PROVE  Paid(A \cup {a}, k, t - Minute, now)
<1>0. Minute \in Nat /\ Minute > 0 /\ t - Minute \in Nat
  BY RateConstants
<1>1. a \notin A
  <2> SUFFICES ASSUME a \in A PROVE FALSE
    OBVIOUS
  <2>1. a.left >= t
    BY DEF Paid
  <2> QED
    BY <1>0, <2>1
<1>2. ASSUME NEW s \in 0..now
      PROVE  Cardinality(Calls(A \cup {a}, k, s)) * Minute + (t - Minute)
               <= Most + (now - s) * Rate!Top
  <2> DEFINE n == Cardinality(Calls(A, k, s))
  <2>1. Calls(A \cup {a}, k, s) = Calls(A, k, s) \cup {a} /\ a \notin Calls(A, k, s)
    BY <1>1 DEF Calls
  <2>2. n \in Nat /\ Cardinality(Calls(A \cup {a}, k, s)) = n + 1
    BY <2>1, CallsFinite, FS_AddElement
  <2>3. n * Minute + t <= Most + (now - s) * Rate!Top
    BY DEF Paid
  <2> HIDE DEF n
  <2>4. (n + 1) * Minute = n * Minute + Minute /\ n * Minute \in Int
    BY <1>0, <2>2
  <2>5. Most \in Int /\ (now - s) * Rate!Top \in Int
    BY <1>0 DEF Most
  <2> QED
    BY <1>0, <2>2, <2>3, <2>4, <2>5
<1>3. ASSUME NEW x \in A \cup {a}, x.key = k
      PROVE  x.at \in 0..now /\ x.left \in Nat /\ (x.at = now => x.left >= t - Minute)
  <2>1. CASE x = a
    BY <1>0, <2>1
  <2>2. CASE x \in A
    BY <1>0, <1>3, <2>2 DEF Paid
  <2> QED
    BY <2>1, <2>2
<1> QED
  BY <1>0, <1>2, <1>3 DEF Paid

(***************************************************************************)
(* A bucket is not concerned by calls of other keys.                       *)
(***************************************************************************)
LEMMA PaidOther ==
  ASSUME NEW A, NEW a, NEW k, a.key # k, NEW t, NEW now, Paid(A, k, t, now)
  PROVE  Paid(A \cup {a}, k, t, now)
<1>1. \A s : Calls(A \cup {a}, k, s) = Calls(A, k, s)
  BY DEF Calls
<1> QED
  BY <1>1 DEF Paid

(* A request that is allowed, or refused, keeps what a bucket says about the *)
(* calls before it.                                                          *)
LEMMA CheckInv ==
  ASSUME RateInv, NEW k \in Keys, NEW cat \in Category, Rate!Check(k, cat)
  PROVE  RateInv'
<1> DEFINE b == Rate!Refill(Rate!GetOrCreate(k, cat))
           ok == b.tokens >= Minute
           a == [key |-> k, cat |-> cat, at |-> r_clock, left |-> b.tokens - Minute]
           v == IF ok THEN [b EXCEPT !.tokens = @ - Minute] ELSE b
<1>1. /\ r_buckets' = [x \in DOMAIN r_buckets \cup {k} |-> IF x # k THEN r_buckets[x] ELSE v]
      /\ r_allowed' = IF ok THEN r_allowed \cup {a} ELSE r_allowed
      /\ r_clock' = r_clock
  BY DEF Rate!Check
<1>2. /\ DOMAIN b = {"tokens", "last", "max"} /\ b.last = r_clock
      /\ b.max \in 1..Rate!Top /\ Rate!Top \in Nat
      /\ Paid(r_allowed, k, b.tokens, r_clock)
  BY Found
<1>3. b.tokens \in Nat /\ r_clock \in Nat /\ Minute \in Nat /\ Minute > 0 /\ IsFiniteSet(r_allowed)
  BY <1>2, RateConstants DEF Paid, RateInv
<1>4. /\ a.key = k /\ a.at = r_clock /\ a.left = b.tokens - Minute
      /\ DOMAIN v = {"tokens", "last", "max"} /\ v.last = r_clock /\ v.max = b.max
      /\ v.tokens = IF ok THEN b.tokens - Minute ELSE b.tokens
  BY <1>2
<1>5. /\ DOMAIN r_buckets' = DOMAIN r_buckets \cup {k} /\ r_buckets'[k] = v
      /\ \A x \in DOMAIN r_buckets \ {k} : r_buckets'[x] = r_buckets[x]
  BY <1>1
<1> HIDE DEF b, a, v
<1>6. Paid(r_allowed', k, v.tokens, r_clock)
  BY <1>1, <1>2, <1>3, <1>4, PaidTake
<1>7. BucketOk(r_buckets'[k], r_allowed', k, r_clock)
  BY <1>2, <1>3, <1>4, <1>5, <1>6 DEF BucketOk
<1>8. ASSUME NEW x \in DOMAIN r_buckets \ {k}
      PROVE  BucketOk(r_buckets'[x], r_allowed', x, r_clock)
  <2>1. BucketOk(r_buckets[x], r_allowed, x, r_clock)
    BY DEF RateInv
  <2>2. Paid(r_allowed', x, r_buckets[x].tokens, r_buckets[x].last)
    BY <1>1, <1>4, <2>1, PaidOther DEF BucketOk
  <2> QED
    BY <1>5, <2>1, <2>2 DEF BucketOk
<1>9. IsFiniteSet(r_allowed')
  BY <1>1, <1>3, FS_AddElement
<1>10. \A x \in r_allowed' : /\ x.key \in DOMAIN r_buckets'
                             /\ x.at \in 0..r_clock /\ x.at > r_clock - Minute
                             /\ x.left \in Nat
  BY <1>1, <1>3, <1>4, <1>5 DEF RateInv
<1> QED
  BY <1>1, <1>3, <1>5, <1>7, <1>8, <1>9, <1>10 DEF RateInv

(***************************************************************************)
(* The clean-up forgets only keys none of whose calls are on record.       *)
(***************************************************************************)
LEMMA CleanupInv == ASSUME RateInv, Rate!Cleanup PROVE RateInv'
<1>1. /\ DOMAIN r_buckets' = {x \in DOMAIN r_buckets : r_clock - r_buckets[x].last <= IdleTicks}
      /\ \A x \in DOMAIN r_buckets' : r_buckets'[x] = r_buckets[x]
      /\ r_clock' = r_clock /\ r_allowed' = r_allowed
  BY DEF Rate!Cleanup
<1>2. ASSUME NEW a \in r_allowed PROVE a.key \in DOMAIN r_buckets'
  <2>1. /\ a.key \in DOMAIN r_buckets /\ a.at > r_clock - Minute /\ a.at \in 0..r_clock
        /\ BucketOk(r_buckets[a.key], r_allowed, a.key, r_clock) /\ r_clock \in Nat
    BY DEF RateInv
  <2>2. a.at <= r_buckets[a.key].last /\ r_buckets[a.key].last \in 0..r_clock
    BY <2>1 DEF BucketOk, Paid
  <2> QED
    BY <1>1, <2>1, <2>2, RateConstants
<1> QED
  BY <1>1, <1>2 DEF RateInv

(* Time passing, and the cleanup of idle buckets, keep the invariant. *)
LEMMA RateTickInv == ASSUME RateInv, Rate!Tick PROVE RateInv'
<1>1. /\ r_clock' = r_clock + 1 /\ r_buckets' = r_buckets
      /\ r_allowed' = {a \in r_allowed : a.at > r_clock' - Minute}
  BY DEF Rate!Tick
<1>2. r_allowed' \subseteq r_allowed /\ IsFiniteSet(r_allowed) /\ IsFiniteSet(r_allowed')
        /\ r_clock \in Nat
  BY <1>1, FS_Subset DEF RateInv
<1>3. ASSUME NEW k \in DOMAIN r_buckets
      PROVE  BucketOk(r_buckets[k], r_allowed', k, r_clock + 1)
  <2>1. BucketOk(r_buckets[k], r_allowed, k, r_clock)
    BY DEF RateInv
  <2>2. r_buckets[k].last \in Nat /\ Rate!Top \in Nat
    BY <1>2, <2>1, TopBounds DEF BucketOk
  <2>3. Paid(r_allowed', k, r_buckets[k].tokens, r_buckets[k].last)
    BY <1>2, <2>1, <2>2, PaidFewer DEF BucketOk
  <2>4. r_buckets[k].last \in 0..r_clock + 1
    BY <1>2, <2>1 DEF BucketOk
  <2> QED
    BY <2>1, <2>3, <2>4 DEF BucketOk
<1>4. ASSUME NEW a \in r_allowed'
      PROVE  /\ a.key \in DOMAIN r_buckets /\ a.left \in Nat
             /\ a.at \in 0..r_clock' /\ a.at > r_clock' - Minute
  <2>1. /\ a.key \in DOMAIN r_buckets /\ a.left \in Nat /\ a.at \in 0..r_clock
    BY <1>2 DEF RateInv
  <2>2. a.at > r_clock' - Minute
    BY <1>1
  <2>3. a.at \in 0..r_clock'
    BY <1>1, <1>2, <2>1
  <2> QED
    BY <2>1, <2>2, <2>3
<1>5. r_clock' \in Nat
  BY <1>1, <1>2
<1>6. \A k \in DOMAIN r_buckets' : BucketOk(r_buckets'[k], r_allowed', k, r_clock')
  BY <1>1, <1>3
<1>7. \A a \in r_allowed' : /\ a.key \in DOMAIN r_buckets' /\ a.left \in Nat
                             /\ a.at \in 0..r_clock' /\ a.at > r_clock' - Minute
  BY <1>1, <1>4
<1> QED
  BY <1>2, <1>5, <1>6, <1>7 DEF RateInv

(* The rate limiter starts in the invariant. *)
LEMMA RateInit == Rate!Init => RateInv
BY FS_EmptySet DEF Rate!Init, RateInv

(* Every step of the rate limiter keeps the invariant. *)
LEMMA RateStep == RateInv /\ [Rate!Next]_Rate!vars => RateInv'
<1> SUFFICES ASSUME RateInv, [Rate!Next]_Rate!vars PROVE RateInv'
  OBVIOUS
<1>1. CASE UNCHANGED Rate!vars
  BY <1>1 DEF Rate!vars, RateInv
<1> QED
  BY <1>1, CheckInv, CleanupInv, RateTickInv DEF Rate!Next

(* The invariant gives the bound on what is allowed within a minute. *)
LEMMA RateImplies == RateInv => Rate!RateBound
<1> SUFFICES ASSUME RateInv, NEW k \in Keys
             PROVE  Rate!Cardinality({a \in r_allowed : a.key = k}) <= 2 * Rate!Top
  BY DEF Rate!RateBound
<1> DEFINE A == {a \in r_allowed : a.key = k}
           n == Cardinality(A)
<1>0. Rate!Cardinality(A) = n
  BY DEF Rate!Cardinality, Cardinality
<1>1. CASE A = {}
  <2>1. n = 0
    BY <1>1, FS_EmptySet
  <2>2. 0 <= 2 * Rate!Top
    BY TopBounds
  <2> QED
    BY <1>0, <2>1, <2>2
<1>2. CASE A # {}
  <2> DEFINE b == r_buckets[k]
             s == IF r_clock >= Minute THEN r_clock - Minute + 1 ELSE 0
             T == Rate!Top
  <2>1. PICK c \in r_allowed : c.key = k
    BY <1>2
  <2>2. /\ k \in DOMAIN r_buckets /\ BucketOk(b, r_allowed, k, r_clock) /\ r_clock \in Nat
        /\ c.at \in 0..r_clock /\ c.at > r_clock - Minute
    BY <2>1 DEF RateInv
  <2>3. b.last \in 0..r_clock /\ c.at <= b.last /\ T \in Nat /\ b.tokens \in Nat
    BY <2>1, <2>2, TopBounds DEF BucketOk, Paid
  <2>4. s \in 0..b.last /\ b.last - s <= Minute /\ b.last - s \in Nat
    BY <2>2, <2>3, RateConstants
  <2>5. Calls(r_allowed, k, s) = A
    BY <2>2, RateConstants DEF Calls, RateInv
  <2>6. n \in Nat
    BY <2>5, CallsFinite DEF RateInv
  <2> HIDE DEF s, A, n, b, T
  <2>7. n * Minute + b.tokens <= Most + (b.last - s) * T
    BY <2>2, <2>4, <2>5 DEF BucketOk, Paid, n, T
  <2>8. /\ (b.last - s) * T <= Minute * T /\ Most = T * Minute /\ Minute * T = T * Minute
        /\ (b.last - s) * T \in Int /\ T * Minute \in Int /\ n * Minute \in Int
        /\ (2 * T) * Minute = T * Minute + T * Minute
    <3>1. (b.last - s) * T <= Minute * T
      BY <2>3, <2>4, RateConstants, TimesGrows
    <3> QED
      BY <2>3, <2>4, <2>6, <3>1, RateConstants DEF Most, T
  <2>9. n * Minute <= (2 * T) * Minute
    BY <2>3, <2>7, <2>8
  <2>10. n <= 2 * T
    BY <2>3, <2>6, <2>9, RateConstants, TimesLeast
  <2> QED
    BY <1>0, <2>10 DEF T, A
<1> QED
  BY <1>1, <1>2

(***************************************************************************)
(* The token bucket, for any keys, categories and rates and any clean-up   *)
(* period of a minute or more: in no minute does a key get more than a     *)
(* full bucket and a minute's refill of the largest rate                   *)
(* (rate-limiter.ts).                                                      *)
(***************************************************************************)
THEOREM RateIsBounded == Rate!Spec => []Rate!RateBound
BY RateInit, RateStep, RateImplies, PTL DEF Rate!Spec

(***************************************************************************)
(* The same for the run of Gateway.                                        *)
(***************************************************************************)
THEOREM GatewayRateBound == GatewaySpec => []RateBound
<1> DEFINE Inv == part = "rate" => RateInv
<1>1. GatewayInit => Inv
  BY RateInit DEF GatewayInit
<1>2. Inv /\ [GatewayNext]_all => Inv'
  BY PartStep, RateStep
<1>3. Inv => RateBound
  BY RateImplies DEF RateBound
<1> QED
  BY <1>1, <1>2, <1>3, PTL DEF GatewaySpec

-----------------------------------------------------------------------------
(* Callbacks to a BAP: the envelope of the rows, then its delivery.        *)

(* A set of positions that is not empty has a last one. *)
LEMMA LastIn ==
  ASSUME NEW n \in Nat, NEW s \in SUBSET (1 .. n), s # {}
  PROVE  Max(s) \in s /\ \A y \in s : Max(s) >= y
<1> DEFINE Q == {m \in Nat : \A T \in SUBSET (1 .. m) :
                               T # {} => \E x \in T : \A y \in T : x >= y}
<1>1. 0 \in Q
  <2>1. 1 .. 0 = {}
    OBVIOUS
  <2> QED
    BY <2>1
<1>2. ASSUME NEW m \in Q PROVE m + 1 \in Q
  <2>1. ASSUME NEW T \in SUBSET (1 .. m + 1), T # {}
        PROVE  \E x \in T : \A y \in T : x >= y
    <3>1. CASE m + 1 \in T
      BY <1>2, <3>1
    <3>2. CASE m + 1 \notin T
      <4>1. T \in SUBSET (1 .. m)
        BY <1>2, <3>2
      <4> QED
        BY <1>2, <2>1, <4>1
    <3> QED
      BY <3>1, <3>2
  <2> QED
    BY <1>2, <2>1
<1> HIDE DEF Q
<1>3. Q = Nat
  BY <1>1, <1>2, NatInduct DEF Q
<1>4. \E x \in s : \A y \in s : x >= y
  BY <1>3 DEF Q
<1> QED
  BY <1>4 DEF Max

(* The provider entries of the rows at the positions in s, taken from the  *)
(* last one down.                                                          *)
Gathers(rows, n, g) ==
  g = [s \in SUBSET (1 .. n) |->
         IF s = {} THEN <<>> ELSE Callback!AddRow(g[s \ {Max(s)}], rows[Max(s)])]

Gather(rows, n) == CHOOSE g : Gathers(rows, n, g)

(* Providers is that function at all positions. *)
LEMMA ProvidersGather ==
  ASSUME NEW rows, NEW n, DOMAIN rows = 1 .. n
  PROVE  Callback!Providers(rows) = Gather(rows, n)[1 .. n]
BY DEF Callback!Providers, Callback!FoldLeft, Callback!MapThenFoldSet, Callback!Max, Gather, Gathers, Max

(* It exists: larger sets rest on smaller ones. *)
LEMMA GatherExists ==
  ASSUME NEW rows, NEW n \in Nat
  PROVE  Gathers(rows, n, Gather(rows, n))
<1> DEFINE Small(m) == {s \in SUBSET (1 .. n) : Cardinality(s) <= m}
           Value(g, s) == IF s = {} THEN <<>> ELSE Callback!AddRow(g[s \ {Max(s)}], rows[Max(s)])
           Q == {m \in Nat : \E g : g = [s \in Small(m) |-> Value(g, s)]}
<1>1. IsFiniteSet(1 .. n) /\ Cardinality(1 .. n) = n
  BY FS_Interval
<1>2. \A s \in SUBSET (1 .. n) : IsFiniteSet(s) /\ Cardinality(s) \in Nat /\ Cardinality(s) <= n
  BY <1>1, FS_Subset, FS_CardinalityType
<1>3. \A s \in SUBSET (1 .. n) : s # {} =>
        /\ s \ {Max(s)} \in SUBSET (1 .. n)
        /\ Cardinality(s \ {Max(s)}) = Cardinality(s) - 1
  BY <1>2, LastIn, FS_RemoveElement
<1>4. \A s \in SUBSET (1 .. n) : Cardinality(s) <= 0 => s = {}
  BY <1>2, FS_EmptySet
<1>5. 0 \in Q
  <2> DEFINE g == [s \in Small(0) |-> <<>>]
  <2>1. \A s \in Small(0) : s = {}
    BY <1>4
  <2>2. g = [s \in Small(0) |-> Value(g, s)]
    BY <2>1
  <2> QED
    BY <2>2
<1>6. ASSUME NEW m \in Q PROVE m + 1 \in Q
  <2>1. PICK h : h = [s \in Small(m) |-> Value(h, s)]
    BY <1>6
  <2> DEFINE g == [s \in Small(m + 1) |-> Value(h, s)]
  <2>2. \A s \in Small(m + 1) : s # {} => s \ {Max(s)} \in Small(m)
    BY <1>2, <1>3, <1>6
  <2>3. \A s \in Small(m) : s \in Small(m + 1) /\ h[s] = Value(h, s)
    <3>1. \A s \in Small(m) : s \in Small(m + 1)
      BY <1>2, <1>6
    <3> HIDE DEF Small, Value
    <3>2. \A s \in Small(m) : h[s] = Value(h, s)
      BY <2>1
    <3> QED
      BY <3>1, <3>2
  <2>4. \A s \in Small(m) : g[s] = h[s]
    BY <2>3
  <2>5. \A s \in Small(m + 1) : Value(h, s) = Value(g, s)
    <3> HIDE DEF g, Small
    <3> QED
      BY <2>2, <2>4
  <2> HIDE DEF Value, Small
  <2>6. g = [s \in Small(m + 1) |-> Value(g, s)]
    BY <2>5
  <2>7. m + 1 \in Nat
    BY <1>6
  <2> HIDE DEF g
  <2> QED
    BY <2>6, <2>7
<1> HIDE DEF Q
<1>7. Q = Nat
  BY <1>5, <1>6, NatInduct DEF Q
<1>8. Small(n) = SUBSET (1 .. n)
  BY <1>2
<1>9. PICK g : g = [s \in SUBSET (1 .. n) |-> Value(g, s)]
  <2> HIDE DEF Small, Value
  <2> QED
    BY <1>7, <1>8 DEF Q
<1>10. Gathers(rows, n, g)
  BY <1>9 DEF Gathers
<1> QED
  BY <1>10 DEF Gather

(* Along the positions, it adds one row after the other. *)
LEMMA GatherNext ==
  ASSUME NEW rows, NEW n \in Nat
  PROVE  /\ Gather(rows, n)[1 .. 0] = <<>>
         /\ \A k \in 0 .. n - 1 :
              Gather(rows, n)[1 .. k + 1] = Callback!AddRow(Gather(rows, n)[1 .. k], rows[k + 1])
<1> DEFINE g == Gather(rows, n)
<1>1. \A s \in SUBSET (1 .. n) :
        g[s] = IF s = {} THEN <<>> ELSE Callback!AddRow(g[s \ {Max(s)}], rows[Max(s)])
  BY GatherExists DEF Gathers
<1> HIDE DEF g
<1>2. g[1 .. 0] = <<>>
  <2>1. 1 .. 0 = {} /\ {} \in SUBSET (1 .. n)
    OBVIOUS
  <2> QED
    BY <1>1, <2>1
<1>3. ASSUME NEW k \in 0 .. n - 1
      PROVE  g[1 .. k + 1] = Callback!AddRow(g[1 .. k], rows[k + 1])
  <2>1. 1 .. k + 1 \in SUBSET (1 .. n) /\ k + 1 \in 1 .. k + 1 /\ 1 .. k + 1 # {}
    OBVIOUS
  <2>2. Max(1 .. k + 1) = k + 1
    <3>1. Max(1 .. k + 1) \in 1 .. k + 1 /\ Max(1 .. k + 1) >= k + 1
      BY <2>1, LastIn
    <3> QED
      BY <3>1
  <2>3. (1 .. k + 1) \ {k + 1} = 1 .. k
    OBVIOUS
  <2> QED
    BY <1>1, <2>1, <2>2, <2>3
<1> QED
  BY <1>2, <1>3 DEF g

(* The concatenations of the first sequences of q, one after the other. *)
Concats(q, n, h) ==
  /\ h[0] = <<>>
  /\ \A k \in 0 .. n - 1 : h[k + 1] = h[k] \o q[k + 1]

(* They exist. *)
LEMMA ConcatsExist ==
  ASSUME NEW I, NEW n \in Nat, NEW q \in [1 .. n -> Seq(I)]
  PROVE  \E h \in [0 .. n -> Seq(I)] : Concats(q, n, h)
<1> DEFINE Q == {m \in Nat : m <= n => \E h \in [0 .. m -> Seq(I)] : Concats(q, m, h)}
<1>1. 0 \in Q
  <2> DEFINE h == [k \in 0 .. 0 |-> <<>>]
  <2>1. h \in [0 .. 0 -> Seq(I)] /\ Concats(q, 0, h)
    BY DEF Concats
  <2> QED
    BY <2>1
<1>2. ASSUME NEW m \in Q PROVE m + 1 \in Q
  <2> SUFFICES ASSUME m + 1 <= n PROVE \E h \in [0 .. m + 1 -> Seq(I)] : Concats(q, m + 1, h)
    BY <1>2
  <2>1. PICK h \in [0 .. m -> Seq(I)] : Concats(q, m, h)
    BY <1>2
  <2> DEFINE g == [k \in 0 .. m + 1 |-> IF k = m + 1 THEN h[m] \o q[m + 1] ELSE h[k]]
  <2>2. m \in Nat /\ m + 1 \in 1 .. n
    BY <1>2
  <2>3. h[m] \in Seq(I) /\ q[m + 1] \in Seq(I)
    BY <2>1, <2>2
  <2>4. h[m] \o q[m + 1] \in Seq(I)
    BY <2>3
  <2>5. g \in [0 .. m + 1 -> Seq(I)]
    BY <2>2, <2>4
  <2>6. g[m + 1] = h[m] \o q[m + 1] /\ \A k \in 0 .. m : g[k] = h[k]
    BY <2>2
  <2> HIDE DEF g
  <2>7. g[0] = <<>>
    BY <2>1, <2>2, <2>6 DEF Concats
  <2>8. ASSUME NEW k \in 0 .. (m + 1) - 1 PROVE g[k + 1] = g[k] \o q[k + 1]
    <3>1. CASE k = m
      <4>1. g[m] = h[m]
        BY <2>2, <2>6
      <4> QED
        BY <2>6, <3>1, <4>1
    <3>2. CASE k # m
      <4>1. k \in 0 .. m - 1 /\ k \in 0 .. m /\ k + 1 \in 0 .. m
        BY <2>2, <3>2
      <4>2. h[k + 1] = h[k] \o q[k + 1]
        BY <2>1, <4>1 DEF Concats
      <4> QED
        BY <2>6, <4>1, <4>2
    <3> QED
      BY <3>1, <3>2
  <2>9. Concats(q, m + 1, g)
    BY <2>7, <2>8 DEF Concats
  <2> QED
    BY <2>5, <2>9
<1> HIDE DEF Q
<1>3. Q = Nat
  BY <1>1, <1>2, NatInduct DEF Q
<1> QED
  BY <1>3 DEF Q

(* FlattenSeq is the last of them. *)
LEMMA FlattenIsLast ==
  ASSUME NEW I, NEW n \in Nat, NEW q \in [1 .. n -> Seq(I)],
         NEW h \in [0 .. n -> Seq(I)], Concats(q, n, h)
  PROVE  Callback!FlattenSeq(q) = h[n]
<1> DEFINE Flat(f) == f = [i \in 1 .. n |-> IF i = 1 THEN q[i] ELSE f[i - 1] \o q[i]]
           F == CHOOSE f : Flat(f)
<1>1. q \in Seq(Seq(I)) /\ Len(q) = n
  OBVIOUS
<1>2. CASE n = 0
  <2>1. q = <<>>
    BY <1>1, <1>2
  <2> QED
    BY <1>1, <1>2, <2>1 DEF Callback!FlattenSeq, Concats
<1>3. CASE n # 0
  <2>1. Callback!FlattenSeq(q) = F[n]
    BY <1>1, <1>3 DEF Callback!FlattenSeq
  <2> DEFINE f == [i \in 1 .. n |-> h[i]]
  <2>2. ASSUME NEW i \in 1 .. n PROVE h[i] = IF i = 1 THEN q[i] ELSE h[i - 1] \o q[i]
    <3>1. i - 1 \in 0 .. n - 1 /\ (i - 1) + 1 = i
      OBVIOUS
    <3>2. h[i] = h[i - 1] \o q[i]
      BY <3>1 DEF Concats
    <3>3. i = 1 => h[i] = q[i]
      <4>1. q[i] \in Seq(I)
        OBVIOUS
      <4>2. <<>> \o q[i] = q[i]
        BY <4>1
      <4>3. h[0] = <<>>
        BY DEF Concats
      <4>4. i = 1 => i - 1 = 0
        OBVIOUS
      <4> QED
        BY <3>2, <4>2, <4>3, <4>4
    <3> QED
      BY <3>2, <3>3
  <2>3. \A i \in 1 .. n : f[i] = IF i = 1 THEN q[i] ELSE f[i - 1] \o q[i]
    <3> SUFFICES ASSUME NEW i \in 1 .. n PROVE f[i] = IF i = 1 THEN q[i] ELSE f[i - 1] \o q[i]
      OBVIOUS
    <3>1. f[i] = h[i] /\ (i # 1 => f[i - 1] = h[i - 1])
      OBVIOUS
    <3> HIDE DEF f
    <3> QED
      BY <2>2, <3>1
  <2>4. Flat(f)
    <3>1. f = [i \in 1 .. n |-> f[i]]
      OBVIOUS
    <3> HIDE DEF f
    <3> QED
      BY <2>3, <3>1
  <2> HIDE DEF f
  <2>5. Flat(F)
    BY <2>4
  <2> HIDE DEF F
  <2>6. \A i \in 1 .. n : F[i] = IF i = 1 THEN q[i] ELSE F[i - 1] \o q[i]
    BY <2>5
  <2> HIDE DEF Flat
  <2> DEFINE Q == {i \in Nat : i + 1 <= n => F[i + 1] = h[i + 1]}
  <2>7. 0 \in Q
    BY <1>3, <2>2, <2>6
  <2>8. ASSUME NEW i \in Q PROVE i + 1 \in Q
    <3> SUFFICES ASSUME (i + 1) + 1 <= n PROVE F[(i + 1) + 1] = h[(i + 1) + 1]
      BY <2>8
    <3>1. F[i + 1] = h[i + 1]
      BY <2>8
    <3>2. (i + 1) + 1 \in 1 .. n /\ (i + 1) + 1 # 1 /\ ((i + 1) + 1) - 1 = i + 1
      BY <2>8
    <3>3. /\ F[(i + 1) + 1] = F[i + 1] \o q[(i + 1) + 1]
          /\ h[(i + 1) + 1] = h[i + 1] \o q[(i + 1) + 1]
      BY <2>2, <2>6, <3>2
    <3> QED
      BY <3>1, <3>3
  <2> HIDE DEF Q
  <2>9. Q = Nat
    BY <2>7, <2>8, NatInduct DEF Q
  <2>10. F[n] = h[n]
    <3>1. n - 1 \in Q /\ (n - 1) + 1 = n
      BY <1>3, <2>9
    <3> QED
      BY <3>1 DEF Q
  <2> QED
    BY <2>1, <2>10
<1> QED
  BY <1>2, <1>3

(* The providers of a list of entries or rows, and that it has none twice. *)
ProviderSet(ps) == {ps[a].provider : a \in 1 .. Len(ps)}

ProvidersOnce(ps) == \A a, b \in 1 .. Len(ps) : ps[a].provider = ps[b].provider => a = b

(* Entries with providers in P and items in I. *)
CatalogEntry(P, I) == [provider : P, items : Seq(I)]

(* What the entries qs have, after the row, of the entries ps before it. *)
MergedRow(ps, row, qs) ==
  \A a \in 1 .. Len(qs) :
    \/ /\ qs[a].provider # row.provider
       /\ \E b \in 1 .. Len(ps) : qs[a] = ps[b]
    \/ /\ qs[a].provider = row.provider
       /\ \E b \in 1 .. Len(ps) : /\ ps[b].provider = row.provider
                                  /\ qs[a].items = ps[b].items \o row.items
    \/ /\ qs[a].provider = row.provider
       /\ row.provider \notin ProviderSet(ps)
       /\ qs[a].items = row.items

(* One more row: its provider is added once, or its items to the entry of  *)
(* its provider; the other entries stay.                                   *)
LEMMA AddRowOk ==
  ASSUME NEW Names, NEW Things, NEW before \in Seq(CatalogEntry(Names, Things)),
         NEW added \in CatalogEntry(Names, Things), ProvidersOnce(before),
         NEW after, after = Callback!AddRow(before, added)
  PROVE  /\ after \in Seq(CatalogEntry(Names, Things))
         /\ ProvidersOnce(after)
         /\ ProviderSet(after) = ProviderSet(before) \cup {added.provider}
         /\ MergedRow(before, added, after)
<1> DEFINE R == CatalogEntry(Names, Things)
           n == Len(before)
           Added(i) == IF before[i].provider = added.provider
                       THEN [before[i] EXCEPT !.items = @ \o added.items] ELSE before[i]
<1>1. n \in Nat /\ \A i \in 1 .. n : before[i] \in R
  OBVIOUS
<1>2. CASE \E i \in 1 .. n : before[i].provider = added.provider
  <2>1. after = [i \in 1 .. n |-> Added(i)]
    BY <1>2 DEF Callback!AddRow
  <2>2. ASSUME NEW i \in 1 .. n
        PROVE  /\ Added(i) \in R /\ Added(i).provider = before[i].provider
               /\ before[i].provider = added.provider => Added(i).items = before[i].items \o added.items
               /\ before[i].provider # added.provider => Added(i) = before[i]
    <3>1. before[i] \in R /\ before[i].items \in Seq(Things) /\ added.items \in Seq(Things) /\ before[i].provider \in Names
      BY <1>1 DEF CatalogEntry
    <3>2. before[i].items \o added.items \in Seq(Things)
      BY <3>1
    <3> QED
      BY <3>1, <3>2 DEF CatalogEntry
  <2> HIDE DEF Added
  <2>3. after \in [1 .. n -> R]
    BY <2>1, <2>2
  <2>4. after \in Seq(R) /\ Len(after) = n
    BY <1>1, <2>3
  <2>5. \A i \in 1 .. n : after[i] = Added(i)
    BY <2>1
  <2>a. \A i \in 1 .. n : after[i].provider = before[i].provider
    BY <2>2, <2>5
  <2>6. ProvidersOnce(after)
    <3>1. ASSUME NEW a \in 1 .. n, NEW b \in 1 .. n, after[a].provider = after[b].provider
          PROVE  a = b
      BY <2>a, <3>1 DEF ProvidersOnce
    <3> QED
      BY <2>4, <3>1 DEF ProvidersOnce
  <2>7. ProviderSet(after) = ProviderSet(before) \cup {added.provider}
    <3>2. ProviderSet(after) = ProviderSet(before)
      BY <2>4, <2>a DEF ProviderSet
    <3> QED
      BY <1>2, <3>2 DEF ProviderSet
  <2>8. \A a \in 1 .. Len(after) :
          \/ after[a].provider # added.provider /\ \E b \in 1 .. Len(before) : after[a] = before[b]
          \/ /\ after[a].provider = added.provider
             /\ \E b \in 1 .. Len(before) : /\ before[b].provider = added.provider
                                        /\ after[a].items = before[b].items \o added.items
    <3> SUFFICES ASSUME NEW a \in 1 .. n
                 PROVE  \/ after[a].provider # added.provider /\ after[a] = before[a]
                        \/ /\ after[a].provider = added.provider /\ before[a].provider = added.provider
                           /\ after[a].items = before[a].items \o added.items
      BY <2>4, Zenon
    <3> QED
      BY <2>2, <2>5
  <2> QED
    BY <2>4, <2>6, <2>7, <2>8 DEF MergedRow
<1>3. CASE ~ \E i \in 1 .. n : before[i].provider = added.provider
  <2>1. after = Append(before, added)
    BY <1>3 DEF Callback!AddRow
  <2>2. added.provider \notin ProviderSet(before)
    BY <1>3 DEF ProviderSet
  <2>3. after \in Seq(R) /\ Len(after) = n + 1 /\ after[n + 1] = added /\ \A i \in 1 .. n : after[i] = before[i]
    BY <2>1
  <2>4. ProvidersOnce(after)
    BY <1>1, <1>3, <2>3 DEF ProvidersOnce
  <2>5. ProviderSet(after) = ProviderSet(before) \cup {added.provider}
    BY <1>1, <2>3 DEF ProviderSet
  <2>6. \A a \in 1 .. Len(after) :
          \/ after[a].provider # added.provider /\ \E b \in 1 .. Len(before) : after[a] = before[b]
          \/ /\ after[a].provider = added.provider
             /\ added.provider \notin ProviderSet(before)
             /\ after[a].items = added.items
    BY <1>1, <1>3, <2>2, <2>3
  <2> QED
    BY <2>3, <2>4, <2>5, <2>6 DEF MergedRow
<1> QED
  BY <1>2, <1>3

(***************************************************************************)
(* buildBppOnSearchEnvelope: each provider of the rows once, with all its  *)
(* items in the order of the rows.                                         *)
(***************************************************************************)
LEMMA ProvidersSound ==
  ASSUME NEW rows \in Rows
  PROVE  LET ps == Callback!Providers(rows)
         IN  /\ ProvidersOnce(ps)
             /\ ProviderSet(ps) = ProviderSet(rows)
             /\ \A a \in 1 .. Len(ps) : ps[a].items = Callback!ItemsOf(rows, ps[a].provider)
<1> DEFINE n == Len(rows)
           I == UNION {Range(rows[i].items) : i \in 1 .. n}
           P == ProviderSet(rows)
           R == CatalogEntry(P, I)
           Of(p) == [i \in 1 .. n |-> IF rows[i].provider = p THEN rows[i].items ELSE <<>>]
           AddsUp(p, h) == h \in [0 .. n -> Seq(I)] /\ Concats(Of(p), n, h)
           H(p) == CHOOSE h : AddsUp(p, h)
           g == Gather(rows, n)
<1>1. n \in Nat /\ DOMAIN rows = 1 .. n
  BY CallbackAssumption DEF Callback!CallbackAssumption
<1>2. ASSUME NEW i \in 1 .. n PROVE rows[i] \in R
  <2>1. rows[i] \in Callback!Range(rows)
    BY <1>1 DEF Callback!Range
  <2>2. /\ rows[i] = [provider |-> rows[i].provider, items |-> rows[i].items]
        /\ rows[i].items \in Seq(Callback!Range(rows[i].items))
    BY <2>1, CallbackAssumption DEF Callback!CallbackAssumption
  <2>3. Callback!Range(rows[i].items) \subseteq I
    BY DEF Callback!Range, Range
  <2>4. rows[i].items \in Seq(I)
    BY <2>2, <2>3
  <2>5. rows[i].provider \in P
    BY DEF ProviderSet
  <2> QED
    BY <2>2, <2>4, <2>5 DEF CatalogEntry
<1>3. ASSUME NEW p
      PROVE  /\ H(p) \in [0 .. n -> Seq(I)] /\ Concats(Of(p), n, H(p))
             /\ Callback!ItemsOf(rows, p) = H(p)[n]
  <2>1. Of(p) \in [1 .. n -> Seq(I)]
    BY <1>2 DEF CatalogEntry
  <2>2. \E h : AddsUp(p, h)
    <3> HIDE DEF Of, I
    <3> QED
      BY <1>1, <2>1, ConcatsExist
  <2>3. AddsUp(p, H(p))
    <3> HIDE DEF AddsUp
    <3> QED
      BY <2>2
  <2>4. Callback!ItemsOf(rows, p) = Callback!FlattenSeq(Of(p))
    BY DEF Callback!ItemsOf
  <2> HIDE DEF H, Of, I
  <2> QED
    BY <1>1, <2>1, <2>3, <2>4, FlattenIsLast
<1>4. Callback!Providers(rows) = g[1 .. n]
  BY <1>1, ProvidersGather
<1>5. g[1 .. 0] = <<>> /\ \A k \in 0 .. n - 1 : g[1 .. k + 1] = Callback!AddRow(g[1 .. k], rows[k + 1])
  BY <1>1, GatherNext
<1>6. ASSUME NEW p
      PROVE  /\ H(p)[0] = <<>>
             /\ \A k \in 0 .. n - 1 : /\ H(p)[k] \in Seq(I)
                                      /\ rows[k + 1].provider = p => H(p)[k + 1] = H(p)[k] \o rows[k + 1].items
                                      /\ rows[k + 1].provider # p => H(p)[k + 1] = H(p)[k]
  <2>1. H(p) \in [0 .. n -> Seq(I)] /\ Concats(Of(p), n, H(p))
    BY <1>3
  <2> HIDE DEF H, I
  <2>2. H(p)[0] = <<>>
    BY <2>1 DEF Concats
  <2>3. ASSUME NEW k \in 0 .. n - 1
        PROVE  /\ H(p)[k] \in Seq(I)
               /\ rows[k + 1].provider = p => H(p)[k + 1] = H(p)[k] \o rows[k + 1].items
               /\ rows[k + 1].provider # p => H(p)[k + 1] = H(p)[k]
    <3>1. k \in 0 .. n /\ k + 1 \in 1 .. n
      BY <1>1
    <3>2. H(p)[k] \in Seq(I) /\ H(p)[k + 1] = H(p)[k] \o Of(p)[k + 1]
      BY <2>1, <3>1 DEF Concats
    <3>3. Of(p)[k + 1] = IF rows[k + 1].provider = p THEN rows[k + 1].items ELSE <<>>
      BY <3>1
    <3>4. H(p)[k] \o <<>> = H(p)[k]
      BY <3>2
    <3> HIDE DEF Of
    <3> QED
      BY <3>2, <3>3, <3>4
  <2> QED
    BY <2>2, <2>3
<1> DEFINE Seen(k) == {rows[i].provider : i \in 1 .. k}
           Ok(k) == /\ g[1 .. k] \in Seq(R) /\ ProvidersOnce(g[1 .. k])
                    /\ ProviderSet(g[1 .. k]) = Seen(k)
                    /\ \A a \in 1 .. Len(g[1 .. k]) : g[1 .. k][a].items = H(g[1 .. k][a].provider)[k]
                    /\ \A p : p \notin Seen(k) => H(p)[k] = <<>>
           Q == {k \in Nat : k <= n => Ok(k)}
<1> HIDE DEF H, g, I, P, n
<1>7. 0 \in Q
  <2>1. Ok(0)
    <3>1. Len(g[1 .. 0]) = 0 /\ g[1 .. 0] \in Seq(R)
      BY <1>5
    <3>2. 1 .. 0 = {}
      OBVIOUS
    <3> QED
      BY <1>6, <3>1, <3>2 DEF ProvidersOnce, ProviderSet
  <2> QED
    BY <2>1
<1>8. ASSUME NEW k \in Q PROVE k + 1 \in Q
  <2> SUFFICES ASSUME k + 1 <= n PROVE Ok(k + 1)
    BY <1>8
  <2>1. k \in Nat /\ k \in 0 .. n - 1 /\ k + 1 \in 1 .. n /\ Ok(k)
    BY <1>1, <1>8
  <2> DEFINE ps == g[1 .. k]
             qs == g[1 .. k + 1]
             row == rows[k + 1]
  <2>2. row \in R /\ ps \in Seq(R) /\ qs = Callback!AddRow(ps, row) /\ row.items \in Seq(I)
    BY <1>2, <1>5, <2>1 DEF CatalogEntry
  <2>a. ProvidersOnce(ps)
    BY <2>1
  <2>3. /\ ProviderSet(ps) = Seen(k)
        /\ \A a \in 1 .. Len(ps) : ps[a].items = H(ps[a].provider)[k]
        /\ \A p : p \notin Seen(k) => H(p)[k] = <<>>
    BY <2>1
  <2> HIDE DEF ps, qs, row, Seen
  <2> HIDE DEF Q, Ok, Of, AddsUp
  <2>4. /\ qs \in Seq(R)
        /\ ProvidersOnce(qs)
        /\ ProviderSet(qs) = ProviderSet(ps) \cup {row.provider}
        /\ MergedRow(ps, row, qs)
    BY <2>2, <2>a, AddRowOk
  <2> USE DEF Ok
  <2>5. Seen(k + 1) = Seen(k) \cup {row.provider}
    <3>1. 1 .. k + 1 = (1 .. k) \cup {k + 1}
      BY <2>1
    <3> QED
      BY <3>1 DEF row, Seen
  <2>6. \A p : /\ row.provider = p => H(p)[k + 1] = H(p)[k] \o row.items
               /\ row.provider # p => H(p)[k + 1] = H(p)[k]
    BY <1>6, <2>1 DEF row
  <2>7. <<>> \o row.items = row.items
    BY <2>2
  <2>8. ASSUME NEW a \in 1 .. Len(qs) PROVE qs[a].items = H(qs[a].provider)[k + 1]
    <3>1. ASSUME NEW b \in 1 .. Len(ps), qs[a] = ps[b], qs[a].provider # row.provider
          PROVE  qs[a].items = H(qs[a].provider)[k + 1]
      <4>1. H(qs[a].provider)[k + 1] = H(qs[a].provider)[k]
        BY <2>6, <3>1
      <4> QED
        BY <2>3, <3>1, <4>1
    <3>2. ASSUME NEW b \in 1 .. Len(ps), ps[b].provider = row.provider,
                 qs[a].items = ps[b].items \o row.items, qs[a].provider = row.provider
          PROVE  qs[a].items = H(qs[a].provider)[k + 1]
      <4>1. H(row.provider)[k + 1] = H(row.provider)[k] \o row.items
        BY <2>6
      <4>2. ps[b].items = H(row.provider)[k]
        BY <2>3, <3>2
      <4> QED
        BY <3>2, <4>1, <4>2
    <3>3. ASSUME qs[a].provider = row.provider, row.provider \notin ProviderSet(ps),
                 qs[a].items = row.items
          PROVE  qs[a].items = H(qs[a].provider)[k + 1]
      <4>1. H(row.provider)[k + 1] = H(row.provider)[k] \o row.items
        BY <2>6
      <4>2. H(row.provider)[k] = <<>>
        BY <2>3, <3>3
      <4> QED
        BY <2>7, <3>3, <4>1, <4>2
    <3> QED
      BY <2>4, <3>1, <3>2, <3>3, Zenon DEF MergedRow
  <2>9. \A p : p \notin Seen(k + 1) => H(p)[k + 1] = <<>>
    BY <2>3, <2>5, <2>6
  <2> QED
    BY <2>3, <2>4, <2>5, <2>8, <2>9 DEF qs
<1> HIDE DEF Q, Ok
<1>9. Q = Nat
  BY <1>7, <1>8, NatInduct DEF Q
<1>10. Ok(n)
  BY <1>1, <1>9 DEF Q
<1>11. Seen(n) = ProviderSet(rows)
  BY DEF ProviderSet, n
<1>12. \A p : Callback!ItemsOf(rows, p) = H(p)[n]
  BY <1>3
<1> QED
  BY <1>4, <1>10, <1>11, <1>12 DEF Ok

(* The envelopes there can be, and the jobs. *)
Envelopes == Rows \cup {Callback!Providers(rows) : rows \in Rows}

(* What job j posts: the envelope of the rows, or its caller's. *)
SentBy(j) == IF j.kind = "dispatch" THEN Callback!Providers(j.rows) ELSE j.rows

OutBox == {<<>>} \cup Envelopes

JobWith(Flag) ==
  [kind : {"retrying", "dispatch"}, pc : {"start", "guard", "post", "done"},
   host : Callback!Hosts, uuid : Flag, rows : Rows, providers : OutBox,
   attempts : Nat, ok : Flag,
   reason : {"none", "no_catalog_responses", "bad_bap_uri", "ssrf_blocked", "envelope_invalid",
             "forbidden", "ok", "status", "error"}]

CallbackJob == JobWith(BOOLEAN)

(***************************************************************************)
(* The invariant: nothing is sent before the checks, what is sent is the   *)
(* envelope of the rows, and every attempt is counted.                     *)
(***************************************************************************)
CallbackInv ==
  /\ c_job \in CallbackJob
  /\ c_received \in Seq(Envelopes)
  /\ Len(c_received) <= c_job.attempts
  /\ \A i \in 1 .. Len(c_received) : c_received[i] = SentBy(c_job)
  /\ c_job.pc \in {"start", "guard"} => c_job.attempts = 0
  /\ c_job.pc = "guard" => c_job.kind = "dispatch"
  /\ c_job.pc \in {"guard", "post"} => c_job.providers = SentBy(c_job)
  /\ c_job.pc = "post" => c_job.attempts < MaxAttempts
  /\ c_job.pc = "done" =>
       /\ c_job.ok => c_received # <<>>
       /\ c_job.kind = "retrying" /\ ~c_job.ok /\ c_job.attempts > 0 =>
            c_job.attempts = MaxAttempts

(* A job starts as one. *)
LEMMA JobStarts ==
  ASSUME NEW Flag, NEW no \in Flag, NEW void \in OutBox,
         NEW j \in [kind : {"retrying", "dispatch"}, pc : {"start"}, host : Callback!Hosts,
                    uuid : Flag, rows : Rows, providers : {void}, attempts : {0},
                    ok : {no}, reason : {"none"}]
  PROVE  j \in JobWith(Flag) /\ j.pc = "start" /\ j.attempts = 0
BY DEF JobWith

(* A post that is tried again leaves what the job is about alone. *)
LEMMA JobRetries ==
  ASSUME NEW Flag, NEW j \in JobWith(Flag), NEW m \in Nat, NEW k, k = [j EXCEPT !.attempts = m]
  PROVE  /\ k \in JobWith(Flag) /\ k.attempts = m /\ k.rows = j.rows
         /\ k.kind = j.kind /\ k.providers = j.providers
BY DEF JobWith

(* The callback starts in the invariant, with nothing sent. *)
LEMMA CallbackInit == Callback!Init => CallbackInv
<1> SUFFICES ASSUME Callback!Init PROVE CallbackInv
  OBVIOUS
<1>1. c_received = <<>> /\ c_received \in Seq(Envelopes) /\ Len(c_received) = 0
  BY DEF Callback!Init
<1>2. /\ c_job \in [kind : {"retrying", "dispatch"}, pc : {"start"}, host : Callback!Hosts,
                    uuid : BOOLEAN, rows : Rows, providers : {<<>>}, attempts : {0},
                    ok : {FALSE}, reason : {"none"}]
  BY DEF Callback!Init
<1>3. c_job \in CallbackJob /\ c_job.pc = "start" /\ c_job.attempts = 0
  <2>1. <<>> \in OutBox
    BY DEF OutBox
  <2> QED
    BY <1>2, <2>1, JobStarts, Zenon DEF CallbackJob
<1> QED
  BY <1>1, <1>3 DEF CallbackInv

(* The checks before the post keep the invariant. *)
LEMMA CallbackChecks ==
  ASSUME CallbackInv, Callback!FetchRows \/ Callback!Guard \/ Callback!Validate
  PROVE  CallbackInv'
<1> USE DEF CallbackInv
<1> DEFINE ended(r) == [c_job EXCEPT !.pc = "done", !.ok = FALSE, !.reason = r]
           fetched == [c_job EXCEPT !.pc = "guard", !.providers = Callback!Providers(c_job.rows)]
           checked == [c_job EXCEPT !.pc = "post"]
           valid == [c_job EXCEPT !.pc = "post", !.providers = c_job.rows]
           Reasons == {"no_catalog_responses", "bad_bap_uri", "ssrf_blocked", "envelope_invalid",
                       "forbidden"}
<1>1. c_received' = c_received /\ c_job.pc \in {"start", "guard"} /\ c_job.attempts = 0
  BY DEF Callback!FetchRows, Callback!Guard, Callback!Validate
<1>2. \/ \E r \in Reasons : c_job' = ended(r)
      \/ c_job' = fetched /\ c_job.kind = "dispatch"
      \/ c_job' = checked /\ c_job.pc = "guard"
      \/ c_job' = valid /\ c_job.kind = "retrying"
  BY DEF Callback!FetchRows, Callback!Guard, Callback!Validate, Callback!Finish
<1>3. Callback!Providers(c_job.rows) \in Envelopes /\ c_job.rows \in Envelopes /\ MaxAttempts \in Nat \ {0}
  BY CallbackAssumption DEF CallbackJob, JobWith, Envelopes, Callback!CallbackAssumption
<1>4. CASE \E r \in Reasons : c_job' = ended(r)
  <2>1. PICK r \in Reasons : c_job' = ended(r)
    BY <1>4
  <2>2. c_job' \in CallbackJob /\ c_job'.pc = "done" /\ c_job'.ok = FALSE
        /\ c_job'.attempts = 0 /\ c_job'.rows = c_job.rows /\ c_job'.kind = c_job.kind
    BY <1>1, <2>1 DEF CallbackJob, JobWith
  <2> QED
    BY <1>1, <2>2 DEF SentBy
<1>5. CASE c_job' = fetched /\ c_job.kind = "dispatch"
  <2>1. c_job' \in CallbackJob /\ c_job'.pc = "guard" /\ c_job'.kind = "dispatch"
        /\ c_job'.attempts = 0 /\ c_job'.rows = c_job.rows
        /\ c_job'.providers = Callback!Providers(c_job.rows)
    BY <1>1, <1>3, <1>5 DEF CallbackJob, JobWith, OutBox
  <2> QED
    BY <1>1, <1>5, <2>1 DEF SentBy
<1>6. CASE c_job' = checked /\ c_job.pc = "guard"
  <2>1. c_job' \in CallbackJob /\ c_job'.pc = "post"
        /\ c_job'.attempts = 0 /\ c_job'.rows = c_job.rows
        /\ c_job'.providers = c_job.providers /\ c_job'.kind = c_job.kind
    BY <1>1, <1>6 DEF CallbackJob, JobWith
  <2> QED
    BY <1>1, <1>3, <1>6, <2>1 DEF SentBy
<1>7. CASE c_job' = valid /\ c_job.kind = "retrying"
  <2>1. c_job' \in CallbackJob /\ c_job'.pc = "post"
        /\ c_job'.attempts = 0 /\ c_job'.rows = c_job.rows
        /\ c_job'.providers = c_job.rows /\ c_job'.kind = "retrying"
    BY <1>1, <1>3, <1>7 DEF CallbackJob, JobWith, OutBox
  <2> QED
    BY <1>1, <1>3, <1>7, <2>1 DEF SentBy
<1> QED
  BY <1>2, <1>4, <1>5, <1>6, <1>7

(* A post counts, whether it reached the BAP or not. *)
LEMMA CallbackPost ==
  ASSUME CallbackInv, NEW o \in {"ok", "status", "error"}, Callback!Post(o)
  PROVE  CallbackInv'
<1> USE DEF CallbackInv
<1> DEFINE env == SentBy(c_job)
           n == c_job.attempts + 1
           over == o = "ok" \/ n >= MaxAttempts \/ c_job.kind = "dispatch"
<1>1. /\ c_job.pc = "post" /\ c_job.providers = env /\ env \in Envelopes
      /\ c_job.attempts \in Nat /\ c_job.attempts < MaxAttempts /\ MaxAttempts \in Nat
  BY CallbackAssumption
     DEF Callback!Post, CallbackJob, JobWith, Envelopes, SentBy, Callback!CallbackAssumption
<1>2. /\ c_job' \in CallbackJob /\ c_job'.attempts = n /\ c_job'.rows = c_job.rows
      /\ c_job'.kind = c_job.kind /\ c_job'.providers = env
      /\ over => c_job'.pc = "done" /\ c_job'.ok = (o = "ok")
      /\ ~over => c_job'.pc = "post"
  <2>1. CASE over
    <3>1. c_job' = [[c_job EXCEPT !.pc = "done", !.ok = (o = "ok"), !.reason = o]
                      EXCEPT !.attempts = n]
      BY <2>1 DEF Callback!Post, Callback!Finish
    <3>2. c_job \in CallbackJob /\ n \in Nat
      BY <1>1
    <3>3. c_job'.pc = "done" /\ c_job'.ok = (o = "ok")
      BY <3>1, <3>2 DEF CallbackJob, JobWith
    <3> HIDE DEF CallbackInv
    <3>4. /\ c_job' \in CallbackJob /\ c_job'.attempts = n /\ c_job'.rows = c_job.rows
          /\ c_job'.kind = c_job.kind /\ c_job'.providers = c_job.providers
      <4> HIDE DEF n
      <4> QED
        <5> DEFINE Flags == BOOLEAN
        <5>1. PICK good \in Flags :
                c_job' = [[c_job EXCEPT !.pc = "done", !.ok = good, !.reason = o]
                            EXCEPT !.attempts = n]
          BY <3>1, Zenon
        <5>2. c_job \in JobWith(Flags)
          BY <3>2 DEF CallbackJob
        <5>3. CallbackJob = JobWith(Flags)
          BY DEF CallbackJob
        <5> HIDE DEF Flags
        <5> QED
          BY <3>2, <5>1, <5>2, <5>3 DEF JobWith
    <3> HIDE DEF over
    <3> QED
      BY <1>1, <2>1, <3>3, <3>4
  <2>2. CASE ~over
    <3>1. c_job' = [c_job EXCEPT !.attempts = n]
      BY <2>2 DEF Callback!Post, Callback!Finish
    <3>2. c_job \in CallbackJob /\ n \in Nat
      BY <1>1
    <3>3. c_job'.pc = "post"
      BY <1>1, <3>1, <3>2 DEF CallbackJob, JobWith
    <3> HIDE DEF CallbackInv
    <3>4. /\ c_job' \in CallbackJob /\ c_job'.attempts = n /\ c_job'.rows = c_job.rows
          /\ c_job'.kind = c_job.kind /\ c_job'.providers = c_job.providers
      <4> HIDE DEF n
      <4> QED
        BY <3>1, <3>2, JobRetries DEF CallbackJob
    <3> HIDE DEF over
    <3> QED
      BY <1>1, <2>2, <3>3, <3>4
  <2> QED
    BY <2>1, <2>2
<1>3. c_received' = Append(c_received, env) \/ (o = "error" /\ c_received' = c_received)
  BY <1>1 DEF Callback!Post
<1> HIDE DEF env
<1>4. /\ c_received' \in Seq(Envelopes) /\ Len(c_received') <= n
      /\ \A i \in 1 .. Len(c_received') : c_received'[i] = env
      /\ o = "ok" => c_received' # <<>>
  <2>1. CASE c_received' = Append(c_received, env)
    <3>1. c_received' \in Seq(Envelopes) /\ Len(c_received') = Len(c_received) + 1
      BY <1>1, <2>1
    <3>2. \A i \in 1 .. Len(c_received') : c_received'[i] = env
      BY <1>1, <2>1, <3>1 DEF env
    <3> QED
      BY <1>1, <3>1, <3>2
  <2>2. CASE o = "error" /\ c_received' = c_received
    BY <1>1, <2>2 DEF env
  <2> QED
    BY <1>3, <2>1, <2>2
<1>5. SentBy(c_job') = env
  BY <1>2 DEF env, SentBy
<1>6. CASE over
  <2>1. c_job'.pc = "done" /\ c_job'.ok = (o = "ok")
    BY <1>2, <1>6
  <2>2. c_job'.ok => c_received' # <<>>
    BY <1>4, <2>1
  <2>3. c_job'.kind = "retrying" /\ ~c_job'.ok => c_job'.attempts = MaxAttempts
    <3>1. ~c_job'.ok => o # "ok"
      BY <2>1, Zenon
    <3>2. c_job.kind = "retrying" /\ o # "ok" => n >= MaxAttempts
      BY <1>6
    <3> QED
      BY <1>1, <1>2, <3>1, <3>2
  <2> QED
    BY <1>2, <1>4, <1>5, <2>1, <2>2, <2>3
<1>7. CASE ~over
  BY <1>1, <1>2, <1>4, <1>5, <1>7
<1> QED
  BY <1>6, <1>7

(* Every step of a callback keeps the invariant. *)
LEMMA CallbackStep == CallbackInv /\ [Callback!Next]_Callback!vars => CallbackInv'
<1> SUFFICES ASSUME CallbackInv, [Callback!Next]_Callback!vars PROVE CallbackInv'
  OBVIOUS
<1>1. CASE UNCHANGED Callback!vars
  BY <1>1 DEF Callback!vars, CallbackInv
<1>2. CASE Callback!FetchRows \/ Callback!Guard \/ Callback!Validate
  BY <1>2, CallbackChecks
<1>3. CASE \E o \in {"ok", "status", "error"} : Callback!Post(o)
  BY <1>3, CallbackPost
<1> QED
  BY <1>1, <1>2, <1>3 DEF Callback!Next

(* The invariant gives the property, by what the envelope holds. *)
LEMMA CallbackImplies == CallbackInv => Callback!DeliveredAsReported
<1> SUFFICES ASSUME CallbackInv PROVE Callback!DeliveredAsReported
  OBVIOUS
<1> USE DEF CallbackInv
<1>1. c_job.rows \in Rows /\ c_job.attempts \in Nat /\ Len(c_received) \in Nat
  BY DEF CallbackJob, JobWith
<1> DEFINE env == Callback!Providers(c_job.rows)
<1>2. /\ ProvidersOnce(env) /\ ProviderSet(env) = ProviderSet(c_job.rows)
      /\ \A a \in 1 .. Len(env) : env[a].items = Callback!ItemsOf(c_job.rows, env[a].provider)
  BY <1>1, ProvidersSound
<1>3. c_job.attempts = 0 => c_received = <<>>
  BY <1>1
<1>4. /\ c_job.kind = "retrying" => \A i \in 1 .. Len(c_received) : c_received[i] = c_job.rows
      /\ c_job.kind # "retrying" => \A i \in 1 .. Len(c_received) : c_received[i] = env
  BY DEF CallbackJob, JobWith, SentBy
<1> HIDE DEF env
<1>5. c_job.kind # "retrying" => \A i \in 1 .. Len(c_received) :
        /\ ProvidersOnce(c_received[i]) /\ ProviderSet(c_received[i]) = ProviderSet(c_job.rows)
        /\ \A a \in 1 .. Len(c_received[i]) :
             c_received[i][a].items = Callback!ItemsOf(c_job.rows, c_received[i][a].provider)
  BY <1>2, <1>4
<1> QED
  BY <1>1, <1>3, <1>4, <1>5 DEF Callback!DeliveredAsReported, ProvidersOnce, ProviderSet

(***************************************************************************)
(* For any rows on chain and any number of attempts: a callback reported   *)
(* as delivered reached the BAP, one refused reached nobody, one given up  *)
(* was tried as often as it should be, every envelope dispatchOnSearch got *)
(* to the BAP has each provider once, with all its items in the order of   *)
(* the rows, and every one postOnSearch got there is its caller's          *)
(* (inbound-bap-callback.ts, outbound-bpp.ts).                             *)
(***************************************************************************)
THEOREM CallbackDelivered == Callback!Spec => []Callback!DeliveredAsReported
BY CallbackInit, CallbackStep, CallbackImplies, PTL DEF Callback!Spec

(***************************************************************************)
(* The same, as the run of Gateway states it.                              *)
(***************************************************************************)
THEOREM GatewayDeliveredAsReported == GatewaySpec => []DeliveredAsReported
<1> DEFINE Inv == part = "callback" => CallbackInv
<1>1. GatewayInit => Inv
  BY CallbackInit DEF GatewayInit
<1>2. Inv /\ [GatewayNext]_all => Inv'
  BY PartStep, CallbackStep
<1>3. Inv => DeliveredAsReported
  BY CallbackImplies DEF DeliveredAsReported
<1> QED
  BY <1>1, <1>2, <1>3, PTL DEF GatewaySpec
=============================================================================
