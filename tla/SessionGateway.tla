--------------------------- MODULE SessionGateway ---------------------------
(***************************************************************************)
(* The OAuth provider and the session tokens of the gateway                *)
(* (src/gateway/oauth-provider.ts, session.ts, persisted-store.ts,         *)
(* auth-routes.ts and the callback route of sse-server.ts).                *)
(*                                                                         *)
(* A handler is synchronous: it changes the maps in memory, writes the     *)
(* files it has to write one after the other (atomicWriteJson: the file    *)
(* holds the old or the new map), and then answers.  No other handler runs *)
(* in between, but the machine can stop between any two writes or before   *)
(* the answer, and the restart loads what the files hold.  `todo' are the  *)
(* files still to be written, `reply' the answer that follows.             *)
(*                                                                         *)
(* Codes, refresh tokens and access tokens are random and never repeat:    *)
(* they are numbered from one counter.  A token family is named by its     *)
(* first refresh token.  PKCE is checked by the SDK and is left out.  exp  *)
(* of an answer with a code or with tokens is history: what the client is  *)
(* not told, when the code or the access token expires.                    *)
(***************************************************************************)
EXTENDS Integers, Sequences, FiniteSets

CONSTANTS
  Clients,     \* OAuth clients
  CodeTtl,     \* life of an authorization code
  SessionTtl,  \* config.auth.sessionTtlSeconds
  RefreshTtl,  \* config.auth.refreshTtlSeconds: how long a retired token is kept
  MaxFresh,    \* bound: codes and tokens made
  MaxTime,     \* bound: the clock
  MaxCrashes,  \* bound: restarts of the machine
  None

Answer == [kind : {"error", "client", "code", "tokens", "reuse", "login", "revoked", "denied"},
           grant : Clients \cup Nat, token : Nat, exp : Nat]

TtlAssumption ==
  /\ CodeTtl \in Nat /\ SessionTtl \in Nat /\ RefreshTtl \in Nat
  /\ None \notin Answer

VARIABLES
  mem,      \* [clients, codes, live, retired, deny]: the maps in memory
  disk,     \* the same maps as the files hold them
  todo,     \* files the running handler still writes
  reply,    \* its answer, None when no handler runs
  clock,
  booted,   \* when the maps were last loaded from the files
  fresh,    \* the last code or token made
  crashes,
  given,    \* history: answers that were delivered
  tried     \* history: codes and tokens exchanged, revoked or tried so, the
            \* members of a family with a detected reuse included

vars == <<mem, disk, todo, reply, clock, booted, fresh, crashes, given, tried>>

Ids == 1 .. MaxFresh
Put(f, k, v) == [x \in DOMAIN f \cup {k} |-> IF x = k THEN v ELSE f[x]]
Drop(f, ks)  == [x \in DOMAIN f \ ks |-> f[x]]
Empty == [x \in {} |-> None]

NoMaps == [clients |-> {}, codes |-> Empty, live |-> Empty, retired |-> Empty,
           deny |-> Empty]
Idle == reply = None

Init ==
  /\ mem = NoMaps /\ disk = NoMaps
  /\ todo = <<>> /\ reply = None
  /\ clock = 0 /\ booted = 0 /\ fresh = 0 /\ crashes = 0
  /\ given = {} /\ tried = {}

(* A handler starts: its effect on memory, the files it writes, its answer. *)
Handle(m, files, answer) ==
  /\ mem' = m
  /\ todo' = files
  /\ reply' = answer
  /\ UNCHANGED <<disk, clock, booted, crashes, given>>

Refuse == [kind |-> "error", grant |-> 0, token |-> 0, exp |-> 0]

(* registerClient: POST /register. *)
Register(c) ==
  /\ Idle /\ c \notin mem.clients
  /\ Handle([mem EXCEPT !.clients = @ \cup {c}], <<"clients">>,
            [Refuse EXCEPT !.kind = "client", !.grant = c])
  /\ UNCHANGED <<fresh, tried>>

\* Mutant: the pending codes are not written.
IssueCodeUnsaved(c) ==
  /\ Idle /\ fresh < MaxFresh
  /\ fresh' = fresh + 1
  /\ Handle([mem EXCEPT !.codes = Put(@, fresh', [client |-> c,
                                                 exp |-> clock + CodeTtl])],
            <<>>, [Refuse EXCEPT !.kind = "code", !.token = fresh',
                             !.exp = clock + CodeTtl])
  /\ UNCHANGED tried

(* POST /oauth-callback after a verified sign-in: issueAuthCode. *)
IssueCode(c) ==
  /\ Idle /\ fresh < MaxFresh
  /\ fresh' = fresh + 1
  /\ Handle([mem EXCEPT !.codes = Put(@, fresh', [client |-> c,
                                                 exp |-> clock + CodeTtl])],
            <<"codes">>, [Refuse EXCEPT !.kind = "code", !.token = fresh',
                             !.exp = clock + CodeTtl])
  /\ UNCHANGED tried

(***************************************************************************)
(* exchangeAuthorizationCode: the code is burnt whatever happens next, and *)
(* on success a new family starts.  The client must be registered (the SDK *)
(* looks it up first); the redirect_uri may differ from the code's.        *)
(***************************************************************************)
CodeFlawed(c, k) == \/ mem.codes[k].exp < clock
                    \/ mem.codes[k].client # c

\* Mutant: the burnt code stays in its file.
ExchangeCodeUnburnt(c, k) ==
  /\ Idle /\ c \in mem.clients /\ k \in DOMAIN mem.codes
  /\ tried' = tried \cup {k}
  /\ \/ /\ Handle([mem EXCEPT !.codes = Drop(@, {k})], <<"codes">>, Refuse)
        /\ UNCHANGED fresh
     \/ /\ ~CodeFlawed(c, k) /\ fresh < MaxFresh
        /\ fresh' = fresh + 1
        /\ Handle([mem EXCEPT !.codes = Drop(@, {k}),
                              !.live = Put(@, fresh', [client |-> c,
                                                       family |-> fresh'])],
                  <<"live">>,
                  [kind |-> "tokens", grant |-> k, token |-> fresh',
                   exp |-> clock + SessionTtl])

ExchangeCode(c, k) ==
  /\ Idle /\ c \in mem.clients /\ k \in DOMAIN mem.codes
  /\ tried' = tried \cup {k}
  /\ \/ /\ Handle([mem EXCEPT !.codes = Drop(@, {k})], <<"codes">>, Refuse)
        /\ UNCHANGED fresh
     \/ /\ ~CodeFlawed(c, k) /\ fresh < MaxFresh
        /\ fresh' = fresh + 1
        /\ Handle([mem EXCEPT !.codes = Drop(@, {k}),
                              !.live = Put(@, fresh', [client |-> c,
                                                       family |-> fresh'])],
                  <<"codes", "live">>,
                  [kind |-> "tokens", grant |-> k, token |-> fresh',
                   exp |-> clock + SessionTtl])

(***************************************************************************)
(* exchangeRefreshToken: a retired token revokes its family; a live one is *)
(* rotated, and the new token and the missing old one are one file write.  *)
(***************************************************************************)
Retire(ms, ks) ==
  [ms EXCEPT !.live = Drop(@, ks),
             !.retired = [x \in DOMAIN @ \cup ks |->
                            IF x \in ks
                            THEN [family |-> ms.live[x].family, at |-> clock]
                            ELSE @[x]]]

Members(f) == {x \in DOMAIN mem.live : mem.live[x].family = f}

ReuseDetected(r) ==
  /\ Idle /\ r \in DOMAIN mem.retired
  /\ LET f == mem.retired[r].family
     IN  Handle(Retire(mem, Members(f)),
                IF Members(f) = {} THEN <<>> ELSE <<"live", "retired">>,
                [Refuse EXCEPT !.kind = "reuse", !.grant = f])
            /\ tried' = tried \cup Members(f)
  /\ UNCHANGED fresh

\* Mutant: the retired tokens are not written.
RotateForgets(c, r) ==
  /\ Idle /\ c \in mem.clients /\ fresh < MaxFresh
  /\ r \in DOMAIN mem.live \ DOMAIN mem.retired
  /\ mem.live[r].client = c
  /\ fresh' = fresh + 1
  /\ tried' = tried \cup {r}
  /\ LET m == Retire(mem, {r})
     IN  Handle([m EXCEPT !.live = Put(@, fresh', mem.live[r])],
                <<"live">>,
                [kind |-> "tokens", grant |-> r, token |-> fresh',
                 exp |-> clock + SessionTtl])

Rotate(c, r) ==
  /\ Idle /\ c \in mem.clients /\ fresh < MaxFresh
  /\ r \in DOMAIN mem.live \ DOMAIN mem.retired
  /\ mem.live[r].client = c
  /\ fresh' = fresh + 1
  /\ tried' = tried \cup {r}
  /\ LET m == Retire(mem, {r})
     IN  Handle([m EXCEPT !.live = Put(@, fresh', mem.live[r])],
                <<"live", "retired">>,
                [kind |-> "tokens", grant |-> r, token |-> fresh',
                 exp |-> clock + SessionTtl])

(* POST /auth/verify: an access token and nothing else. *)
Login ==
  /\ Idle /\ fresh < MaxFresh
  /\ fresh' = fresh + 1
  /\ Handle(mem, <<>>, [kind |-> "login", grant |-> 0, token |-> fresh',
                        exp |-> clock + SessionTtl])
  /\ UNCHANGED tried

(***************************************************************************)
(* verifySession.  The access token that came with refresh token t has the *)
(* number t.                                                               *)
(***************************************************************************)
Issued == {a \in given : a.kind \in {"tokens", "login"}}
Accepts(t, exp) == exp >= clock /\ t \notin DOMAIN mem.deny

RevokeRefresh(r) ==
  /\ Idle /\ r \in DOMAIN mem.live
  /\ tried' = tried \cup {r}
  /\ Handle(Retire(mem, {r}), <<"live", "retired">>,
            [Refuse EXCEPT !.kind = "revoked", !.grant = r])
  /\ UNCHANGED fresh

RevokeAccess(a) ==
  /\ Idle /\ a \in Issued /\ Accepts(a.token, a.exp)
  /\ Handle([mem EXCEPT !.deny = Put(@, a.token, a.exp)], <<"deny">>,
            [Refuse EXCEPT !.kind = "denied", !.token = a.token, !.exp = a.exp])
  /\ UNCHANGED <<fresh, tried>>

(* atomicWriteJson of the next file, then the answer. *)
Persist ==
  /\ todo # <<>>
  /\ disk' = [disk EXCEPT ![Head(todo)] = mem[Head(todo)]]
  /\ todo' = Tail(todo)
  /\ UNCHANGED <<mem, reply, clock, booted, fresh, crashes, given, tried>>

Deliver ==
  /\ reply # None /\ todo = <<>>
  /\ given' = IF reply.kind = "error" THEN given ELSE given \cup {reply}
  /\ reply' = None
  /\ UNCHANGED <<mem, disk, todo, clock, booted, fresh, crashes, tried>>

(* The machine restarts: loadAll and loadDenyList. *)
Kept(f, P(_)) == [x \in {y \in DOMAIN f : P(f[y])} |-> f[x]]
LoadAll ==
  LET codeOk(v)    == v.exp > clock
      retiredOk(v) == v.at > clock - RefreshTtl
      denyOk(exp)  == exp > clock
  IN  [disk EXCEPT !.codes = Kept(@, codeOk), !.retired = Kept(@, retiredOk),
                   !.deny = Kept(@, denyOk)]
Crash ==
  /\ crashes < MaxCrashes
  /\ crashes' = crashes + 1
  /\ booted' = clock
  /\ mem' = LoadAll
  /\ todo' = <<>> /\ reply' = None
  /\ UNCHANGED <<disk, clock, fresh, given, tried>>

Tick ==
  /\ Idle /\ clock < MaxTime
  /\ clock' = clock + 1
  /\ UNCHANGED <<mem, disk, todo, reply, booted, fresh, crashes, given, tried>>

Next ==
  \/ \E c \in Clients : Register(c) \/ IssueCode(c)
  \/ \E c \in Clients, k \in Ids : ExchangeCode(c, k) \/ Rotate(c, k)
  \/ \E r \in Ids : ReuseDetected(r) \/ RevokeRefresh(r)
  \/ Login
  \/ \E a \in given : RevokeAccess(a)
  \/ Persist \/ Deliver \/ Crash \/ Tick

Spec == Init /\ [][Next]_vars

-----------------------------------------------------------------------------
Grants == {a \in given : a.kind = "tokens"}

(***************************************************************************)
(* An authorization code or a refresh token is answered with tokens at     *)
(* most once, whatever restarts fall between the writes of its handler,    *)
(* and a family never has two live refresh tokens ("Codes are single-use", *)
(* oauth-provider.ts; "Rotate: retire the old token").                     *)
(***************************************************************************)
GrantOnce ==
  /\ \A a, b \in Grants : a.grant = b.grant => a = b
  /\ \A m \in {mem, disk} : \A r, s \in DOMAIN m.live :
       m.live[r].family = m.live[s].family => r = s

(***************************************************************************)
(* What was answered as revoked stays revoked over restarts: a family in   *)
(* which reuse was detected has no live token, a revoked refresh token is  *)
(* not live, and a revoked access token is not accepted, with exactly one  *)
(* exception: in the very second it expires verifySession still accepts    *)
(* (exp < now refuses) and loadDenyList has dropped the entry (exp > now   *)
(* keeps), so a restart in that second lets it through until the second is *)
(* over.  And a refresh token that was rotated and comes back within       *)
(* RefreshTtl of its rotation is recognised as reused.                     *)
(***************************************************************************)
RotatedAt(a) == a.exp - SessionTtl

RevokedStaysRevoked ==
  /\ \A a \in given :
       /\ a.kind = "reuse" => Members(a.grant) = {}
       /\ a.kind = "revoked" => a.grant \notin DOMAIN mem.live
       /\ a.kind = "denied" /\ Accepts(a.token, a.exp) => a.exp = clock /\ booted = clock
  /\ \A a \in Grants :
       /\ a.grant \in DOMAIN mem.retired \/ a.grant \notin DOMAIN mem.live
       /\ \A b \in Grants : b.token = a.grant /\ clock < RotatedAt(a) + RefreshTtl =>
            a.grant \in DOMAIN mem.retired

(***************************************************************************)
(* What a client was given is still good after any restart.  A registered  *)
(* client is known.  A code that nobody tried is there, unless a restart   *)
(* came at its expiry or later; in the second of the expiry itself the     *)
(* exchange would have taken it (exp < now refuses), while loadAll drops   *)
(* it (exp > now keeps).  A refresh token that nobody tried, in a family   *)
(* without reuse, is live.                                                 *)
(***************************************************************************)
AnsweredDurable ==
  \A a \in given :
    /\ a.kind = "client" => a.grant \in mem.clients
    /\ a.kind = "code" /\ a.token \notin tried =>
         \/ a.token \in DOMAIN mem.codes /\ mem.codes[a.token].exp = a.exp
         \/ a.exp <= booted
    /\ a.kind = "tokens" /\ a.token \notin tried => a.token \in DOMAIN mem.live
=============================================================================
