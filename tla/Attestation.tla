------------------------------ MODULE Attestation ------------------------------
(***************************************************************************)
(* Model attestation between two MCP origins.  One side owns a signing key *)
(* (signing/server-key.ts), publishes it as a JWKS and rotates it with an  *)
(* overlap window (signing/jwks.ts); the other verifies tokens against the *)
(* JWKS it fetches through an ETag cache (a2a/counterparty-verifier.ts).   *)
(* Verifications interleave at their fetches, with rotations, restarts of  *)
(* the server and the clock.                                               *)
(*                                                                         *)
(* A kid is the pair its hash is computed from.  A JWKS is its set of      *)
(* entries, and an ETag stands for the body it was computed from.  The     *)
(* minter of tokens and HTTP are external.                                 *)
(***************************************************************************)
EXTENDS Naturals, FiniteSets

CONSTANTS
  Token,       \* tokens, each minted at most once
  Ver,         \* verification calls, each made at most once
  Windows,     \* values of overlapSeconds
  Lifetime,    \* seconds from a token's iat to its exp
  Ephemeral,   \* MCP_SERVER_SIGNING_KEY_PATH is not set
  Flaw,        \* what may be wrong with a token
  MaxRot,      \* bound: rotations of one process
  MaxRestart,  \* bound: restarts of the server
  MaxNow,      \* bound: the last second of modelled time
  None

Instance == 0..MaxRestart
Kid      == Instance \X (0..MaxRot)
KeyId    == 0..((MaxRot + 1) * (MaxRestart + 1))
Jwk      == [kid : Kid, key : KeyId]
Demoted  == [kid : Kid, key : Nat, at : Nat, window : Windows]

AttestationAssumption ==
  /\ Windows \subseteq Nat \ {0}
  /\ Lifetime \in Nat
  /\ Ephemeral \in BOOLEAN
  /\ Flaw \subseteq {"malformed", "tampered", "aud"}
  /\ MaxRot \in Nat /\ MaxRestart \in Nat /\ MaxNow \in Nat
  /\ None \notin Demoted

VARIABLES
  now,       \* Date.now(), in seconds
  inst,      \* serverInstance
  epoch,     \* rotationEpoch
  key,       \* memoized: the current keypair
  fresh,     \* the last keypair generated; 0 is the one in the key file
  overlap,   \* overlap: the demoted key, or None
  token,     \* the tokens minted
  cache,     \* JwksCache entry of the verifier: the JWKS it holds, or None
  pc,        \* where each verification stands
  about,     \* the token it verifies
  began,     \* nowSec
  held,      \* cached: the entry read before the fetch
  reply,     \* the HTTP response under way
  result,    \* how it was answered
  served,    \* history: when, and with which JWKS, the server replied
  ends       \* history: the last second a kid may be served

vars == <<now, inst, epoch, key, fresh, overlap, token, cache,
          pc, about, began, held, reply, result, served, ends>>

serverVars == <<inst, epoch, key, fresh, overlap, ends>>
callVars   == <<about, began>>

Result == {"none", "ok", "malformed-jws", "jwks-fetch-failed", "unknown-kid",
           "tampered-signature", "bad-aud", "expired"}

Forever == MaxNow + 1

TypeOK ==
  /\ now \in 0..MaxNow
  /\ inst \in Instance
  /\ epoch \in 0..MaxRot
  /\ key \in KeyId
  /\ fresh \in KeyId
  /\ \/ overlap = None
     \/ /\ overlap.kid \in Kid /\ overlap.key \in KeyId
        /\ overlap.at \in 0..MaxNow /\ overlap.window \in Windows
  /\ \A t \in Token : token[t] # None =>
       /\ token[t].kid \in Kid /\ token[t].key \in KeyId
       /\ token[t].exp \in Nat /\ token[t].flaw \in Flaw \cup {"none"}
  /\ cache = None \/ cache \subseteq Jwk
  /\ pc \in [Ver -> {"idle", "fetching", "replied", "done"}]
  /\ about \in [Ver -> Token \cup {None}]
  /\ began \in [Ver -> 0..MaxNow]
  /\ \A v \in Ver : held[v] = None \/ held[v] \subseteq Jwk
  /\ result \in [Ver -> Result]

Init ==
  /\ now = 0
  /\ inst = 0
  /\ epoch = 0
  /\ key = 0
  /\ fresh = 0
  /\ overlap = None
  /\ token = [t \in Token |-> None]
  /\ cache \in {None, {[kid |-> <<0, 0>>, key |-> 0]}}  \* empty, or fetched before
  /\ pc = [v \in Ver |-> "idle"]
  /\ about = [v \in Ver |-> None]
  /\ began = [v \in Ver |-> 0]
  /\ held = [v \in Ver |-> None]
  /\ reply = [v \in Ver |-> None]
  /\ result = [v \in Ver |-> "none"]
  /\ served = [v \in Ver |-> None]
  /\ ends = [k \in Kid |-> Forever]

-----------------------------------------------------------------------------
(* The server: its key, its JWKS, rotation, restart *)

\* computeKid: changes with the process and with the rotation epoch.
ComputeKid(i, e) == <<i, e>>

\* Mutant: the last second of the window is not part of it.
PurgeExpiredEarly(t) ==
  IF overlap # None /\ t >= overlap.at + overlap.window THEN None ELSE overlap

\* purgeExpired: what is left of the overlap entry at time t.
PurgeExpired(t) ==
  IF overlap # None /\ t > overlap.at + overlap.window THEN None ELSE overlap

\* rotateServerKey with a seed that is new or the one in use: the current key
\* is demoted, and takes the place of a key demoted before it.
RotateServerKey(k, w) ==
  /\ epoch < MaxRot
  /\ overlap' = [kid |-> ComputeKid(inst, epoch), key |-> key, at |-> now, window |-> w]
  /\ ends' = [ends EXCEPT ![ComputeKid(inst, epoch)] = now + w]
  /\ key' = k
  /\ fresh' = IF k = key THEN fresh ELSE k
  /\ epoch' = epoch + 1
  /\ UNCHANGED <<now, inst, token, cache, pc, callVars, held, reply, result, served>>

\* The process is restarted: loadKey and getServerInstance run again, the
\* rotation state is gone.
Restart ==
  /\ inst < MaxRestart
  /\ inst' = inst + 1
  /\ epoch' = 0
  /\ overlap' = None
  /\ key' = IF Ephemeral THEN fresh + 1 ELSE 0
  /\ fresh' = IF Ephemeral THEN fresh + 1 ELSE fresh
  /\ ends' = [k \in Kid |-> IF k[1] = inst /\ ends[k] > now THEN now ELSE ends[k]]
  /\ UNCHANGED <<now, token, cache, pc, callVars, held, reply, result, served>>

\* getCurrentJwks once the overlap entry is o.
CurrentJwks(o) ==
  {[kid |-> ComputeKid(inst, epoch), key |-> key]}
    \cup (IF o = None THEN {} ELSE {[kid |-> o.kid, key |-> o.key]})

\* A token is minted under the current key; a tampered one does not verify
\* under the key its header names.
Mint(t, f) ==
  /\ token[t] = None
  /\ token' = [token EXCEPT ![t] =
       [kid |-> ComputeKid(inst, epoch), key |-> key, exp |-> now + Lifetime, flaw |-> f]]
  /\ UNCHANGED <<now, serverVars, cache, pc, callVars, held, reply, result, served>>

-----------------------------------------------------------------------------
(* The verifier *)

Finish(v, r) ==
  /\ pc' = [pc EXCEPT ![v] = "done"]
  /\ result' = [result EXCEPT ![v] = r]

\* The JWS is parsed; the cache entry is read and the fetch is sent with its
\* ETag.
Begin(v, t) ==
  /\ pc[v] = "idle"
  /\ token[t] # None
  /\ about' = [about EXCEPT ![v] = t]
  /\ began' = [began EXCEPT ![v] = now]
  /\ \/ /\ token[t].flaw = "malformed"
        /\ Finish(v, "malformed-jws")
        /\ UNCHANGED held
     \/ /\ token[t].flaw # "malformed"
        /\ pc' = [pc EXCEPT ![v] = "fetching"]
        /\ held' = [held EXCEPT ![v] = cache]
        /\ UNCHANGED result
  /\ UNCHANGED <<now, serverVars, token, cache, reply, served>>

\* The request fails on its way, or the endpoint cannot answer.
ServeFails(v) ==
  /\ pc[v] = "fetching"
  /\ pc' = [pc EXCEPT ![v] = "replied"]
  /\ \E s \in {"500", "network"} : reply' = [reply EXCEPT ![v] = [status |-> s]]
  /\ UNCHANGED <<now, serverVars, token, cache, callVars, held, result, served>>

\* GET /.well-known/jwks.json: 304 when the ETag sent is that of the body.
Serve(v) ==
  LET o == PurgeExpired(now)
      d == CurrentJwks(o)
  IN
  /\ pc[v] = "fetching"
  /\ overlap' = o
  /\ pc' = [pc EXCEPT ![v] = "replied"]
  /\ reply' = [reply EXCEPT ![v] =
       [status |-> IF held[v] = d THEN "304" ELSE "200", body |-> d]]
  /\ served' = [served EXCEPT ![v] = [at |-> now, jwks |-> d]]
  /\ UNCHANGED <<now, inst, epoch, key, fresh, ends, token, cache, callVars, held, result>>

\* verifyCounterpartyAttestation from step 4 on, with the JWKS ks.
Judge(v, ks) ==
  LET t     == token[about[v]]
      named == {k \in ks : k.kid = t.kid}
      good  == {k \in named : k.key = t.key /\ t.flaw # "tampered"}
  IN
  \/ named = {} /\ Finish(v, "unknown-kid")
  \/ named # {} /\ good = {} /\ Finish(v, "tampered-signature")
  \/ good # {} /\ t.flaw = "aud" /\ Finish(v, "bad-aud")
  \/ good # {} /\ t.flaw # "aud" /\ t.exp < began[v] /\ Finish(v, "expired")
  \/ good # {} /\ t.flaw # "aud" /\ t.exp >= began[v] /\ Finish(v, "ok")

\* The response arrives: 200 replaces the cache entry, 304 puts the entry read
\* before the fetch back, a network error falls back on that entry.
Receive(v) ==
  /\ pc[v] = "replied"
  /\ \/ /\ reply[v].status = "200"
        /\ cache' = reply[v].body
        /\ Judge(v, reply[v].body)
     \/ /\ reply[v].status = "304"
        /\ cache' = held[v]
        /\ Judge(v, held[v])
     \/ /\ reply[v].status = "network"
        /\ UNCHANGED cache
        /\ \/ held[v] # None /\ Judge(v, held[v])
           \/ held[v] = None /\ Finish(v, "jwks-fetch-failed")
     \/ /\ reply[v].status = "500"
        /\ UNCHANGED cache
        /\ Finish(v, "jwks-fetch-failed")
  /\ held' = [held EXCEPT ![v] = None]
  /\ reply' = [reply EXCEPT ![v] = None]
  /\ UNCHANGED <<now, serverVars, token, callVars, served>>

Tick ==
  /\ now < MaxNow
  /\ now' = now + 1
  /\ UNCHANGED <<serverVars, token, cache, pc, callVars, held, reply, result, served>>

Next ==
  \/ \E w \in Windows : \E k \in {key, fresh + 1} : RotateServerKey(k, w)
  \/ Restart
  \/ \E t \in Token, f \in Flaw \cup {"none"} : Mint(t, f)
  \/ \E v \in Ver, t \in Token : Begin(v, t)
  \/ \E v \in Ver : Serve(v) \/ ServeFails(v) \/ Receive(v)
  \/ Tick

Spec == Init /\ [][Next]_vars

-----------------------------------------------------------------------------
(* Properties *)

Sound(v) == token[about[v]].flaw = "none" /\ token[about[v]].exp >= began[v]

\* A verification the server replied to, and that was not told of an error.
Online(v) == pc[v] = "done" /\ served[v] # None

\* The rotations of the process that minted t since it did.
Rotations(t) == epoch - token[t].kid[2]

\* "so in-flight JWS minted under the old key keep verifying" (jwks.ts:6): a
\* sound token verifies whenever the server that minted it replies before the
\* window of its key ends, through any interleaving of verifications, with one
\* rotation since (a second one drops the key, docs/model-attestation.md:82).
InFlightKeepVerifying ==
  \A v \in Ver :
    (Online(v) /\ Sound(v)
       /\ inst = token[about[v]].kid[1] /\ Rotations(about[v]) <= 1
       /\ served[v].at <= ends[token[about[v]].kid])
      => result[v] = "ok"

\* A retired key is not accepted: a token verifies against a reply of the
\* server only if its kid was current, or in its window, when the server
\* replied -- whatever other verifications put into the cache meanwhile.
RetiredNotAccepted ==
  \A v \in Ver :
    (Online(v) /\ result[v] = "ok") => served[v].at <= ends[token[about[v]].kid]

\* The ETag cache cannot be observed: a verification the server replied to is
\* decided by the JWKS of that reply, for "unknown-kid" as for "ok".
CacheTransparent ==
  \A v \in Ver : Online(v) =>
    LET kids == {k.kid : k \in served[v].jwks} IN
      /\ result[v] = "unknown-kid" <=> token[about[v]].kid \notin kids
      /\ result[v] = "ok" =>
           [kid |-> token[about[v]].kid, key |-> token[about[v]].key] \in served[v].jwks

\* "whenever the keypair OR the rotation epoch changes, kid changes too"
\* (jwks.ts:8): no two entries the server serves, and no two tokens, carry one
\* kid with different keys, restarts and reused seeds included.
KidNamesOneKey ==
  LET entries == (UNION {served[v].jwks : v \in {u \in Ver : served[u] # None}})
                   \cup {[kid |-> token[t].kid, key |-> token[t].key] :
                            t \in {u \in Token : token[u] # None}}
  IN \A j, k \in entries : j.kid = k.kid => j.key = k.key

\* "must be set in production so JWS issued by this server are verifiable
\* across restarts" (server-key.ts:84): with the key file, and no rotation, a
\* sound token the server is asked about verifies after a restart too.
VerifiableAcrossRestarts ==
  \A v \in Ver :
    (Online(v) /\ Sound(v) /\ token[about[v]].key = 0 /\ key = 0 /\ epoch = 0)
      => result[v] = "ok"

\* A key rotation is invisible to honest parties and final for a retired key,
\* through caches, late replies and restarts: the four promises above.
RotationSound ==
  /\ InFlightKeepVerifying
  /\ RetiredNotAccepted
  /\ CacheTransparent
  /\ KidNamesOneKey
=============================================================================
