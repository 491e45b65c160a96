------------------------------ MODULE Gateway ------------------------------
(***************************************************************************)
(* The services around the tools: sessions and OAuth, the rate limiter,    *)
(* the wallet files, key rotation and attestation, the Beckn bridge and    *)
(* its callbacks, the mesh validator.  They share no state in the program  *)
(* and are put side by side here: a behaviour is of one of them, named by  *)
(* part; Job are the calls, verifications or transfer requests of it.      *)
(***************************************************************************)
EXTENDS Integers, Sequences, FiniteSets

CONSTANTS
  None, Job,
  Clients, CodeTtl, SessionTtl, RefreshTtl, MaxFresh, LastTime,    \* sessions
  MaxRestarts,
  Keys, Category, PerMinute, Minute, IdleTicks, LastTick,          \* rate
  Legacy, Inodes, MaxCrashes,                                      \* wallets
  Token, Windows, Lifetime, Ephemeral, Flaw, MaxRot, MaxRestart,   \* rotation
  MaxNow,
  N, Msgs, Triggers, Registry, Verifier, RequireSignature,         \* beckn
  ExpectedBpps, Skew, MaxTime, MaxEpochs,
  Rows, MaxAttempts, AllowPrivate,                                 \* callback
  Address, Amount, Bodies, Funds, Limit, MaxHeight, MaxLoops       \* mesh

VARIABLES
  part,  \* the component this behaviour is of; no step changes it
  s_mem, s_disk, s_todo, s_reply, s_clock, s_booted, s_fresh, s_crashes,
  s_given, s_tried,
  r_buckets, r_clock, r_allowed,
  w_mem, w_load, w_saver, w_file, w_tmp, w_data, w_legacy, w_acked,
  w_overlapped, w_blind, w_crashes,
  k_now, k_inst, k_epoch, k_key, k_fresh, k_overlap, k_token, k_cache, k_pc,
  k_about, k_began, k_held, k_reply, k_result, k_served, k_ends,
  b_clock, b_calls, b_seen, b_fired, b_posted, b_attempts, b_chain, b_epoch,
  c_job, c_received,
  x_height, x_balance, x_reqs, x_attestations, x_credited, x_bucket, x_loop

Sessions == INSTANCE SessionGateway WITH
  MaxTime <- LastTime, MaxCrashes <- MaxRestarts, mem <- s_mem,
  disk <- s_disk, todo <- s_todo, reply <- s_reply, clock <- s_clock,
  booted <- s_booted, fresh <- s_fresh, crashes <- s_crashes, given <- s_given, tried <- s_tried

Rate == INSTANCE RateLimiter WITH
  Idle <- IdleTicks, MaxTime <- LastTick, buckets <- r_buckets, clock <- r_clock, allowed <- r_allowed

Wallets == INSTANCE WalletStore WITH
  Calls <- Job, mem <- w_mem, load <- w_load, saver <- w_saver, file <- w_file,
  tmp <- w_tmp, data <- w_data, legacy <- w_legacy, acked <- w_acked,
  overlapped <- w_overlapped, blind <- w_blind, crashes <- w_crashes

Rotation == INSTANCE Attestation WITH
  Ver <- Job, now <- k_now, inst <- k_inst,
  epoch <- k_epoch, key <- k_key, fresh <- k_fresh, overlap <- k_overlap,
  token <- k_token, cache <- k_cache, pc <- k_pc, about <- k_about,
  began <- k_began, held <- k_held, reply <- k_reply, result <- k_result,
  served <- k_served, ends <- k_ends

Beckn == INSTANCE BecknBridge WITH
  MaxCrashes <- MaxEpochs, clock <- b_clock,
  calls <- b_calls, seen <- b_seen, fired <- b_fired, posted <- b_posted,
  attempts <- b_attempts, chain <- b_chain, epoch <- b_epoch

Callback == INSTANCE BecknCallback WITH
  job <- c_job, received <- c_received

Mesh == INSTANCE MeshValidator WITH
  Request <- Job, height <- x_height, balance <- x_balance, reqs <- x_reqs,
  attestations <- x_attestations, credited <- x_credited,
  bucket <- x_bucket, loop <- x_loop

ASSUME SessionsAssumption == Sessions!TtlAssumption
ASSUME RateAssumption == Rate!RateAssumption
ASSUME WalletsAssumption == Wallets!InodesAssumption
ASSUME RotationAssumption == Rotation!AttestationAssumption
ASSUME CallbackAssumption == Callback!CallbackAssumption
ASSUME MeshAssumption == Mesh!MeshAssumption

s_vars ==
  <<s_mem, s_disk, s_todo, s_reply, s_clock, s_booted, s_fresh, s_crashes,
    s_given, s_tried>>
r_vars ==
  <<r_buckets, r_clock, r_allowed>>
w_vars ==
  <<w_mem, w_load, w_saver, w_file, w_tmp, w_data, w_legacy, w_acked,
    w_overlapped, w_blind, w_crashes>>
k_vars ==
  <<k_now, k_inst, k_epoch, k_key, k_fresh, k_overlap, k_token, k_cache,
    k_pc, k_about, k_began, k_held, k_reply, k_result, k_served, k_ends>>
b_vars ==
  <<b_clock, b_calls, b_seen, b_fired, b_posted, b_attempts, b_chain,
    b_epoch>>
c_vars ==
  <<c_job, c_received>>
x_vars ==
  <<x_height, x_balance, x_reqs, x_attestations, x_credited, x_bucket,
    x_loop>>
all == <<part, s_vars, r_vars, w_vars, k_vars, b_vars, c_vars, x_vars>>

\* A part that does not run rests in its initial state, or has none.
GatewayInit ==
  /\ part \in {"sessions", "rate", "wallets", "rotation", "beckn",
               "callback", "mesh"}
  /\ IF part = "sessions" THEN Sessions!Init
     ELSE /\ s_mem = None
          /\ s_disk = None
          /\ s_todo = None
          /\ s_reply = None
          /\ s_clock = None
          /\ s_booted = None
          /\ s_fresh = None
          /\ s_crashes = None
          /\ s_given = None
          /\ s_tried = None
  /\ IF part = "rate" THEN Rate!Init
     ELSE /\ r_buckets = None
          /\ r_clock = None
          /\ r_allowed = None
  /\ IF part = "wallets" THEN Wallets!Init
     ELSE /\ w_mem = None
          /\ w_load = None
          /\ w_saver = None
          /\ w_file = None
          /\ w_tmp = None
          /\ w_data = None
          /\ w_legacy = None
          /\ w_acked = None
          /\ w_overlapped = None
          /\ w_blind = None
          /\ w_crashes = None
  /\ IF part = "rotation" THEN Rotation!Init
     ELSE /\ k_now = None
          /\ k_inst = None
          /\ k_epoch = None
          /\ k_key = None
          /\ k_fresh = None
          /\ k_overlap = None
          /\ k_token = None
          /\ k_cache = None
          /\ k_pc = None
          /\ k_about = None
          /\ k_began = None
          /\ k_held = None
          /\ k_reply = None
          /\ k_result = None
          /\ k_served = None
          /\ k_ends = None
  /\ IF part = "beckn" THEN Beckn!Init
     ELSE /\ b_clock = None
          /\ b_calls = None
          /\ b_seen = None
          /\ b_fired = None
          /\ b_posted = None
          /\ b_attempts = None
          /\ b_chain = None
          /\ b_epoch = None
  /\ IF part = "callback" THEN Callback!Init
     ELSE /\ c_job = None
          /\ c_received = None
  /\ IF part = "mesh" THEN Mesh!Init
     ELSE /\ x_height = None
          /\ x_balance = None
          /\ x_reqs = None
          /\ x_attestations = None
          /\ x_credited = None
          /\ x_bucket = None
          /\ x_loop = None

GatewayNext ==
  \/ /\ part = "sessions"
     /\ Sessions!Next
     /\ UNCHANGED <<part, r_vars, w_vars, k_vars, b_vars, c_vars, x_vars>>
  \/ /\ part = "rate"
     /\ Rate!Next
     /\ UNCHANGED <<part, s_vars, w_vars, k_vars, b_vars, c_vars, x_vars>>
  \/ /\ part = "wallets"
     /\ Wallets!Next
     /\ UNCHANGED <<part, s_vars, r_vars, k_vars, b_vars, c_vars, x_vars>>
  \/ /\ part = "rotation"
     /\ Rotation!Next
     /\ UNCHANGED <<part, s_vars, r_vars, w_vars, b_vars, c_vars, x_vars>>
  \/ /\ part = "beckn"
     /\ Beckn!Next
     /\ UNCHANGED <<part, s_vars, r_vars, w_vars, k_vars, c_vars, x_vars>>
  \/ /\ part = "callback"
     /\ Callback!Next
     /\ UNCHANGED <<part, s_vars, r_vars, w_vars, k_vars, b_vars, x_vars>>
  \/ /\ part = "mesh"
     /\ Mesh!Next
     /\ UNCHANGED <<part, s_vars, r_vars, w_vars, k_vars, b_vars, c_vars>>

GatewaySpec == GatewayInit /\ [][GatewayNext]_all

-----------------------------------------------------------------------------
\* A code or a refresh token is answered with tokens once, see SessionGateway.
GrantOnce == part = "sessions" => Sessions!GrantOnce

\* What was revoked stays revoked through restarts, see SessionGateway.
RevokedStaysRevoked == part = "sessions" => Sessions!RevokedStaysRevoked

\* What a client was answered survives a restart, see SessionGateway.
AnsweredDurable == part = "sessions" => Sessions!AnsweredDurable

\* No key gets more than its bucket and a minute's refill, see RateLimiter.
RateBound == part = "rate" => Rate!RateBound

\* A wallet that was answered is on disk while saves do not overlap, see
\* WalletStore.
AloneDurable == part = "wallets" => Wallets!AloneDurable

\* Rotation is invisible to honest parties and final for a retired key, see
\* Attestation.
RotationSound == part = "rotation" => Rotation!RotationSound

\* One outcome per transaction, and only that outcome closes it, see BecknBridge.
CallbackSound == part = "beckn" => Beckn!CallbackSound

\* A callback reported as delivered was, with every provider and item of the
\* rows, see BecknCallback.
DeliveredAsReported == part = "callback" => Callback!DeliveredAsReported

\* No mesh credit without its stored evidence, see MeshValidator.
CreditAttested == part = "mesh" => Mesh!TypeOK /\ Mesh!CreditAttested

\* Wallets persist across reconnects (local-signer.ts:86), see WalletStore.
AckedWalletDurable == part = "wallets" => Wallets!AckedWalletDurable

\* Peers can answer the bridge's own requests under their transaction id, see
\* BecknBridge.
OwnRequestAnswerable == part = "beckn" => Beckn!OwnRequestAnswerable
=============================================================================
