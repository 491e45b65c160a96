---------------------------- MODULE BecknCallback ----------------------------
(***************************************************************************)
(* The bridge's on_search callbacks to a BAP: postOnSearch                 *)
(* (src/gateway/inbound-bap-callback.ts), which posts its caller's         *)
(* envelope as it is and tries three times, and dispatchOnSearch           *)
(* (src/gateway/outbound-bpp.ts), which builds the envelope from the rows  *)
(* on chain and posts it once.                                             *)
(*                                                                         *)
(* A row is [provider, items]; a host is "public", "private" or "name",    *)
(* a name that DNS resolves to one of the two or not at all.  A post that  *)
(* fails or times out may have reached the BAP.                            *)
(***************************************************************************)
EXTENDS Integers, Sequences, SequencesExt

CONSTANTS
  Rows,         \* sequences of rows the chain, or a caller's envelope, may hold
  MaxAttempts,  \* retries + 1
  AllowPrivate, \* ETO_BECKN_ALLOW_PRIVATE_CALLBACKS
  None

(* A row has a provider and a list of items; there is a first attempt. *)
CallbackAssumption ==
  /\ MaxAttempts \in Nat \ {0}
  /\ \A rows \in Rows :
       /\ rows \in Seq(Range(rows))
       /\ \A r \in Range(rows) : /\ r = [provider |-> r.provider, items |-> r.items]
                                 /\ r.items \in Seq(Range(r.items))

Hosts == {"public", "private", "name", "malformed"}

VARIABLES
  job,      \* [kind, pc, host, uuid, rows, providers, attempts, ok, reason]
  received  \* the provider lists the BAP got

vars == <<job, received>>

(* Any call, about any rows the chain holds by then. *)
Init ==
  /\ received = <<>>
  /\ job \in [kind : {"retrying", "dispatch"}, pc : {"start"}, host : Hosts,
              uuid : BOOLEAN, rows : Rows, providers : {<<>>}, attempts : {0},
              ok : {FALSE}, reason : {"none"}]

Finish(ok, reason) == [job EXCEPT !.pc = "done", !.ok = ok, !.reason = reason]

(***************************************************************************)
(* buildBppOnSearchEnvelope: one provider entry per provider, in the order *)
(* of their first rows, with the items of all its rows.                    *)
(***************************************************************************)
\* Mutant: a later row replaces what the provider had.
AddRowLast(ps, row) ==
  Append(SelectSeq(ps, LAMBDA p : p.provider # row.provider), row)

AddRow(ps, row) ==
  IF \E i \in 1 .. Len(ps) : ps[i].provider = row.provider
  THEN [i \in 1 .. Len(ps) |->
          IF ps[i].provider = row.provider
          THEN [ps[i] EXCEPT !.items = @ \o row.items] ELSE ps[i]]
  ELSE Append(ps, row)
Providers(rows) == FoldLeft(AddRow, <<>>, rows)

(* dispatchOnSearch: the rows arrive. *)
FetchRows ==
  /\ job.kind = "dispatch" /\ job.pc = "start"
  /\ \/ /\ job.rows = <<>>
        /\ job' = Finish(FALSE, "no_catalog_responses")
     \/ /\ job.rows # <<>>
        /\ job' = [job EXCEPT !.pc = "guard", !.providers = Providers(job.rows)]
  /\ UNCHANGED received

(* postBppOnSearch up to the post: isPrivateOrLoopbackHostResolved waits for *)
(* DNS, and a name that does not resolve counts as private.                  *)
Guard ==
  /\ job.kind = "dispatch" /\ job.pc = "guard"
  /\ \E private \in IF job.host = "name" THEN BOOLEAN ELSE {job.host = "private"} :
       job' = IF job.host = "malformed" THEN Finish(FALSE, "bad_bap_uri")
              ELSE IF private /\ ~AllowPrivate THEN Finish(FALSE, "ssrf_blocked")
              ELSE IF ~job.uuid THEN Finish(FALSE, "envelope_invalid")
              ELSE [job EXCEPT !.pc = "post"]
  /\ UNCHANGED received

(* validateCallbackUri: by the text of the host; throws.  The body is the   *)
(* caller's envelope, whose providers are the rows as they came.            *)
Validate ==
  /\ job.kind = "retrying" /\ job.pc = "start"
  /\ job' = IF job.host = "malformed" \/ (job.host = "private" /\ ~AllowPrivate)
            THEN Finish(FALSE, "forbidden")
            ELSE [job EXCEPT !.pc = "post", !.providers = job.rows]
  /\ UNCHANGED received

(***************************************************************************)
(* One post: "ok" (2xx), "status" (another one) or "error" (it threw or    *)
(* timed out).  dispatchOnSearch posts once and lets an error through.     *)
(***************************************************************************)
Post(outcome) ==
  /\ job.pc = "post"
  /\ LET n == job.attempts + 1
     IN  job' = IF outcome = "ok" \/ n >= MaxAttempts \/ job.kind = "dispatch"
                THEN [Finish(outcome = "ok", outcome) EXCEPT !.attempts = n]
                ELSE [job EXCEPT !.attempts = n]
  /\ \/ outcome # "error" /\ received' = Append(received, job.providers)
     \/ outcome = "error" /\ received' \in {received, Append(received, job.providers)}

Next == FetchRows \/ Guard \/ Validate \/ \E o \in {"ok", "status", "error"} : Post(o)

Spec == Init /\ [][Next]_vars

-----------------------------------------------------------------------------
ItemsOf(rows, p) ==
  FlattenSeq([i \in 1 .. Len(rows) |->
                IF rows[i].provider = p THEN rows[i].items ELSE <<>>])

(***************************************************************************)
(* What is reported is what happened: a callback reported as delivered     *)
(* reached the BAP, one refused by a check reached nobody, and one that is *)
(* given up was tried as often as it should be; every envelope that        *)
(* dispatchOnSearch got to the BAP has each provider once, with all its    *)
(* items in the order of the rows, and every one postOnSearch got there,   *)
(* at whichever attempt, is the caller's.                                  *)
(***************************************************************************)
DeliveredAsReported ==
  /\ job.pc = "done" =>
       /\ job.ok => received # <<>>
       /\ job.attempts = 0 => received = <<>>
       /\ job.kind = "retrying" /\ ~job.ok /\ job.attempts > 0 =>
            job.attempts = MaxAttempts
  /\ Len(received) <= job.attempts
  /\ \A i \in 1 .. Len(received) :
       LET ps == received[i]
       IN  IF job.kind = "retrying" THEN ps = job.rows ELSE
           /\ \A a, b \in 1 .. Len(ps) : ps[a].provider = ps[b].provider => a = b
           /\ \A a \in 1 .. Len(ps) : ps[a].items = ItemsOf(job.rows, ps[a].provider)
           /\ {ps[a].provider : a \in 1 .. Len(ps)} =
                {job.rows[a].provider : a \in 1 .. Len(job.rows)}

=============================================================================
