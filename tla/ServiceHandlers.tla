--------------------------- MODULE ServiceHandlers ---------------------------
(***************************************************************************)
(* The handlers of the service providers (keeper/bpps): handleTask of each *)
(* is a promise that passes through its awaits and settles as a success or *)
(* a failure.  work[t] is the await the handler of task t stands at.  An   *)
(* await may never return: the fetchers clear their abort timer before     *)
(* they read the body, and the model calls have no timeout.                *)
(***************************************************************************)
CONSTANT Task

VARIABLE work

Settled == {"success", "failure"}

Stage ==
  {"fetch", "summarize", "plan", "search", "pages", "synthesize", "generate",
   "poll", "download", "pin", "load_csv", "analyze", "load_sources",
   "static_audit", "llm_audit"}

\* The first await after the input was validated, which is synchronous.  The
\* bank's dispatcher has only stubs and always answers failure.
FirstAwait ==
  [text_summarize |-> "fetch", web_research |-> "plan", image_generate |-> "generate",
   data_analyze |-> "load_csv", code_audit |-> "load_sources", bank |-> "failure"]

Kinds == DOMAIN FirstAwait

Await(t, stage, outcomes) ==
  /\ work[t] = stage
  /\ \E next \in outcomes : work' = [work EXCEPT ![t] = next]

----------------------------------------------------------------------------
(* text-summarize *)

\* Inline text, a PDF or a URL; too large, not found or an unknown content
\* type throws.
FetchSource(t) == Await(t, "fetch", {"summarize", "failure"})

\* The source and the model's answer must not be empty.
Summarize(t) == Await(t, "summarize", Settled)

TextSummarize(t) == FetchSource(t) \/ Summarize(t)

----------------------------------------------------------------------------
(* web-research *)

\* A model call that fails or answers nonsense falls back to the query itself;
\* a query the planner refuses as empty, and any other throw, fails the task.
PlanQueries(t) == Await(t, "plan", {"search", "failure"})

\* One search per sub-query, of which any may throw; no hit at all fails.
Search(t) == Await(t, "search", {"search", "pages", "failure"})

\* Pages that fail are left out; the handler fails when none is left.
FetchPages(t) == Await(t, "pages", {"synthesize", "failure"})

Synthesize(t) == Await(t, "synthesize", Settled)

WebResearch(t) == PlanQueries(t) \/ Search(t) \/ FetchPages(t) \/ Synthesize(t)

----------------------------------------------------------------------------
(* image-generate *)

\* Replicate creates a job to be polled; the other providers answer with the
\* picture.
Generate(t) == Await(t, "generate", {"poll", "pin", "failure"})

\* Until the job is done, has failed, or the poll budget is used up.
PollUntilDone(t) == Await(t, "poll", {"poll", "download", "failure"})

Download(t) == Await(t, "download", {"pin", "failure"})

PinBytes(t) == Await(t, "pin", Settled)

ImageGenerate(t) == Generate(t) \/ PollUntilDone(t) \/ Download(t) \/ PinBytes(t)

----------------------------------------------------------------------------
(* data-analyze *)

\* The profile that follows is synchronous: a malformed or empty dataset
\* fails with it.
FetchCsv(t) == Await(t, "load_csv", {"analyze", "failure"})

\* An answer of the model that is no report throws.
Analyze(t) == Await(t, "analyze", Settled)

DataAnalyze(t) == FetchCsv(t) \/ Analyze(t)

----------------------------------------------------------------------------
(* code-audit-solidity *)

LoadSources(t) == Await(t, "load_sources", {"static_audit", "failure"})

\* A tool that is missing, times out or prints nonsense is skipped; the temp
\* directory may fail.
RunStaticAuditor(t) == Await(t, "static_audit", {"llm_audit", "failure"})

\* An answer that does not parse is reported as a finding, not a failure.
LlmAudit(t) == Await(t, "llm_audit", Settled)

CodeAudit(t) == LoadSources(t) \/ RunStaticAuditor(t) \/ LlmAudit(t)

----------------------------------------------------------------------------
HandlerStep(t) ==
  \/ TextSummarize(t) \/ WebResearch(t) \/ ImageGenerate(t)
  \/ DataAnalyze(t) \/ CodeAudit(t)
=============================================================================
