--------------------------- MODULE UsageAccounting ---------------------------
(***************************************************************************)
(* One request of the writing assistant: AssistantService.handle           *)
(* (application/service.py) runs a model mode or the fix-wording engines   *)
(* (fix_engines.py), and usage_integration.py reserves, blocks and         *)
(* finalizes the request's attempt in the usage ledger (usage/ledger.py).  *)
(*                                                                         *)
(* Requests run in threads of one server.  The ledger reads a record and   *)
(* replaces its file in two steps, without a lock; the file is replaced    *)
(* atomically.  Money is counted in micro-dollars and rates in tenths of   *)
(* a dollar per million tokens, so that a charge needs rounding.           *)
(***************************************************************************)
EXTENDS Integers, FiniteSets

CONSTANTS
  Requests,
  Ids,         \* request ids, chosen by the client
  Kinds,       \* of a request: "unselected", "model" or "fix"
  Sizes,       \* characters of a request's prompts
  Responses,   \* what the endpoint of the provider does with a request
  Configs,     \* configurations of the server
  None, Overlap, NotApplicable,
  MaxFaults    \* bound: failed ledger writes and crashes

Unknown == -1  \* a counter or rate that is not given

(* What a counter or a rate may be (usage/models.py). *)
Count == Nat \cup { Unknown }

(* What became of the last engine that was run. *)
Outcomes == { "good", "invalid", "error", "exception", "refused" }

(* PricingRates refuses a negative rate, and a reply is malformed if one of *)
(* its counters is given and no number of at least 0.                       *)
InputsAreRead ==
  /\ Kinds \subseteq { "unselected", "model", "fix" } /\ None \notin Ids \cup Outcomes
  /\ \A resp \in Responses :
       /\ resp.kind \in { "timeout", "connection", "transport", "status", "malformed",
                          "null", "blank", "tools", "text" }
       /\ resp.usage.kind \in { "absent", "malformed", "nonfinite", "object" }
       /\ resp.usage.kind = "object" =>
            { resp.usage.input, resp.usage.output, resp.usage.read, resp.usage.write,
              resp.usage.reasoning } \subseteq Count
  /\ \A c \in Configs : \A p \in c.records :
       { p.uncached, p.read, p.write, p.output, p.reasoning } \subseteq Count

ASSUME UsageAssumption == InputsAreRead

VARIABLES
  config,   \* the settings of the server's environment, and the pricing records
  req,      \* the frames of the requests
  ledger,   \* the attempt records, by request id
  faults

vars == << config, req, ledger, faults >>

Idle == [pc |-> "idle", id |-> None, kind |-> None, size |-> 0, run |-> 0, pre |-> None,
         attempt |-> FALSE, seen |-> None, reply |-> None, calls |-> 0, last |-> None,
         answer |-> None, evidence |-> None]

Set(r, f) == req' = [req EXCEPT ![r] = f]

------------------------------------------------------------------------------
(* The settings of the server, read anew for every request. *)

(* build_provider and the constructors of the providers: a provider that   *)
(* is unknown or lacks a setting is replaced by _MisconfiguredProvider.    *)
Provider ==
  IF config.provider \in { "local-openai-compatible", "cloud-openai-compatible", "cloud-anthropic" }
     /\ config.settings = "complete"
  THEN config.provider ELSE "unconfigured"

(* UsageConfig.from_environment raises on a value it cannot parse. *)
UsageConfigured == config.usage.values = "parsed"

(* PricingRegistry.from_path and __init__ refuse an invalid document, an   *)
(* unknown version and two records of one identity.                        *)
RegistryLoads ==
  /\ config.usage.document # "invalid"
  /\ \A p, q \in config.records : p # q => p.from # q.from

(* UsageAccountingIntegration.from_environment: no accounting on any       *)
(* failure; no ledger where none is set.                                   *)
Accounting ==
  CASE ~UsageConfigured \/ config.usage.mode = "off" \/ ~RegistryLoads -> "off"
    [] OTHER -> IF config.usage.ledger THEN "ledger" ELSE "memory"

(* PricingRegistry.resolve, for the model of the request. *)
Resolve ==
  LET matches == { p \in config.records :
                     p.from <= config.now /\ (p.until = Unknown \/ config.now < p.until) }
  IN  IF matches = {} THEN None
      ELSE IF Cardinality(matches) > 1 THEN Overlap
      ELSE CHOOSE p \in matches : TRUE

(* build_grammar_state, at startup: the engine is there when a mode that   *)
(* uses it is selected, its extra is installed and it initializes.         *)
GrammarEngine ==
  config.engine \in { "languagetool", "auto" } /\ config.grammar = "initialized"

(* FixEngineSelector.from_env *)
SelectorMisconfigured ==
  \/ config.engine \notin { "model", "languagetool", "auto" }
  \/ config.fallback \notin { "none", "model" }

------------------------------------------------------------------------------
(* Usage of a reply: sanitized by the provider, normalized, selected. *)

NoUsage == [status |-> "incomplete", input |-> Unknown, output |-> Unknown,
            read |-> Unknown, write |-> Unknown, reasoning |-> Unknown]

(* _sanitize_native_usage of the OpenAI-compatible providers: malformed    *)
(* counters, a missing required one and details that are no object.        *)
SanitizeOpenAI(raw) ==
  CASE raw.kind = "absent"    -> "absent"
    [] raw.kind = "malformed" -> "invalid"
    [] OTHER -> IF Unknown \in { raw.input, raw.output } THEN "invalid" ELSE "native"

(* _sanitize_native_usage of the Anthropic provider, which has no details. *)
SanitizeAnthropic(raw) ==
  CASE raw.kind = "absent" -> "absent"
    [] raw.kind = "malformed" \/ Unknown \in { raw.input, raw.output } -> "invalid"
    [] OTHER -> "native"

(* normalize_openai_usage: a total that contradicts its parts is refused.  *)
NormalizeOpenAI(raw) ==
  IF raw.total \notin { Unknown, raw.input + raw.output } THEN NoUsage
  ELSE [status |-> "complete", input |-> raw.input, output |-> raw.output,
        read |-> raw.read, write |-> Unknown, reasoning |-> raw.reasoning]

(* normalize_anthropic_usage *)
NormalizeAnthropic(raw) ==
  [status |-> "complete", input |-> raw.input, output |-> raw.output,
   read |-> raw.read, write |-> raw.write, reasoning |-> Unknown]

(* select_reply_usage.  A reply without native usage has no compatibility  *)
(* usage either: both come from the same object.                           *)
SelectReplyUsage(raw) ==
  IF Provider = "cloud-anthropic"
  THEN IF SanitizeAnthropic(raw) = "native" THEN NormalizeAnthropic(raw) ELSE NoUsage
  ELSE IF SanitizeOpenAI(raw) = "native" THEN NormalizeOpenAI(raw) ELSE NoUsage

------------------------------------------------------------------------------
(* The providers: a reply, a ProviderError or an exception nobody expects. *)

ProviderRaises == [result |-> "error", usage |-> NoUsage]

(* Both providers take int() of the counters before they sanitize them: a  *)
(* NaN or an Infinity, which response.json() accepts, is not expected.     *)
ReplyOf(resp) ==
  IF resp.usage.kind = "nonfinite" THEN [result |-> "exception", usage |-> NoUsage]
  ELSE [result |-> IF resp.fits THEN "good" ELSE "invalid",
        usage |-> SelectReplyUsage(resp.usage)]

(* _parse_chat_completion: a status that is not 200, a body without a      *)
(* message and an empty text are errors; a call of tools may have no text; *)
(* a message that is no object is not expected.                            *)
ParseChatCompletion(resp) ==
  CASE resp.kind \in { "status", "malformed", "blank" } -> ProviderRaises
    [] resp.kind = "null" -> [result |-> "exception", usage |-> NoUsage]
    [] resp.kind \in { "text", "tools" } -> ReplyOf(resp)

(* _parse_messages_response: blocks that are no text count for nothing. *)
ParseMessages(resp) ==
  IF resp.kind = "text" THEN ReplyOf(resp) ELSE ProviderRaises

(* The request to the endpoint times out, is refused or fails. *)
Unanswered(resp) == resp.kind \in { "timeout", "connection", "transport" }

(* LocalOpenAICompatibleProvider.complete *)
CompleteLocal(resp) ==
  IF Unanswered(resp) THEN ProviderRaises ELSE ParseChatCompletion(resp)

(* CloudOpenAICompatibleProvider.complete asks nothing without credential. *)
CompleteCloud(resp) ==
  IF ~config.credential \/ Unanswered(resp) THEN ProviderRaises ELSE ParseChatCompletion(resp)

(* CloudAnthropicProvider.complete *)
CompleteAnthropic(resp) ==
  IF ~config.credential \/ Unanswered(resp) THEN ProviderRaises ELSE ParseMessages(resp)

Complete(resp) ==
  CASE Provider = "local-openai-compatible" -> CompleteLocal(resp)
    [] Provider = "cloud-openai-compatible" -> CompleteCloud(resp)
    [] Provider = "cloud-anthropic"         -> CompleteAnthropic(resp)
    [] Provider = "unconfigured"            -> ProviderRaises

------------------------------------------------------------------------------
(* Charges. *)

(* Decimal.quantize with ROUND_HALF_EVEN, from tenths. *)
HalfEven(n) ==
  LET q == n \div 10   t == n % 10
  IN  IF t > 5 \/ (t = 5 /\ q % 2 = 1) THEN q + 1 ELSE q

(* Mutation: an unknown count is zero. *)
UnknownIsZero(n, rate) == IF n = Unknown THEN 0 ELSE n

(* The token counts _cost is given, by category, or None when              *)
(* calculate_actual_charge raises before it.                               *)
KnownTokens(n, rate) == IF n = Unknown /\ rate = Unknown THEN 0 ELSE n

BilledTokens(u, p) ==
  LET read == KnownTokens(u.read, p.read)
      separate == p.reasons = "separate"
  IN  [uncached  |-> IF p.input = "includes_cached_read" THEN u.input - read ELSE u.input,
       read      |-> read,
       write     |-> KnownTokens(u.write, p.write),
       output    |-> u.output,
       reasoning |-> IF separate THEN KnownTokens(u.reasoning, p.reasoning) ELSE 0]

Categories == { "uncached", "read", "write", "output", "reasoning" }

(* calculate_actual_charge: no charge for incomplete usage, an unknown     *)
(* billable count, a count without a rate or a contradiction.              *)
Chargeable(u, p) ==
  LET t == BilledTokens(u, p)
  IN  /\ u.status = "complete"
      /\ KnownTokens(u.read, p.read) # Unknown
      /\ p.input = "includes_cached_read" => KnownTokens(u.read, p.read) <= u.input
      /\ p.reasons = "not_reported" => u.reasoning \in { Unknown, 0 }
      /\ \A c \in Categories : t[c] # Unknown /\ (t[c] = 0 \/ p[c] # Unknown)

Charge(tokens, rate) == IF tokens = 0 THEN 0 ELSE HalfEven(tokens * rate)

CalculateActualCharge(u, p) ==
  LET t == BilledTokens(u, p)
  IN  IF Chargeable(u, p)
      THEN Charge(t.uncached, p.uncached) + Charge(t.read, p.read) + Charge(t.write, p.write)
             + Charge(t.output, p.output) + Charge(t.reasoning, p.reasoning)
      ELSE Unknown

(* ApproximateTokenEstimator.estimate: two messages, no reserved output.   *)
EstimateTokens(size) == (size + 3) \div 4 + 2 * 4

(* evaluate_context: begin gives no context limit, so it always permits.   *)
ContextPermitted == TRUE

(* evaluate_cost on the estimated charge, which begin never requires. *)
CostPermitted(cost) ==
  \/ config.usage.cost # "enforce" \/ config.usage.limit = Unknown
  \/ config.usage.approximate /\ (cost = Unknown \/ cost <= config.usage.limit)

(* calculate_estimated_charge: the input alone, nothing else is reserved.  *)
EstimatedCharge(f, p) ==
  IF p = None THEN Unknown ELSE Charge(EstimateTokens(f.size), p.uncached)

(* UsageAccountingService.preflight raises on overlapping pricing records  *)
(* and on an input without rate.                                           *)
PreflightRaises(p) == p = Overlap \/ (p \notin { None, Overlap } /\ p.uncached = Unknown)

Preflight(f, p) ==
  [pricing |-> p, permitted |-> ContextPermitted /\ CostPermitted(EstimatedCharge(f, p))]

------------------------------------------------------------------------------
(* AssistantService.handle *)

Handle(r) == \E id \in Ids, kind \in Kinds, size \in Sizes :
  /\ req[r].pc = "idle"
  /\ LET f == [Idle EXCEPT !.id = id, !.kind = kind, !.size = size]
     IN  Set(r, CASE kind = "unselected" -> [f EXCEPT !.pc = "done", !.answer = "uncertain"]
                  [] kind = "model" -> [f EXCEPT !.pc = "begin"]
                  [] kind = "fix" -> [f EXCEPT !.run = 1,
                       !.pc = IF config.engine = "model" THEN "begin" ELSE "engine"])
  /\ UNCHANGED << config, ledger, faults >>

(* Where a request goes on once begin_attempt has answered. *)
Begun(f, attempt) ==
  [f EXCEPT !.attempt = attempt, !.seen = None,
            !.pc = IF f.run = 0 THEN "call" ELSE "engine"]

(* The usage of the reply is turned into evidence and the answer is given. *)
Finalize(f, answer, usage) ==
  IF f.attempt
  THEN [f EXCEPT !.pc = "finalize", !.answer = answer, !.reply = usage]
  ELSE [f EXCEPT !.pc = "done", !.answer = answer]

(* UsageAccountingIntegration.begin: nothing is reserved without           *)
(* accounting, with overlapping pricing records or an input without rate.  *)
Begin(r) ==
  LET f == req[r]
      g == [f EXCEPT !.pre = Preflight(f, Resolve)]
  IN  /\ f.pc = "begin"
      /\ Set(r, CASE Accounting = "off" \/ PreflightRaises(Resolve) -> Begun(f, FALSE)
                  [] OTHER -> IF Accounting = "memory" THEN Begun(g, TRUE)
                              ELSE [g EXCEPT !.pc = "reserve"])
      /\ UNCHANGED << config, ledger, faults >>

Reserved(r) == [phase |-> "reserved", owner |-> r, actual |-> None, cost |-> Unknown]

(* Mutation: a conflicting reservation is raised to the request. *)
ReserveRaises(r) ==
  /\ req[r].pc = "reserve"
  /\ Set(r, IF ledger[req[r].id] # None THEN [req[r] EXCEPT !.pc = "done", !.answer = "http_500"]
            ELSE [req[r] EXCEPT !.pc = "reserving"])
  /\ UNCHANGED << config, ledger, faults >>

(* UsageLedger.reserve: any earlier record conflicts, its created_at is    *)
(* another one.                                                            *)
ReserveRead(r) ==
  /\ req[r].pc = "reserve"
  /\ Set(r, IF ledger[req[r].id] # None THEN Begun(req[r], FALSE)
            ELSE [req[r] EXCEPT !.pc = "reserving"])
  /\ UNCHANGED << config, ledger, faults >>

ReserveWrite(r) ==
  /\ req[r].pc = "reserving"
  /\ ledger' = [ledger EXCEPT ![req[r].id] = Reserved(r)]
  /\ Set(r, IF req[r].pre.permitted THEN Begun(req[r], TRUE)
            ELSE [req[r] EXCEPT !.pc = "block"])
  /\ UNCHANGED << config, faults >>

(* UsageLedger.block *)
BlockRead(r) ==
  /\ req[r].pc = "block"
  /\ Set(r, IF ledger[req[r].id].phase # "reserved" THEN Begun(req[r], FALSE)
            ELSE [req[r] EXCEPT !.pc = "blocking", !.seen = ledger[req[r].id]])
  /\ UNCHANGED << config, ledger, faults >>

BlockWrite(r) ==
  /\ req[r].pc = "blocking"
  /\ ledger' = [ledger EXCEPT ![req[r].id] = [req[r].seen EXCEPT !.phase = "blocked"]]
  /\ Set(r, Begun(req[r], TRUE))
  /\ UNCHANGED << config, faults >>

(* A write that fails raises UsageLedgerError, which begin swallows. *)
BeginWriteFails(r) ==
  /\ req[r].pc \in { "reserving", "blocking" }
  /\ faults < MaxFaults /\ faults' = faults + 1
  /\ Set(r, Begun(req[r], FALSE))
  /\ UNCHANGED << config, ledger >>

------------------------------------------------------------------------------
(* FixEngineSelector.run and the model call *)

(* _handle_fix_wording on a ProviderError: the first run in auto mode with *)
(* the model fallback begins the attempt and runs the selector again.      *)
EngineFailed(f, usage) ==
  IF f.run = 1 /\ ~f.attempt /\ config.engine = "auto" /\ config.fallback = "model"
  THEN [f EXCEPT !.pc = "begin", !.run = 2]
  ELSE Finalize(f, "failed", usage)

(* LanguageToolFixEngine.run: the checker answers, or anything it raises   *)
(* is a ProviderError.  Its lock orders the checks and nothing else.       *)
GrammarResults == { "good", "error" }

GrammarAnswers(f) ==
  [f EXCEPT !.pc = "done", !.last = "good", !.answer = "completed",
            !.evidence = IF Accounting = "off" THEN None ELSE NotApplicable]

NoGrammar(f) ==
  IF config.engine = "auto" /\ config.fallback = "model" THEN [f EXCEPT !.pc = "call"]
  ELSE EngineFailed([f EXCEPT !.last = "refused"], NoUsage)

(* FixEngineSelector.run *)
RunSelector(r) ==
  LET f == req[r]
  IN  /\ f.pc = "engine"
      /\ \/ /\ SelectorMisconfigured
            /\ Set(r, EngineFailed([f EXCEPT !.last = "refused"], NoUsage))
         \/ /\ ~SelectorMisconfigured /\ config.engine = "model"
            /\ Set(r, [f EXCEPT !.pc = "call"])
         \/ /\ ~SelectorMisconfigured /\ config.engine # "model"
            /\ \E result \in (IF GrammarEngine THEN GrammarResults ELSE { "error" }) :
                 Set(r, IF result = "good" THEN GrammarAnswers(f) ELSE NoGrammar(f))
      /\ UNCHANGED << config, ledger, faults >>

(* provider.complete: a reply that meets the mode's contract, one that     *)
(* does not, a ProviderError, or another exception; the last escapes from  *)
(* the second run of the selector.                                         *)
AfterCall(f, result, usage) ==
  CASE result = "good" -> Finalize(f, "completed", usage)
    [] f.run = 0 /\ result # "good" -> Finalize(f, "failed", usage)
    [] f.run > 0 /\ result \in { "invalid", "error" } -> EngineFailed(f, usage)
    [] f.run = 1 /\ result = "exception" -> Finalize(f, "failed", NoUsage)
    [] f.run = 2 /\ result = "exception" -> [f EXCEPT !.pc = "done", !.answer = "http_500"]

(* ModelFixEngine.run and the model modes call provider.complete. *)
CallProvider(r) == \E resp \in Responses :
  LET o == Complete(resp)
  IN  /\ req[r].pc = "call"
      /\ Set(r, AfterCall([req[r] EXCEPT !.calls = @ + 1, !.last = o.result], o.result, o.usage))
      /\ UNCHANGED << config, ledger, faults >>

------------------------------------------------------------------------------
(* UsageAttempt._finalize *)

CostOf(f) ==
  IF f.pre.pricing = None THEN Unknown ELSE CalculateActualCharge(f.reply, f.pre.pricing)

Done(f, actual, cost) ==
  [f EXCEPT !.pc = "done", !.seen = None, !.reply = None,
            !.evidence = [actual |-> actual, cost |-> cost]]

(* UsageLedger.finalize refuses a missing or terminal record; the evidence *)
(* then carries no actual usage.                                           *)
FinalizeRead(r) ==
  LET f == req[r]   old == ledger[f.id]
  IN  /\ f.pc = "finalize"
      /\ Set(r, IF Accounting = "memory" THEN Done(f, f.reply, CostOf(f))
                ELSE IF old = None \/ old.phase # "reserved" THEN Done(f, None, Unknown)
                ELSE [f EXCEPT !.pc = "finalizing", !.seen = old])
      /\ UNCHANGED << config, ledger, faults >>

FinalizeWrite(r) ==
  LET f == req[r]
  IN  /\ f.pc = "finalizing"
      /\ ledger' = [ledger EXCEPT ![f.id] =
           [f.seen EXCEPT !.phase = "finalized", !.actual = f.reply, !.cost = CostOf(f)]]
      /\ Set(r, Done(f, f.reply, CostOf(f)))
      /\ UNCHANGED << config, faults >>

(* Mutation: the finalization is reported although its write failed. *)
FinalizeReported(r) ==
  /\ req[r].pc = "finalizing"
  /\ faults < MaxFaults /\ faults' = faults + 1
  /\ Set(r, Done(req[r], req[r].reply, CostOf(req[r])))
  /\ UNCHANGED << config, ledger >>

FinalizeFails(r) ==
  /\ req[r].pc = "finalizing"
  /\ faults < MaxFaults /\ faults' = faults + 1
  /\ Set(r, Done(req[r], None, Unknown))
  /\ UNCHANGED << config, ledger >>

(* The server dies: requests under way are never answered, the files stay. *)
Crash ==
  /\ faults < MaxFaults /\ faults' = faults + 1
  /\ \E r \in Requests : req[r].pc \notin { "idle", "done", "lost" }
  /\ req' = [r \in Requests |-> IF req[r].pc \in { "idle", "done" } THEN req[r]
                                ELSE [req[r] EXCEPT !.pc = "lost"]]
  /\ UNCHANGED << config, ledger >>

------------------------------------------------------------------------------
Init ==
  /\ config \in Configs
  /\ req = [r \in Requests |-> Idle]
  /\ ledger = [i \in Ids |-> None]
  /\ faults = 0

Work(r) ==
  \/ Begin(r) \/ ReserveRead(r) \/ ReserveWrite(r) \/ BlockRead(r) \/ BlockWrite(r)
  \/ BeginWriteFails(r)
  \/ RunSelector(r) \/ CallProvider(r)
  \/ FinalizeRead(r) \/ FinalizeWrite(r) \/ FinalizeFails(r)

Next == (\E r \in Requests : Handle(r) \/ Work(r)) \/ Crash

Spec == Init /\ [][Next]_vars

------------------------------------------------------------------------------
(* Only the engines decide what a request answers: whatever the ledger,    *)
(* the registry or a conflicting id do, a request whose last engine gave a *)
(* good result completes, and it fails only on an engine that did not.     *)
AccountingNeverBreaks ==
  \A r \in Requests : req[r].pc = "done" =>
    /\ req[r].answer = "completed" <=> req[r].last = "good"
    /\ req[r].answer \in { "failed", "http_500" } => req[r].last \notin { None, "good" }

Alone(r) == \A s \in Requests \ {r} : req[s].id # req[r].id

(* Evidence that shows actual usage shows what the ledger holds: the       *)
(* finalized record of the request, with the same usage and the same cost, *)
(* for every request whose id nobody else uses.                            *)
EvidenceIsPersisted ==
  \A r \in Requests :
    LET f == req[r]
    IN  (/\ f.pc = "done" /\ Alone(r) /\ Accounting = "ledger"
         /\ f.evidence \notin { None, NotApplicable } /\ f.evidence.actual # None)
        => ledger[f.id] = [phase |-> "finalized", owner |-> r,
                           actual |-> f.evidence.actual, cost |-> f.evidence.cost]

(* What the tokens of a reply cost without rounding, each token once: a    *)
(* cached token at its own rate where the input includes it, a reasoning   *)
(* token apart only where it is billed apart.                              *)
Exact(u, p) ==
  LET At(n, rate) == IF n = Unknown \/ rate = Unknown THEN 0 ELSE n * rate
      cached == IF p.input = "includes_cached_read" /\ u.read # Unknown THEN u.read ELSE 0
  IN  At(u.input - cached, p.uncached) + At(u.read, p.read) + At(u.write, p.write)
        + At(u.output, p.output)
        + (IF p.reasons = "separate" THEN At(u.reasoning, p.reasoning) ELSE 0)

Counts(u, p) == { << u.input, p.uncached >>, << u.read, p.read >>, << u.write, p.write >>,
                  << u.output, p.output >> }
                \cup (IF p.reasons = "separate" THEN { << u.reasoning, p.reasoning >> } ELSE {})

(* A cost that is reported is the exact charge up to the rounding of its   *)
(* five categories, and no category that is billed was of unknown size.    *)
ChargeIsExact ==
  \A r \in Requests :
    LET f == req[r]   e == f.evidence
    IN  (f.pc = "done" /\ e \notin { None, NotApplicable } /\ e.cost # Unknown)
        => LET off == 10 * e.cost - Exact(e.actual, f.pre.pricing)
           IN  /\ off \in -25 .. 25
               /\ \A c \in Counts(e.actual, f.pre.pricing) : c[1] = Unknown => c[2] = Unknown

(* "One provider invocation reserves exactly one usage attempt and always  *)
(* finalizes it" (usage_integration.py): an answered request that called   *)
(* the provider called it once and left one terminal record, when the      *)
(* ledger is configured, nothing failed and nobody else uses its id.       *)
InvocationsAreAccounted ==
  \A r \in Requests :
    (/\ req[r].pc = "done" /\ req[r].calls > 0 /\ Alone(r) /\ faults = 0
     /\ Accounting = "ledger" /\ config.records = {})
    => /\ req[r].calls = 1
       /\ ledger[req[r].id] # None /\ ledger[req[r].id].phase # "reserved"

(* A terminal record of the ledger stays as it is ("Atomic, idempotent     *)
(* persistence", ledger.py).                                               *)
TerminalStays ==
  [][\A i \in Ids : (ledger[i] # None /\ ledger[i].phase # "reserved") => ledger'[i] = ledger[i]]_vars

==============================================================================
