-------------------------- MODULE MCUsageAccounting --------------------------
(* Small instances of UsageAccounting. *)
EXTENDS UsageAccounting

CONSTANTS r1, r2

TwoRequests == { r1, r2 }

Usage(input, output, read, write, reasoning, total) ==
  [kind |-> "object", input |-> input, output |-> output, read |-> read, write |-> write,
   reasoning |-> reasoning, total |-> total]

Broken == [kind |-> "malformed"]
NaN    == [kind |-> "nonfinite"]

Reply(kind, fits, usage) == [kind |-> kind, fits |-> fits, usage |-> usage]

Reported == Usage(5, 3, 2, Unknown, 1, 8)
FewResponses ==
  { Reply("timeout", FALSE, Broken), Reply("connection", FALSE, Broken),
    Reply("transport", FALSE, Broken), Reply("status", FALSE, Broken),
    Reply("malformed", FALSE, Broken), Reply("null", FALSE, Reported),
    Reply("blank", FALSE, Reported), Reply("tools", FALSE, Reported),
    Reply("text", TRUE, NaN), Reply("text", TRUE, Broken), Reply("text", TRUE, [kind |-> "absent"]),
    Reply("text", TRUE, Usage(5, 3, 2, 1, 1, 8)),
    Reply("text", TRUE, Usage(3, 5, Unknown, 2, Unknown, 9)),
    Reply("text", FALSE, Usage(3, 5, Unknown, 2, Unknown, Unknown)) }
Price(uncached, read, write, output, reasoning, input, reasons, from, until) ==
  [uncached |-> uncached, read |-> read, write |-> write, output |-> output,
   reasoning |-> reasoning, input |-> input, reasons |-> reasons, from |-> from, until |-> until]

Cached == Price(15, 5, Unknown, 25, 35, "includes_cached_read", "separate", 1, 3)
Costly == Price(25, 5, 3, 25, Unknown, "excludes_cached_read", "not_reported", 3, Unknown)
Free   == Price(Unknown, 5, 3, 25, Unknown, "excludes_cached_read", "not_reported", 1, Unknown)

Env(mode, values, document, ledgerSet, cost, approximate) ==
  [mode |-> mode, values |-> values, document |-> document, ledger |-> ledgerSet,
   cost |-> cost, limit |-> 30, approximate |-> approximate]

Config(engine, fallback, grammar, usage, provider, credential, records, now) ==
  [engine |-> engine, fallback |-> fallback, grammar |-> grammar, usage |-> usage,
   provider |-> provider, settings |-> "complete", credential |-> credential,
   records |-> records, now |-> now]

Observed == Env("observe", "parsed", "valid", TRUE, "observe", TRUE)
Enforced == Env("observe", "parsed", "valid", TRUE, "enforce", TRUE)
InMemory == Env("observe", "parsed", "absent", FALSE, "enforce", FALSE)

Local  == "local-openai-compatible"
Cloud  == "cloud-openai-compatible"
Claude == "cloud-anthropic"

FewConfigs ==
  { Config("model", "none", "absent", Enforced, Local, FALSE, { Cached, Costly }, 2),
    Config("model", "none", "absent", Enforced, Cloud, TRUE, { Cached, Costly }, 3),
    Config("auto", "model", "initialized", Observed, Claude, TRUE, { Cached, Costly }, 3),
    Config("auto", "none", "failed", InMemory, Claude, FALSE, {}, 2),
    Config("auto", "model", "failed", Observed, Cloud, FALSE, { Costly, Free }, 4),
    Config("languagetool", "model", "initialized",
           Env("off", "parsed", "absent", TRUE, "off", TRUE), Claude, TRUE, {}, 2),
    Config("unknown", "none", "absent", Observed, "other", TRUE, {}, 2) }
FewIds    == { "x", "y" }
AllKinds  == { "unselected", "model", "fix" }
OneSize   == { 40 }
==============================================================================
