---------------------------- MODULE MCEventStore -----------------------------
(* Small instances of EventStore. *)
EXTENDS EventStore

CONSTANTS t1, t2, r1

TwoThreads == { t1, t2 }
OneReader  == { r1 }
AnyPayload == { "plain", "separator" }
==============================================================================
