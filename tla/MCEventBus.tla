----------------------------- MODULE MCEventBus -----------------------------
(* Two messages, of which one goes through the journal; two consumers that  *)
(* may throw, whose attempts add up; one client, which may connect again.   *)
EXTENDS EventBus

MCMessage == {"m1", "m2"}
MCJournaled == {"m1"}
MCConsumer == {"a", "b"}
MCFailing == {"a", "b"}
MCClient == {"c"}
=============================================================================
