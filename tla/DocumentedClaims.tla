-------------------------- MODULE DocumentedClaims --------------------------
(* What the documents say of the engine and its code does not do. *)
EXTENDS DozerEngine

(* README.md:224: "Unsupported values fail with SerializationError".  With *)
(* a result queue and workflow retries, markPublishingResult leaves the    *)
(* status "completing" in memory, and the next attempt publishes.          *)
CompletedHasResult ==
  resultQ.status = "completed" => resultQ.result # Undefined
=============================================================================
