----------------------------- MODULE MCAshSession -----------------------------
(* One bridge, session-bridge with its two names, so that the instance is  *)
(* small enough for two sessions, Ash and its prompts.                     *)
EXTENDS AshSession

CONSTANTS session_bridge

MCBridges == <<session_bridge>>
MCNames == [b \in Bridge |-> 2]
=============================================================================
