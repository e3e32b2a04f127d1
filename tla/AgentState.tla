----------------------------- MODULE AgentState -----------------------------
(***************************************************************************)
(* The finite state machine of the agent (internal/domain/agent/state.go). *)
(* The table is the code's; Machine.Transition either moves to the wanted  *)
(* state or leaves the machine where it is, and its only caller            *)
(* (Lifecycle.setState) throws the error away, so a refused transition is  *)
(* silent.                                                                 *)
(***************************************************************************)

State == {"STARTING", "CONNECTING", "AUTHENTICATING", "REGISTERING",
          "CONNECTED", "DISCONNECTED", "RECONNECTING", "OFFLINE", "ERROR",
          "SHUTTING_DOWN"}

transitions(from) ==
  CASE from = "STARTING"       -> {"CONNECTING", "ERROR", "SHUTTING_DOWN"}
    [] from = "CONNECTING"     -> {"AUTHENTICATING", "DISCONNECTED", "ERROR",
                                   "SHUTTING_DOWN"}
    [] from = "AUTHENTICATING" -> {"REGISTERING", "CONNECTED", "DISCONNECTED",
                                   "ERROR", "SHUTTING_DOWN"}
    [] from = "REGISTERING"    -> {"CONNECTED", "DISCONNECTED", "ERROR",
                                   "SHUTTING_DOWN"}
    [] from = "CONNECTED"      -> {"DISCONNECTED", "ERROR", "SHUTTING_DOWN"}
    [] from = "DISCONNECTED"   -> {"RECONNECTING", "OFFLINE", "SHUTTING_DOWN"}
    [] from = "RECONNECTING"   -> {"CONNECTING", "OFFLINE", "ERROR",
                                   "SHUTTING_DOWN"}
    [] from = "OFFLINE"        -> {"RECONNECTING", "SHUTTING_DOWN"}
    [] from = "ERROR"          -> {"RECONNECTING", "OFFLINE", "SHUTTING_DOWN"}
    [] from = "SHUTTING_DOWN"  -> {}

\* Slip: the table lacks the return from RECONNECTING to CONNECTING.
CanTransition_NoRedial(from, to) ==
  to \in transitions(from) \ IF from = "RECONNECTING" THEN {"CONNECTING"} ELSE {}

CanTransition(from, to) == to \in transitions(from)

\* What the machine holds after Transition(to), accepted or refused.
Transition(from, to) == IF CanTransition(from, to) THEN to ELSE from

=============================================================================
