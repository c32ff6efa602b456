------------------------------ MODULE RunState ------------------------------
(***************************************************************************)
(* run-state.json: RunStateStore (coding_agent/runtime/state.py) and the   *)
(* wrappers CodingAssistant calls it through (assistant/coding.py).  Each  *)
(* operator gives the record the file holds after the call; a call that    *)
(* raises ValueError leaves the file alone.                                *)
(***************************************************************************)
EXTENDS FiniteSets

CONSTANTS
  Call,     \* tool call ids
  NoCall    \* no call is active

ASSUME RunStateAssumption == NoCall \notin Call

Live     == {"running", "waiting_model", "executing_tool", "finalizing"}
Terminal == {"completed", "failed", "cancelled", "interrupted", "paused"}

(* One record per session; "absent" is the missing file. *)
RunRecord == [status : Live \cup Terminal \cup {"absent"},
              active : Call \cup {NoCall},
              completed : SUBSET Call]

NoRun    == [status |-> "absent", active |-> NoCall, completed |-> {}]
FreshRun == [status |-> "running", active |-> NoCall, completed |-> {}]

(* _ALLOWED_TRANSITIONS *)
Allowed(s) ==
  CASE s = "running"    -> Live \cup Terminal
    [] s \in {"waiting_model", "executing_tool"} -> (Live \ {"running"}) \cup Terminal
    [] s = "finalizing" -> {"finalizing", "completed", "failed", "cancelled", "paused"}
    [] s \in Terminal   -> {s}
    [] OTHER            -> {}

Transition(r, s) == IF s \in Allowed(r.status) THEN [r EXCEPT !.status = s] ELSE r

(* _tool_run_state_started: tool_started refuses a second active call, and *)
(* the wrapper then forces the transition with the new call.               *)
ToolStarted(r, c) ==
  IF "executing_tool" \in Allowed(r.status)
    THEN [r EXCEPT !.status = "executing_tool", !.active = c]
    ELSE r

(* _tool_run_state_finished: tool_finished refuses a call that is not the  *)
(* active one, and the wrapper then forces waiting_model with no active    *)
(* call; only the first path records the call as completed.                *)
ToolFinished(r, c) ==
  IF "waiting_model" \notin Allowed(r.status) THEN r
  ELSE IF r.active \in {NoCall, c}
    THEN [status |-> "waiting_model", active |-> NoCall, completed |-> r.completed \cup {c}]
    ELSE [r EXCEPT !.status = "waiting_model", !.active = NoCall]

(* The transition of _run_once's finally block. *)
Finished(r, s) ==
  IF s \in Allowed(r.status) THEN [r EXCEPT !.status = s, !.active = NoCall] ELSE r

(* recover_interrupted, the owner process being dead. *)
Recovered(r) ==
  IF r.status \in Live THEN [r EXCEPT !.status = "interrupted", !.active = NoCall] ELSE r
=============================================================================
