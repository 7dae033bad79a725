--------------------------- MODULE PipelineStates ---------------------------
(***************************************************************************)
(* The vocabulary of the pipeline: its states, the transitions the         *)
(* orchestrator allows and the order of its phases.  Everything here is a  *)
(* constant table of the code, shared by every module about pipelines.     *)
(***************************************************************************)

\* The states of a pipeline (enum PipelineState).
PipelineState ==
    {"idle", "planning", "implementing", "qa", "deploying",
     "complete", "failed", "paused"}

\* TERMINAL_STATES: the pipeline is no longer active.
TERMINAL_STATES == {"complete", "failed"}

\* VALID_TRANSITIONS: the states each state may be left for.
VALID_TRANSITIONS ==
    [idle         |-> {"planning", "implementing"},
     planning     |-> {"implementing", "failed", "paused"},
     implementing |-> {"qa", "failed", "paused"},
     qa           |-> {"deploying", "implementing", "failed", "paused"},
     deploying    |-> {"complete", "failed", "paused"},
     complete     |-> {"idle"},
     failed       |-> {"idle", "planning", "implementing"},
     paused       |-> {"planning", "implementing", "qa", "deploying"}]

\* PHASE_PROGRESSION: the state a phase that completes hands over to.
PHASE_PROGRESSION ==
    [planning     |-> "implementing",
     implementing |-> "qa",
     qa           |-> "deploying",
     deploying    |-> "complete"]

\* The phases an agent works on: the keys of phaseAgentMap, which are also
\* those of PHASE_PROGRESSION.
Phase == {"planning", "implementing", "qa", "deploying"}
=============================================================================
