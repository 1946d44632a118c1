--------------------------- MODULE MCAgentStreams ---------------------------
(* Instances of AgentStreams: files of up to four chunks, one of which      *)
(* overdraws the window.                                                     *)
EXTENDS AgentStreams

SomeFiles == {<<>>, <<1, 2>>, <<3, 1>>, <<1, 1, 1, 1>>}

============================================================================
