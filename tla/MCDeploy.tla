------------------------------ MODULE MCDeploy ------------------------------
(***************************************************************************)
(* Two functions and two edits: the second drops a setting of the first    *)
(* function, and names a runtime for the second that is unsupported.       *)
(***************************************************************************)
EXTENDS Deploy

MCBadRuntime == <<{}, {2}>>
MCDeclares ==
  << <<{"handler", "timeout"}, {"handler"}>>, <<{"handler", "environment"}, {"handler"}>> >>
=============================================================================
