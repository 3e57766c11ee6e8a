----------------------------- MODULE MCDialOut -----------------------------
(***************************************************************************)
(* A topic of two configurations with a message to ignore between them, and  *)
(* a third one without paths.                                                *)
(***************************************************************************)
EXTENDS DialOut

MCKind == <<"config", "ignored", "config", "pathless">>

=============================================================================
