----------------------------- MODULE MCLLMClient -----------------------------
(***************************************************************************)
(* The settings of email_assistant/settings/base.py, and the SDK's default *)
(* number of repeats: both are small enough to be checked as they are.     *)
(***************************************************************************)
EXTENDS LLMClient
==============================================================================
