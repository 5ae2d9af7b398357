----------------------------- MODULE MCBankVoices -----------------------------
(***************************************************************************)
(* A small pool, one high-level voice and two synthesizer voices, one of   *)
(* which is not a source of the auxiliary bus.                             *)
(***************************************************************************)
EXTENDS BankVoices
=============================================================================
