-------------------------------- MODULE ApiKey --------------------------------
(***************************************************************************)
(* API keys (flow/api_key.rs), pasted or picked up from the environment.   *)
(* A text is its core and whether there is white space around it; of the   *)
(* core only which of the prefixes it starts with matters.                 *)
(***************************************************************************)
EXTENDS Endpoints

Core(starts, rest) == [starts |-> starts, rest |-> rest]
BlankCore == Core({}, "")
KeyTexts == [core : [starts : SUBSET STRING, rest : STRING], padded : BOOLEAN]

Trim(text) == [text EXCEPT !.padded = FALSE]

\* Mutant: the value as the environment has it.
FromEnvVerbatim(config, value) ==
  {text \in value : config.env_var /\ text.core # BlankCore}

\* The value of the declared variable, if one is declared and set.  The prefix is
\* not looked at.
FromEnv(config, value) ==
  {Trim(text) : text \in {text \in value : config.env_var /\ text.core # BlankCore}}

\* The error, or "none" and the key of the credential.
AcceptKey(config, text) ==
  LET error == IF text.core = BlankCore THEN "empty"
               ELSE IF config.key_prefix \subseteq text.core.starts THEN "none"
               ELSE "prefix"
  IN [error |-> error, key |-> IF error = "none" THEN {Trim(text)} ELSE {}]
=============================================================================
