----------------------------- MODULE MCAuthClient -----------------------------
(***************************************************************************)
(* AuthClient for TLC: two callers that are interchangeable, and providers *)
(* chosen per run from one that signs in through the browser, one that     *)
(* only knows the device flow (as github-copilot does), one that takes API *)
(* keys as well, and one nobody registered.                                *)
(***************************************************************************)
EXTENDS AuthClient, TLC

CONSTANTS browser, device, keyed, unknown

DeclaredMethods ==
  [p \in Providers |->
     CASE p = browser -> {"oauth"}
       [] p = device  -> {"device"}
       [] p = keyed   -> {"oauth", "api_key"}
       [] OTHER       -> {}]

Interchangeable == Permutations(Callers) \cup Permutations(Exchanges)
=============================================================================
