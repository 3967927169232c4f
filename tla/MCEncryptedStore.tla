--------------------------- MODULE MCEncryptedStore ---------------------------
(***************************************************************************)
(* EncryptedStore for TLC: two threads race on two providers, each of      *)
(* which may hold one of two secrets, under either of two keys.            *)
(***************************************************************************)
EXTENDS EncryptedStore, TLC

Interchangeable ==
  Permutations(Threads) \cup Permutations(Providers)
    \cup Permutations(Secrets) \cup Permutations(Keys)
=============================================================================
