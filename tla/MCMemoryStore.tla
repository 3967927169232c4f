----------------------------- MODULE MCMemoryStore -----------------------------
(***************************************************************************)
(* MemoryStore for TLC: three threads, so that two readers overlap while a *)
(* writer waits, on two providers, each with one of two secrets.           *)
(***************************************************************************)
EXTENDS MemoryStore, TLC

Interchangeable ==
  Permutations(Threads) \cup Permutations(Providers) \cup Permutations(Secrets)
=============================================================================
