---------------------------- MODULE MCOneShotRuns ----------------------------
(* A chain with two models of one service around another service. *)
EXTENDS OneShotRuns
CONSTANTS claude, codex
MCServices == {claude, codex}
MCChain == <<claude, codex, claude>>
=============================================================================
