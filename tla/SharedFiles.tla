----------------------------- MODULE SharedFiles -----------------------------
(***************************************************************************)
(* The processes of a machine, running workbenches and commands, that      *)
(* rewrite files of the cache directory in place with write_text, which    *)
(* opens a file, and so empties it, before it writes.                      *)
(***************************************************************************)
EXTENDS Naturals, FiniteSets

CONSTANTS Process, Build,
          Empty,     \* a file just opened for writing, nothing in it
          Garbage    \* the ends of two writes, not JSON
=============================================================================
