------------------------------ MODULE MCTerminal ------------------------------
(* The terminal with small bounds: three prompts, so that one runs, one follows and
   one is refused or discarded; two interrupts, so that a resumed run may ask
   again; two answers and one command or take-back.                             *)
EXTENDS Terminal
================================================================================
