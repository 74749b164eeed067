------------------------------ MODULE MCStream ------------------------------
(* Small instance of the stream hook: a hydrated chat of one turn, or a    *)
(* fresh one.                                                              *)
EXTENDS StreamHook

MCInitial == <<>>
MCInitialConv == <<"none", 0>>
=============================================================================
