---------------------------- MODULE MCCoordinator ----------------------------
(***************************************************************************)
(* A small instance of Coordinator: every run may end well, and each in a  *)
(* way of failing of its own.                                              *)
(***************************************************************************)
EXTENDS Coordinator

EachItsOwn == <<{"ok", "code"}, {"ok", "signal"}, {"ok", "garbled"}>>
=============================================================================
