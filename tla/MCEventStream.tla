---------------------------- MODULE MCEventStream ---------------------------
(* An instance of EventStream for TLC.                                     *)
EXTENDS EventStream

(* A type that starts a run and one about a task.                          *)
SomeAppended == {<<"dispatch", "started">>, <<"task", "completed">>}
SomeTypes == SomeAppended \cup {<<"dispatch", "interrupted">>}
=============================================================================
