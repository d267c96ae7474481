----------------------------- MODULE MCRequest -----------------------------
(***************************************************************************)
(* Instances of MoltenRequest for TLC.  The extension is built with        *)
(* --enable-level-id or without; TracedProcess is a process of either      *)
(* build, so one run checks both.                                          *)
(***************************************************************************)
EXTENDS MoltenRequest

VARIABLE level_build   \* this process runs the --enable-level-id build

(* A CLI process, or a request without trace headers. *)
NoHeaders == {[span |-> NoId, parent |-> NoId]}

(* What a caller sends: both ids, either one, or none. *)
LevelHeaders == [span : {NoId, <<1, 1>>}, parent : {NoId, <<1>>}]

(* The build that numbers its spans, called by a process that has drawn *)
(* other numbers, or by nobody that traces.                             *)
RandomHeaders == NoHeaders \cup {[span |-> <<99>>, parent |-> <<98>>]}
Random == INSTANCE MoltenRequest WITH LevelId <- FALSE, Upstream <- RandomHeaders

LevelStep == level_build /\ Next /\ UNCHANGED level_build
RandomStep == ~level_build /\ Random!Next /\ UNCHANGED level_build

EitherBuild == Init /\ level_build \in BOOLEAN

TracedProcess ==
  /\ EitherBuild
  /\ [][LevelStep \/ RandomStep]_<<vars, level_build>>

(* The level build alone. *)
LevelProcess ==
  /\ Init /\ level_build = TRUE
  /\ [][LevelStep]_<<vars, level_build>>
=============================================================================
