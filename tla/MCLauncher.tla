----------------------------- MODULE MCLauncher -----------------------------
(***************************************************************************)
(* Small instances of Launcher for TLC.                                    *)
(***************************************************************************)
EXTENDS Launcher, TLC

CONSTANTS a, b, none, x, main, helper

OneApp  == {a}
TwoApps == {a, b}
OnlyB   == {b}
ArgSet  == {none, x}
NoTask  == {}
OneTask == {helper}
=============================================================================
