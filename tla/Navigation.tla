----------------------------- MODULE Navigation -----------------------------
(***************************************************************************)
(* What an app author and a user can rely on about which app is there      *)
(* (psram_app.h and building.md, "App hand-off"): an app can be opened     *)
(* from the menu, can hand over to another app, and gets the device back   *)
(* when that app ends or cannot start.  In one point this is less than is  *)
(* promised there: an app comes back with the resume argument it had when  *)
(* it asked for the hand-over, as the code has it, not with the last one   *)
(* it passed to app_set_resume_arg before it quit (building.md:160).       *)
(***************************************************************************)
EXTENDS HandoffChain

VARIABLES
  phase,     \* "menu", "starting" or "running"
  current,   \* the app there is, with its argument
  resume,    \* the argument it would come back with
  asked,     \* the hand-off it asked for, if any
  waiting    \* the apps to come back to, the newest last

nav == <<phase, current, resume, asked, waiting>>

Init ==
  /\ phase = "menu"
  /\ current \in [app : Apps, arg : {NoArg}]
  /\ resume = NoArg
  /\ asked = <<>>
  /\ waiting = <<>>

\* A launch from the menu has no argument, and nothing waits.
OpenFromMenu(a) ==
  /\ phase = "menu"
  /\ phase' = "starting"
  /\ current' = [app |-> a, arg |-> NoArg]
  /\ resume' = NoArg
  /\ asked' = <<>> /\ waiting' = <<>>

Started ==
  /\ phase = "starting"
  /\ phase' = "running"
  /\ UNCHANGED <<current, resume, asked, waiting>>

SetResume(a) ==
  /\ phase = "running"
  /\ resume' = a
  /\ UNCHANGED <<phase, current, asked, waiting>>

\* The running app asks for another one; it goes on until it quits.  What it makes
\* its resume argument after this does not reach the one it comes back with.
HandOver(f, back) ==
  /\ phase = "running" /\ asked = <<>>
  /\ back => Len(waiting) < MaxDepth
  /\ asked' = <<[caller |-> [app |-> current.app, arg |-> resume],
                 target |-> f, back |-> back]>>
  /\ UNCHANGED <<phase, current, resume, waiting>>

\* Start f, whose resume argument is at first its own.
Goes(f) ==
  /\ phase' = "starting"
  /\ current' = f
  /\ resume' = f.arg

\* The app has ended, or could not start: the app it asked for comes next, else
\* the newest waiting one, else the menu.
Ends ==
  /\ phase # "menu"
  /\ IF asked # <<>>
     THEN /\ Goes(asked[1].target)
          /\ asked' = <<>>
          /\ waiting' = IF asked[1].back THEN Append(waiting, asked[1].caller)
                                         ELSE waiting
     ELSE IF waiting # <<>>
     THEN /\ Goes(waiting[Len(waiting)])
          /\ waiting' = SubSeq(waiting, 1, Len(waiting) - 1)
          /\ UNCHANGED asked
     ELSE /\ phase' = "menu"
          /\ UNCHANGED <<current, resume, asked, waiting>>

Next ==
  \/ \E a \in Apps : OpenFromMenu(a)
  \/ Started
  \/ \E a \in Args : SetResume(a)
  \/ \E f \in Frame, b \in BOOLEAN : HandOver(f, b)
  \/ Ends

Spec == Init /\ [][Next]_nav
=============================================================================
