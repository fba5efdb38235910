---------------------------- MODULE HandoffChain ----------------------------
(***************************************************************************)
(* The hand-off chain of the loader (papp_handoff.h, class Chain): at most *)
(* one app waiting to be started once the running app has quit, and the    *)
(* apps to go back to afterwards, the newest last.  A frame is one launch: *)
(* the app's .papp and the argument it gets.                               *)
(***************************************************************************)
EXTENDS Integers, Sequences

CONSTANTS
  Apps,       \* the .papp paths and URLs that can be launched
  Args,       \* the arguments an app can be given
  NoArg,      \* the empty argument
  MaxDepth    \* MAX_DEPTH: how many apps may wait to be returned to

ASSUME ChainAssumption ==
  /\ NoArg \in Args
  /\ MaxDepth \in Nat

Frame == [app : Apps, arg : Args]

\* A hand-off request: the app that asked (its path and resume argument), what
\* it opens, and whether it comes back afterwards.
Request == [caller : Frame, target : Frame, back : BOOLEAN]

\* has_pending_ with the pending_ fields is the sequence of waiting requests,
\* which never holds more than one.
Chain == [pending : {<<>>} \cup {<<r>> : r \in Request}, stack : Seq(Frame)]

EmptyChain == [pending |-> <<>>, stack |-> <<>>]

\* Chain::request: refused when a request already waits, or when coming back
\* would make more than MaxDepth apps wait.
Accepts(c, r) ==
  /\ c.pending = <<>>
  /\ r.back => Len(c.stack) < MaxDepth

AfterRequest(c, r) == [c EXCEPT !.pending = <<r>>]

\* Chain::next: is there something to start, what, and what is left then.
HasNext(c) == c.pending # <<>> \/ c.stack # <<>>

\* Faulty variant: the oldest waiting app comes back first.
NextFrameOldest(c) ==
  IF c.pending # <<>> THEN c.pending[1].target ELSE c.stack[1]

NextFrame(c) ==
  IF c.pending # <<>> THEN c.pending[1].target ELSE c.stack[Len(c.stack)]

AfterNext(c) ==
  IF c.pending # <<>>
  THEN [pending |-> <<>>,
        stack   |-> IF c.pending[1].back THEN Append(c.stack, c.pending[1].caller)
                                         ELSE c.stack]
  ELSE [c EXCEPT !.stack = SubSeq(@, 1, Len(@) - 1)]

(***************************************************************************)
(* What a chain must keep: no more than MaxDepth apps wait, and there is   *)
(* room for the caller of a waiting request that wants to come back.       *)
(***************************************************************************)
DepthOK(c) ==
  /\ Len(c.stack) <= MaxDepth
  /\ \A i \in DOMAIN c.pending : c.pending[i].back => Len(c.stack) < MaxDepth
=============================================================================
