---------------------------- MODULE RequestService ----------------------------
(***************************************************************************)
(* What RequestExecutor::executeAsync() promises its caller: a call is     *)
(* either turned away at once or taken; at most one taken call is open at  *)
(* a time; and the callback of every call runs exactly once.               *)
(***************************************************************************)
EXTENDS Integers

CONSTANT MaxCalls       \* bound: calls made

NoCall == 0

VARIABLES
  calls,    \* calls made so far; a call is known by its number
  current,  \* the taken call that has not been answered, or NoCall
  answers   \* how often each call was answered

vars == <<calls, current, answers>>

Init ==
  /\ calls = 0
  /\ current = NoCall
  /\ answers = [i \in 1 .. MaxCalls |-> 0]

Take ==
  /\ calls < MaxCalls /\ current = NoCall
  /\ calls' = calls + 1
  /\ current' = calls + 1
  /\ UNCHANGED answers

TurnAway ==
  /\ calls < MaxCalls
  /\ calls' = calls + 1
  /\ answers' = [answers EXCEPT ![calls + 1] = @ + 1]
  /\ UNCHANGED current

AnswerCurrent ==
  /\ current # NoCall
  /\ answers' = [answers EXCEPT ![current] = @ + 1]
  /\ current' = NoCall
  /\ UNCHANGED calls

Next == Take \/ TurnAway \/ AnswerCurrent

Spec == Init /\ [][Next]_vars

FairSpec == Spec /\ WF_vars(AnswerCurrent)
=============================================================================
