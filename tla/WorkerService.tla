---------------------------- MODULE WorkerService ----------------------------
(***************************************************************************)
(* What ModbusWorker promises the GUI thread: the requests it takes are    *)
(* served one at a time in the order of submission, each is answered at    *)
(* most once, and whatever is refused is refused with an answer, until the *)
(* worker is given up together with its thread.                            *)
(***************************************************************************)
EXTENDS Integers

CONSTANT MaxRequests    \* bound: requests submitted

Requests == 1 .. MaxRequests
Nobody   == 0

VARIABLES
  submitted,  \* requests submitted so far; a request is known by its number
  waiting,    \* those not yet served; the numbers say who came first
  serving,    \* the one being served, or Nobody
  answers     \* how often each was answered

vars == <<submitted, waiting, serving, answers>>

Init ==
  /\ submitted = 0
  /\ waiting = {}
  /\ serving = Nobody
  /\ answers = [r \in Requests |-> 0]

AnswerAll(S) == answers' = [r \in Requests |-> answers[r] + (IF r \in S THEN 1 ELSE 0)]

Submit ==
  /\ submitted < MaxRequests
  /\ submitted' = submitted + 1
  /\ waiting' = waiting \cup {submitted + 1}
  /\ UNCHANGED <<serving, answers>>

TurnAway ==
  /\ submitted < MaxRequests
  /\ submitted' = submitted + 1
  /\ AnswerAll({submitted + 1})
  /\ UNCHANGED <<waiting, serving>>

Serve ==
  /\ serving = Nobody
  /\ \E r \in waiting : /\ \A other \in waiting : r <= other
                        /\ serving' = r
                        /\ waiting' = waiting \ {r}
  /\ UNCHANGED <<submitted, answers>>

\* An answer to the request being served, or the refusal of any others.
AnswerSome ==
  \E S \in SUBSET ((waiting \cup {serving}) \ {Nobody}) :
    /\ S # {}
    /\ AnswerAll(S)
    /\ waiting' = waiting \ S
    /\ serving' = IF serving \in S THEN Nobody ELSE serving
    /\ UNCHANGED submitted

GiveUp ==
  /\ waiting' = {} /\ serving' = Nobody
  /\ UNCHANGED <<submitted, answers>>

Next == Submit \/ TurnAway \/ Serve \/ AnswerSome \/ GiveUp

Spec == Init /\ [][Next]_vars
=============================================================================
