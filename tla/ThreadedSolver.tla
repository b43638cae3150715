--------------------------- MODULE ThreadedSolver ---------------------------
(***************************************************************************)
(* The hard deadline around an MBA solver (mba/threaded.rs).  A caller     *)
(* hands its question to a worker thread of its own and waits for the      *)
(* answer at most the timeout.  Caller and worker share a channel, one     *)
(* atomic `state' per question that whoever moves it out of RUNNING first  *)
(* decides, and the instance's counter `abandoned' of the questions given  *)
(* up on and still running, which caps the threads left behind.            *)
(*                                                                         *)
(* A question is one call of solve_counted: it is asked at most once, by   *)
(* one caller.  Every access to an atomic or to the channel is a step of   *)
(* its own.                                                                *)
(***************************************************************************)
EXTENDS Integers, FiniteSets

CONSTANTS
  Callers,        \* threads that call solve_counted on one instance
  Questions,      \* the calls they make
  MaxAbandoned,   \* max_abandoned
  UsizeMod,       \* usize arithmetic wraps modulo this
  None            \* no question

ASSUME CallersAssumption   == IsFiniteSet(Callers) /\ Callers # {}
ASSUME QuestionsAssumption == IsFiniteSet(Questions) /\ None \notin Questions
ASSUME CapAssumption       == MaxAbandoned \in Nat
ASSUME UsizeAssumption     == UsizeMod \in Nat /\ UsizeMod > Cardinality(Questions)

VARIABLES
  asking,      \* the question each caller is in the middle of, or None
  callStep,    \* how far the call on a question is
  workStep,    \* how far the worker of a question is
  state,       \* the question's atomic state
  channel,     \* what the worker sent and the caller did not receive
  verdict,     \* what the solver made of the question
  abandoned,   \* the instance's counter
  outcome      \* what solve_counted returned, or "none"

vars == <<asking, callStep, workStep, state, channel, verdict, abandoned, outcome>>

\* What the wrapped solver can do with a question: answer, or panic (which the
\* worker turns into an Unsupported answer).
Verdicts == {"answered", "panicked"}

\* What solve_counted can return: the worker's answer, Exhausted charged the
\* whole budget (given up at the deadline), or Exhausted charged nothing.
Outcomes == Verdicts \cup {"exhausted", "refused"}

CallSteps == {"unasked", "admitted", "waiting", "counted", "overtaken", "draining", "returned"}
WorkSteps == {"none", "solving", "sending", "deciding", "uncounting", "exited"}

Init ==
  /\ asking    = [c \in Callers |-> None]
  /\ callStep  = [q \in Questions |-> "unasked"]
  /\ workStep  = [q \in Questions |-> "none"]
  /\ state     = [q \in Questions |-> "RUNNING"]
  /\ channel   = [q \in Questions |-> "empty"]
  /\ verdict   = [q \in Questions |-> "none"]
  /\ abandoned = 0
  /\ outcome   = [q \in Questions |-> "none"]

Increment == abandoned' = (abandoned + 1) % UsizeMod
Decrement == abandoned' = (abandoned - 1) % UsizeMod

\* Caller c returns o from its call on q.
Return(c, q, o) ==
  /\ callStep' = [callStep EXCEPT ![q] = "returned"]
  /\ outcome'  = [outcome EXCEPT ![q] = o]
  /\ asking'   = [asking EXCEPT ![c] = None]

-----------------------------------------------------------------------------
(* The caller's steps. *)

\* An error: one more than the cap may be left behind.
AskPastCap(c, q) ==
  /\ asking[c] = None
  /\ callStep[q] = "unasked"
  /\ abandoned <= MaxAbandoned
  /\ asking'   = [asking EXCEPT ![c] = q]
  /\ callStep' = [callStep EXCEPT ![q] = "admitted"]
  /\ UNCHANGED <<workStep, state, channel, verdict, abandoned, outcome>>

\* The cap, read once: at or above it the question is refused unasked.
Ask(c, q) ==
  /\ asking[c] = None
  /\ callStep[q] = "unasked"
  /\ \/ /\ abandoned >= MaxAbandoned
        /\ Return(c, q, "refused")
     \/ /\ abandoned < MaxAbandoned
        /\ asking'   = [asking EXCEPT ![c] = q]
        /\ callStep' = [callStep EXCEPT ![q] = "admitted"]
        /\ UNCHANGED outcome
  /\ UNCHANGED <<workStep, state, channel, verdict, abandoned>>

Spawn(c, q) ==
  /\ asking[c] = q
  /\ callStep[q] = "admitted"
  /\ callStep' = [callStep EXCEPT ![q] = "waiting"]
  /\ workStep' = [workStep EXCEPT ![q] = "solving"]
  /\ UNCHANGED <<asking, state, channel, verdict, abandoned, outcome>>

\* The system has no thread to give.
SpawnFails(c, q) ==
  /\ asking[c] = q
  /\ callStep[q] = "admitted"
  /\ Return(c, q, "refused")
  /\ UNCHANGED <<workStep, state, channel, verdict, abandoned>>

\* recv_timeout returns the answer.
Receive(c, q) ==
  /\ asking[c] = q
  /\ callStep[q] = "waiting"
  /\ channel[q] # "empty"
  /\ Return(c, q, channel[q])
  /\ channel' = [channel EXCEPT ![q] = "empty"]
  /\ UNCHANGED <<workStep, state, verdict, abandoned>>

\* An error: the caller waits as long as the solver takes.
WaitForAnswer(c, q) == Receive(c, q)

\* recv_timeout gives up (an answer may arrive right after), and the caller
\* counts the question before it tries to abandon it.
Expire(c, q) ==
  /\ asking[c] = q
  /\ callStep[q] = "waiting"
  /\ callStep' = [callStep EXCEPT ![q] = "counted"]
  /\ Increment
  /\ UNCHANGED <<asking, workStep, state, channel, verdict, outcome>>

\* The caller's compare_exchange(RUNNING, ABANDONED).
Abandon(c, q) ==
  /\ asking[c] = q
  /\ callStep[q] = "counted"
  /\ \/ /\ state[q] = "RUNNING"
        /\ state' = [state EXCEPT ![q] = "ABANDONED"]
        /\ Return(c, q, "exhausted")
     \/ /\ state[q] # "RUNNING"
        /\ callStep' = [callStep EXCEPT ![q] = "overtaken"]
        /\ UNCHANGED <<asking, state, outcome>>
  /\ UNCHANGED <<workStep, channel, verdict, abandoned>>

\* An error: the count of a question that was answered after all is kept.
TakeNothingBack(c, q) ==
  /\ asking[c] = q
  /\ callStep[q] = "overtaken"
  /\ callStep' = [callStep EXCEPT ![q] = "draining"]
  /\ UNCHANGED <<asking, workStep, state, channel, verdict, abandoned, outcome>>

\* The worker decided first: the caller takes its count back ...
TakeBack(c, q) ==
  /\ asking[c] = q
  /\ callStep[q] = "overtaken"
  /\ callStep' = [callStep EXCEPT ![q] = "draining"]
  /\ Decrement
  /\ UNCHANGED <<asking, workStep, state, channel, verdict, outcome>>

\* An error: a question answered at the last moment is reported as given up.
DrainExhausted(c, q) ==
  /\ asking[c] = q
  /\ callStep[q] = "draining"
  /\ Return(c, q, "exhausted")
  /\ UNCHANGED <<workStep, state, channel, verdict, abandoned>>

\* ... and blocks for the answer.
Drain(c, q) ==
  /\ asking[c] = q
  /\ callStep[q] = "draining"
  /\ channel[q] # "empty"
  /\ Return(c, q, channel[q])
  /\ channel' = [channel EXCEPT ![q] = "empty"]
  /\ UNCHANGED <<workStep, state, verdict, abandoned>>

-----------------------------------------------------------------------------
(* The worker's steps. *)

Solve(q) ==
  /\ workStep[q] = "solving"
  /\ \E v \in Verdicts : verdict' = [verdict EXCEPT ![q] = v]
  /\ workStep' = [workStep EXCEPT ![q] = "sending"]
  /\ UNCHANGED <<asking, callStep, state, channel, abandoned, outcome>>

\* An error: an answer that comes after the timeout is not sent.
SendInTime(q) ==
  /\ workStep[q] = "sending"
  /\ channel'  = [channel EXCEPT ![q] = IF callStep[q] = "waiting" THEN verdict[q] ELSE @]
  /\ workStep' = [workStep EXCEPT ![q] = "deciding"]
  /\ UNCHANGED <<asking, callStep, state, verdict, abandoned, outcome>>

\* Sending to a receiver the caller has dropped is ignored.
Send(q) ==
  /\ workStep[q] = "sending"
  /\ channel'  = [channel EXCEPT ![q] = IF callStep[q] = "returned" THEN @ ELSE verdict[q]]
  /\ workStep' = [workStep EXCEPT ![q] = "deciding"]
  /\ UNCHANGED <<asking, callStep, state, verdict, abandoned, outcome>>

\* The worker's compare_exchange(RUNNING, DONE).
Decide(q) ==
  /\ workStep[q] = "deciding"
  /\ \/ /\ state[q] = "RUNNING"
        /\ state'    = [state EXCEPT ![q] = "DONE"]
        /\ workStep' = [workStep EXCEPT ![q] = "exited"]
     \/ /\ state[q] # "RUNNING"
        /\ workStep' = [workStep EXCEPT ![q] = "uncounting"]
        /\ UNCHANGED state
  /\ UNCHANGED <<asking, callStep, channel, verdict, abandoned, outcome>>

Uncount(q) ==
  /\ workStep[q] = "uncounting"
  /\ workStep' = [workStep EXCEPT ![q] = "exited"]
  /\ Decrement
  /\ UNCHANGED <<asking, callStep, state, channel, verdict, outcome>>

-----------------------------------------------------------------------------
CallerStep(c, q) ==
  \/ Spawn(c, q)
  \/ SpawnFails(c, q)
  \/ Receive(c, q)
  \/ Expire(c, q)
  \/ Abandon(c, q)
  \/ TakeBack(c, q)
  \/ Drain(c, q)

WorkerStep(q) ==
  \/ Solve(q)
  \/ Send(q)
  \/ Decide(q)
  \/ Uncount(q)

Next ==
  \/ \E c \in Callers, q \in Questions : Ask(c, q) \/ CallerStep(c, q)
  \/ \E q \in Questions : WorkerStep(q)

Spec == Init /\ [][Next]_vars

\* A call in progress keeps running, and so does a worker once the solver has
\* returned; the solver itself may run for ever.
FairSpec ==
  /\ Spec
  /\ \A c \in Callers, q \in Questions : WF_vars(CallerStep(c, q))
  /\ \A q \in Questions : WF_vars(Send(q) \/ Decide(q) \/ Uncount(q))

-----------------------------------------------------------------------------
(* Properties. *)

TypeOK ==
  /\ asking    \in [Callers -> Questions \cup {None}]
  /\ callStep  \in [Questions -> CallSteps]
  /\ workStep  \in [Questions -> WorkSteps]
  /\ state     \in [Questions -> {"RUNNING", "DONE", "ABANDONED"}]
  /\ channel   \in [Questions -> Verdicts \cup {"empty"}]
  /\ verdict   \in [Questions -> Verdicts \cup {"none"}]
  /\ abandoned \in 0 .. UsizeMod - 1
  /\ outcome   \in [Questions -> Outcomes \cup {"none"}]

\* The questions given up on whose worker has not finished with them.
LeftBehind == {q \in Questions : state[q] = "ABANDONED" /\ workStep[q] # "exited"}

\* The questions some caller is in the middle of.
InFlight == {q \in Questions : \E c \in Callers : asking[c] = q}

\* The questions a caller has counted and not taken back, without being done.
Counting == {q \in Questions : callStep[q] \in {"counted", "overtaken"}}

\* `abandoned' counts exactly the questions left behind and those whose caller
\* is between counting and settling: it never wraps below zero, is never lost,
\* and is back to zero once every worker has finished.
CountIsExact == abandoned = Cardinality(LeftBehind \cup Counting)

\* max_abandoned bounds the threads left behind up to the number of concurrent
\* callers ("concurrent callers may briefly exceed it by their number").
ThreadsBounded ==
  Cardinality(LeftBehind) <= MaxAbandoned + Cardinality(Callers) - 1

\* Caller and worker agree on who won: Exhausted at full charge is returned
\* exactly for the questions marked ABANDONED, any other answer is the
\* worker's own verdict, and a refused question never had a worker.
OutcomesAgree ==
  \A q \in Questions :
    /\ outcome[q] = "exhausted" <=> state[q] = "ABANDONED"
    /\ outcome[q] \in Verdicts => outcome[q] = verdict[q]
    /\ outcome[q] = "refused" => workStep[q] = "none"

\* A caller overtaken by its worker finds the answer in the channel: the last
\* recv, which has no timeout, never blocks on a solver.
DrainNeverBlocks ==
  \A q \in Questions : callStep[q] \in {"overtaken", "draining"} => channel[q] # "empty"

\* Every call returns, whether or not the solver ever does.
EveryCallReturns ==
  \A q \in Questions : callStep[q] = "admitted" ~> callStep[q] = "returned"
=============================================================================
