------------------------ MODULE ThreadedSolverProofs ------------------------
(***************************************************************************)
(* Proofs about ThreadedSolver, for any number of callers and questions.   *)
(* The argument: what a question's atomic state, its channel and its two   *)
(* threads can be together (Protocol), that a question in progress belongs *)
(* to exactly one caller (Ownership), and that every step adds to the set  *)
(* of counted questions, or removes from it, exactly when it moves the     *)
(* counter.                                                                *)
(***************************************************************************)
EXTENDS ThreadedSolver, TLAPS, FiniteSetTheorems

\* The types, but for what a worker's step needs to know (Protocol).
Types ==
  /\ asking    \in [Callers -> Questions \cup {None}]
  /\ callStep  \in [Questions -> CallSteps]
  /\ workStep  \in [Questions -> WorkSteps]
  /\ state     \in [Questions -> {"RUNNING", "DONE", "ABANDONED"}]
  /\ channel   \in [Questions -> Verdicts \cup {"empty"}]
  /\ verdict   \in [Questions -> Verdicts \cup {"none"}]
  /\ abandoned \in 0 .. UsizeMod - 1
  /\ outcome   \in [Questions -> Outcomes \cup {"none"}]

\* The states a question's caller and worker can be in together.
ProtocolOf(q) ==
  /\ workStep[q] = "none" <=> callStep[q] \in {"unasked", "admitted"} \/ outcome[q] = "refused"
  /\ verdict[q] \in Verdicts <=> workStep[q] \notin {"none", "solving"}
  /\ channel[q] # "empty" => channel[q] = verdict[q]
  /\ workStep[q] \in {"none", "solving", "sending"} => channel[q] = "empty"
  /\ state[q] = "DONE" => workStep[q] = "exited"
  /\ workStep[q] = "uncounting" => state[q] = "ABANDONED"
  /\ workStep[q] = "exited" => state[q] # "RUNNING"
  /\ state[q] = "ABANDONED" <=> outcome[q] = "exhausted"
  /\ callStep[q] \in {"overtaken", "draining"} => state[q] = "DONE" /\ channel[q] # "empty"
  /\ callStep[q] \in {"waiting", "counted"} /\ workStep[q] \in {"deciding", "uncounting", "exited"}
       => channel[q] # "empty"
  /\ callStep[q] = "returned" <=> outcome[q] # "none"
  /\ outcome[q] \in Verdicts => outcome[q] = verdict[q]

Protocol == \A q \in Questions : ProtocolOf(q)

InProgress == {"admitted", "waiting", "counted", "overtaken", "draining"}

\* A question in progress is asked by exactly one caller.
Ownership ==
  /\ \A c \in Callers : asking[c] # None => callStep[asking[c]] \in InProgress
  /\ \A c, d \in Callers : asking[c] = asking[d] /\ asking[c] # None => c = d

Counted == LeftBehind \cup Counting

\* What ThreadsBounded rests on: the cap is read against a count that includes
\* every thread left behind, and from then on a question only moves from in
\* flight to left behind.
LoadBounded == Cardinality(LeftBehind \cup InFlight) <= MaxAbandoned + Cardinality(Callers) - 1

Inv == Types /\ Protocol /\ Ownership

-----------------------------------------------------------------------------

\* Before any question is asked nothing is in progress.
LEMMA InvInit == Init => Inv
  BY UsizeAssumption, QuestionsAssumption, FS_CardinalityType
     DEF Init, Inv, Types, Protocol, ProtocolOf, Ownership, InProgress, CallSteps, WorkSteps,
         Verdicts, Outcomes

\* Every step of a caller or a worker keeps the protocol between them.
LEMMA InvNext == Inv /\ [Next]_vars => Inv'
<1> SUFFICES ASSUME Inv, [Next]_vars PROVE Inv'
  OBVIOUS
<1> USE UsizeAssumption, QuestionsAssumption
    DEF Inv, Types, Protocol, ProtocolOf, Ownership, InProgress, CallSteps, WorkSteps,
        Verdicts, Outcomes
<1>1. ASSUME NEW c \in Callers, NEW q \in Questions, Ask(c, q) PROVE Inv'
  BY <1>1 DEF Ask, Return
<1>2. ASSUME NEW c \in Callers, NEW q \in Questions, CallerStep(c, q) PROVE Inv'
  <2>1. CASE Spawn(c, q)      BY <2>1 DEF Spawn
  <2>2. CASE SpawnFails(c, q) BY <2>2 DEF SpawnFails, Return
  <2>3. CASE Receive(c, q)    BY <2>3 DEF Receive, Return
  <2>4. CASE Expire(c, q)     BY <2>4 DEF Expire, Increment
  <2>5. CASE Abandon(c, q)    BY <2>5 DEF Abandon, Return
  <2>6. CASE TakeBack(c, q)   BY <2>6 DEF TakeBack, Decrement
  <2>7. CASE Drain(c, q)      BY <2>7 DEF Drain, Return
  <2> QED BY <1>2, <2>1, <2>2, <2>3, <2>4, <2>5, <2>6, <2>7 DEF CallerStep
<1>3. ASSUME NEW q \in Questions, WorkerStep(q) PROVE Inv'
  <2>1. CASE Solve(q)   BY <2>1 DEF Solve
  <2>2. CASE Send(q)    BY <2>2 DEF Send
  <2>3. CASE Decide(q)  BY <2>3 DEF Decide
  <2>4. CASE Uncount(q) BY <2>4 DEF Uncount, Decrement
  <2> QED BY <1>3, <2>1, <2>2, <2>3, <2>4 DEF WorkerStep
<1>4. CASE UNCHANGED vars BY <1>4 DEF vars
<1> QED BY <1>1, <1>2, <1>3, <1>4 DEF Next

-----------------------------------------------------------------------------
(* The counter. *)

\* A step that moves the counter moves the set it counts, by the same question.
LEMMA Recount ==
  ASSUME Inv, Inv', CountIsExact, NEW q \in Questions,
         \/ Counted' = Counted /\ abandoned' = abandoned
         \/ q \notin Counted /\ Counted' = Counted \cup {q} /\ Increment
         \/ q \in Counted /\ Counted' = Counted \ {q} /\ Decrement
  PROVE  CountIsExact'
<1> DEFINE Count == Cardinality(Counted)
<1>1. IsFiniteSet(Counted) /\ Counted \subseteq Questions /\ Counted' \subseteq Questions
  BY FS_Subset, QuestionsAssumption DEF Counted, LeftBehind, Counting
<1>2. Count \in Nat /\ Cardinality(Counted') \in Nat
  BY <1>1, FS_Subset, FS_CardinalityType, QuestionsAssumption
<1>3. Cardinality(Counted') < UsizeMod /\ UsizeMod \in Nat
  BY <1>1, <1>2, FS_Subset, FS_CardinalityType, QuestionsAssumption, UsizeAssumption
<1>4. abandoned = Count
  BY DEF CountIsExact, Counted
<1>5. CASE Counted' = Counted /\ abandoned' = abandoned
  BY <1>5 DEF CountIsExact, Counted
<1>6. CASE q \notin Counted /\ Counted' = Counted \cup {q} /\ Increment
  <2>1. Cardinality(Counted') = Count + 1
    BY <1>6, <1>1, FS_AddElement
  <2>2. abandoned' = (Count + 1) % UsizeMod
    BY <1>4, <1>6 DEF Increment
  <2>3. (Count + 1) % UsizeMod = Count + 1
    BY <1>2, <1>3, <2>1
  <2> QED BY <2>1, <2>2, <2>3 DEF CountIsExact, Counted
<1>7. CASE q \in Counted /\ Counted' = Counted \ {q} /\ Decrement
  <2>1. Cardinality(Counted') = Count - 1
    BY <1>7, <1>1, FS_RemoveElement
  <2>2. abandoned' = (Count - 1) % UsizeMod
    BY <1>4, <1>7 DEF Decrement
  <2>3. (Count - 1) % UsizeMod = Count - 1
    BY <1>2, <1>3, <2>1
  <2> QED BY <2>1, <2>2, <2>3 DEF CountIsExact, Counted
<1> QED BY <1>5, <1>6, <1>7

\* Every step moves the counter with the set it counts.
LEMMA CountNext == Inv /\ Inv' /\ CountIsExact /\ [Next]_vars => CountIsExact'
<1> SUFFICES ASSUME Inv, Inv', CountIsExact, [Next]_vars PROVE CountIsExact'
  OBVIOUS
<1> USE DEF Inv, Types, Protocol, ProtocolOf, Counted, LeftBehind, Counting
<1>1. ASSUME NEW c \in Callers, NEW q \in Questions, Ask(c, q) PROVE CountIsExact'
  <2>1. Counted' = Counted /\ abandoned' = abandoned
    BY <1>1 DEF Ask, Return
  <2> QED BY <2>1, Recount
<1>2. ASSUME NEW c \in Callers, NEW q \in Questions, CallerStep(c, q) PROVE CountIsExact'
  <2>1. CASE Spawn(c, q) \/ SpawnFails(c, q) \/ Receive(c, q) \/ Abandon(c, q) \/ Drain(c, q)
    <3>1. Counted' = Counted /\ abandoned' = abandoned
      BY <2>1 DEF Spawn, SpawnFails, Receive, Abandon, Drain, Return
    <3> QED BY <3>1, Recount
  <2>2. CASE Expire(c, q)
    <3>1. q \notin Counted /\ Counted' = Counted \cup {q} /\ Increment
      BY <2>2 DEF Expire
    <3> QED BY <3>1, Recount
  <2>3. CASE TakeBack(c, q)
    <3>1. q \in Counted /\ Counted' = Counted \ {q} /\ Decrement
      BY <2>3 DEF TakeBack
    <3> QED BY <3>1, Recount
  <2> QED BY <1>2, <2>1, <2>2, <2>3 DEF CallerStep
<1>3. ASSUME NEW q \in Questions, WorkerStep(q) PROVE CountIsExact'
  <2>1. CASE Solve(q) \/ Send(q) \/ Decide(q)
    <3>1. Counted' = Counted /\ abandoned' = abandoned
      BY <2>1 DEF Solve, Send, Decide
    <3> QED BY <3>1, Recount
  <2>2. CASE Uncount(q)
    <3>1. q \in Counted /\ Counted' = Counted \ {q} /\ Decrement
      BY <2>2 DEF Uncount
    <3> QED BY <3>1, Recount
  <2> QED BY <1>3, <2>1, <2>2 DEF WorkerStep
<1>4. CASE UNCHANGED vars
  BY <1>4 DEF vars, CountIsExact
<1> QED BY <1>1, <1>2, <1>3, <1>4 DEF Next

\* Nothing is counted at the start.
LEMMA CountInit == Init => CountIsExact
<1>1. Init => LeftBehind \cup Counting = {}
  BY DEF Init, LeftBehind, Counting
<1> QED BY <1>1, FS_EmptySet DEF Init, CountIsExact

-----------------------------------------------------------------------------
(* The bound on the threads left behind. *)

\* A caller is in the middle of at most one question.
LEMMA InFlightBounded == Inv => Cardinality(InFlight) <= Cardinality(Callers)
<1> SUFFICES ASSUME Inv PROVE Cardinality(InFlight) <= Cardinality(Callers)
  OBVIOUS
<1> DEFINE asker == [q \in InFlight |-> CHOOSE c \in Callers : asking[c] = q]
<1>1. \A q \in InFlight : asker[q] \in Callers /\ asking[asker[q]] = q
  BY DEF InFlight
<1>2. asker \in Injection(InFlight, Callers)
  BY <1>1 DEF Injection, IsInjective
<1> QED BY <1>2, FS_Injection, CallersAssumption

\* The same of the next state.
LEMMA InFlightBoundedNext == Inv' => (Cardinality(InFlight) <= Cardinality(Callers))'
  BY InFlightBounded, PTL

\* A step that adds no question to those abandoned or in flight keeps the bound.
LEMMA LoadShrinks ==
  ASSUME Inv, LoadBounded, (LeftBehind \cup InFlight)' \subseteq LeftBehind \cup InFlight
  PROVE  LoadBounded'
<1> DEFINE Load == LeftBehind \cup InFlight
<1>1. IsFiniteSet(Load)
  BY FS_Subset, QuestionsAssumption DEF LeftBehind, InFlight
<1>2. Cardinality(Load') <= Cardinality(Load) /\ Cardinality(Load) \in Nat /\ Cardinality(Load') \in Nat
  BY <1>1, FS_Subset, FS_CardinalityType
<1> QED BY <1>2, FS_CardinalityType, CallersAssumption, CapAssumption DEF LoadBounded

\* Only asking adds to the load, and it is admitted below the cap.
LEMMA LoadNext == Inv /\ Inv' /\ CountIsExact /\ LoadBounded /\ [Next]_vars => LoadBounded'
<1> SUFFICES ASSUME Inv, Inv', CountIsExact, LoadBounded, [Next]_vars PROVE LoadBounded'
  OBVIOUS
<1> USE DEF Inv, Types, Protocol, ProtocolOf, Ownership, LeftBehind, InFlight
<1>1. ASSUME NEW c \in Callers, NEW q \in Questions, Ask(c, q) PROVE LoadBounded'
  <2>1. CASE abandoned >= MaxAbandoned
    <3>1. asking' = [asking EXCEPT ![c] = None] /\ state' = state /\ workStep' = workStep
      BY <1>1, <2>1, UsizeAssumption, CapAssumption DEF Ask, Return
    <3>2. (LeftBehind \cup InFlight)' \subseteq LeftBehind \cup InFlight
      BY <3>1, QuestionsAssumption
    <3> QED BY <3>2, LoadShrinks
  <2>2. CASE abandoned < MaxAbandoned
    <3>1. LeftBehind' = LeftBehind
      BY <1>1 DEF Ask
    <3>2. /\ IsFiniteSet(LeftBehind) /\ IsFiniteSet(InFlight') /\ IsFiniteSet(Counted)
          /\ LeftBehind \subseteq Counted
      BY FS_Subset, QuestionsAssumption DEF Counted, Counting
    <3>3. Cardinality(LeftBehind) <= abandoned
      BY <3>2, FS_Subset DEF CountIsExact, Counted
    <3>4. Cardinality(InFlight') <= Cardinality(Callers)
      BY InFlightBoundedNext
    <3>5. Cardinality(LeftBehind \cup InFlight') <= Cardinality(LeftBehind) + Cardinality(InFlight')
      <4> HIDE DEF LeftBehind, InFlight
      <4>1. Cardinality(LeftBehind \cap InFlight') \in Nat
        BY <3>2, FS_Intersection, FS_CardinalityType
      <4>2. Cardinality(LeftBehind) \in Nat /\ Cardinality(InFlight') \in Nat
        BY <3>2, FS_CardinalityType
      <4>3. Cardinality(LeftBehind \cup InFlight')
              = Cardinality(LeftBehind) + Cardinality(InFlight') - Cardinality(LeftBehind \cap InFlight')
        BY <3>2, FS_Union
      <4> QED BY <4>1, <4>2, <4>3
    <3>6. /\ Cardinality(LeftBehind) \in Nat /\ Cardinality(InFlight') \in Nat
          /\ Cardinality(Callers) \in Nat /\ Cardinality(LeftBehind \cup InFlight') \in Nat
      BY <3>2, FS_CardinalityType, FS_Union, CallersAssumption
    <3>7. Cardinality(LeftBehind \cup InFlight') <= MaxAbandoned + Cardinality(Callers) - 1
      <4> HIDE DEF LeftBehind, InFlight
      <4>1. abandoned \in Int
        BY UsizeAssumption
      <4> QED BY <4>1, <2>2, <3>3, <3>4, <3>5, <3>6, CapAssumption
    <3> QED BY <3>1, <3>7 DEF LoadBounded
  <2> QED BY <2>1, <2>2, CapAssumption, UsizeAssumption
<1>2. ASSUME NEW c \in Callers, NEW q \in Questions, CallerStep(c, q) PROVE LoadBounded'
  <2>1. (LeftBehind \cup InFlight)' \subseteq LeftBehind \cup InFlight
    BY <1>2, QuestionsAssumption DEF CallerStep, Spawn, SpawnFails, Receive, Expire, Abandon, TakeBack, Drain, Return
  <2> QED BY <2>1, LoadShrinks
<1>3. ASSUME NEW q \in Questions, WorkerStep(q) PROVE LoadBounded'
  <2>1. (LeftBehind \cup InFlight)' \subseteq LeftBehind \cup InFlight
    BY <1>3 DEF WorkerStep, Solve, Send, Decide, Uncount
  <2> QED BY <2>1, LoadShrinks
<1>4. CASE UNCHANGED vars
  BY <1>4 DEF vars, LoadBounded
<1> QED BY <1>1, <1>2, <1>3, <1>4 DEF Next

\* There is no load at the start.
LEMMA LoadInit == Init => LoadBounded
<1>1. Init => LeftBehind \cup InFlight = {}
  BY QuestionsAssumption DEF Init, LeftBehind, InFlight
<1>2. Cardinality(Callers) \in Nat /\ Cardinality(Callers) # 0
  BY CallersAssumption, FS_CardinalityType, FS_EmptySet
<1>3. Init => Cardinality(LeftBehind \cup InFlight) = 0
  BY <1>1, FS_EmptySet
<1> QED BY <1>2, <1>3, CapAssumption DEF LoadBounded

-----------------------------------------------------------------------------

\* The protocol, the exact counter and the bounded load hold together at every step.
LEMMA Invariance == Spec => [](Inv /\ CountIsExact /\ LoadBounded)
<1>1. Init => Inv /\ CountIsExact /\ LoadBounded
  BY InvInit, CountInit, LoadInit
<1>2. Inv /\ CountIsExact /\ LoadBounded /\ [Next]_vars => (Inv /\ CountIsExact /\ LoadBounded)'
  BY InvNext, CountNext, LoadNext
<1> QED BY <1>1, <1>2, PTL DEF Spec

\* The variables keep their types: mba/threaded.rs never leaves the protocol
\* of states its atomic, its channel and its two threads go through.
THEOREM TypeCorrect == Spec => []TypeOK
<1>1. Inv => TypeOK
  BY DEF Inv, Types, TypeOK
<1> QED BY <1>1, Invariance, PTL

\* The counter `abandoned' of mba/threaded.rs is exact at every step of every
\* interleaving: no decrement is lost or doubled, so it never wraps.
THEOREM CounterExact == Spec => []CountIsExact
  BY Invariance, PTL

\* What the documentation of with_max_abandoned promises: the threads left
\* behind exceed the cap by less than the number of concurrent callers.
THEOREM ThreadsBoundedAlways == Spec => []ThreadsBounded
<1>1. Inv /\ LoadBounded => ThreadsBounded
  <2> SUFFICES ASSUME Inv, LoadBounded PROVE ThreadsBounded
    OBVIOUS
  <2>1. IsFiniteSet(LeftBehind \cup InFlight) /\ LeftBehind \subseteq LeftBehind \cup InFlight
    BY FS_Subset, QuestionsAssumption DEF LeftBehind, InFlight
  <2> QED BY <2>1, FS_Subset, FS_CardinalityType, CallersAssumption, CapAssumption
          DEF LoadBounded, ThreadsBounded
<1> QED BY <1>1, Invariance, PTL

\* Caller and worker agree on who won the race at the deadline, so an answer
\* is charged and returned once.
THEOREM OutcomesAgreeAlways == Spec => []OutcomesAgree
<1>1. Inv => OutcomesAgree
  BY DEF Inv, Types, Protocol, ProtocolOf, OutcomesAgree, Verdicts
<1> QED BY <1>1, Invariance, PTL

\* The recv without a timeout in mba/threaded.rs always finds the answer.
THEOREM DrainFinds == Spec => []DrainNeverBlocks
<1>1. Inv => DrainNeverBlocks
  BY DEF Inv, Protocol, ProtocolOf, DrainNeverBlocks
<1> QED BY <1>1, Invariance, PTL
=============================================================================
