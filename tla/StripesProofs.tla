---------------------------- MODULE StripesProofs ----------------------------
(***************************************************************************)
(* Proofs about Stripes, for any number of assignments, stripe and         *)
(* threads. The argument: every failing assignment already claimed is      *)
(* accounted for by the recorded failure or lies in the stripe of a thread *)
(* that is still to record it or a smaller one (Covered).                  *)
(***************************************************************************)
EXTENDS Stripes, TLAPS

\* What the recorded failure accounts for.
Seen(i) == IF user = "certificate" THEN first # NoFailure ELSE first <= i

\* A thread that is to record assignment i, or a failure before it.
Holds(t, i) == /\ pc[t] \in Working
               /\ base[t] <= i /\ i < base[t] + Stripe
               /\ pc[t] = "record" => found[t] <= i

Covered(i) == Seen(i) \/ \E t \in Threads : Holds(t, i)

Inv ==
  /\ TypeOK
  /\ \A t \in Threads : pc[t] = "record" => found[t] \in fails
  /\ \A t \in Threads : pc[t] = "done" => Total <= next
  /\ \A i \in fails : i < next => Covered(i)
  /\ result # Unknown => /\ VerdictRight
                         /\ FirstFailureReported

\* Nothing is claimed at the start.
LEMMA InvInit == Init => Inv
  <1> SUFFICES ASSUME Init PROVE Inv
    OBVIOUS
  <1> USE SizesAssumption, ThreadsAssumption DEF Init
  <1>1. TypeOK
    BY DEF TypeOK, Working, Assignments, NoFailure, Unknown
  <1>2. \A t \in Threads : pc[t] # "record" /\ pc[t] # "done"
    OBVIOUS
  <1>3. \A i \in fails : ~(i < next)
    BY DEF Assignments
  <1> QED BY <1>1, <1>2, <1>3 DEF Inv

\* A step of one thread that leaves the recorded failure alone keeps what is covered, if
\* the thread goes on holding what it held or the failure accounts for it.
LEMMA CoverageKept ==
  ASSUME Inv, NEW t \in Threads, NEW i \in fails, i < next,
         user' = user, fails' = fails, first' = first,
         \A u \in Threads \ {t} : pc'[u] = pc[u] /\ base'[u] = base[u] /\ found'[u] = found[u],
         Holds(t, i) => Seen(i) \/ Holds(t, i)'
  PROVE  Covered(i)'
  <1>1. Covered(i)
    BY DEF Inv
  <1>2. CASE Seen(i)
    BY <1>2 DEF Seen, Covered
  <1>3. CASE Holds(t, i)
    BY <1>3 DEF Seen, Covered
  <1>4. ASSUME NEW u \in Threads \ {t}, Holds(u, i) PROVE Covered(i)'
    BY <1>4 DEF Covered, Holds
  <1> QED BY <1>1, <1>2, <1>3, <1>4 DEF Covered

\* Every step keeps the invariant.
LEMMA InvNext == Inv /\ [Next]_vars => Inv'
  <1> SUFFICES ASSUME Inv, [Next]_vars PROVE Inv'
    OBVIOUS
  <1> USE SizesAssumption, ThreadsAssumption
  <1>0. /\ TypeOK /\ fails \subseteq Nat /\ \A i \in fails : i < Total
        /\ \A i \in fails : i < next => Covered(i)
    BY DEF Inv, TypeOK, Assignments
  <1>1. CASE Spawn \/ Join
    <2>1. PICK t \in Threads : /\ pc[t] \in {"unstarted", "spawn"}
                               /\ pc' = [pc EXCEPT ![t] = "claim"]
      BY <1>1 DEF Spawn, Join, Goto
    <2>2. UNCHANGED <<user, fails, next, first, base, found, result>>
      BY <1>1 DEF Spawn, Join
    <2>3. TypeOK'
      BY <1>0, <2>1, <2>2 DEF TypeOK, Working
    <2>4. ASSUME NEW i \in fails', i < next' PROVE Covered(i)'
      BY <1>0, <2>1, <2>2, <2>4, CoverageKept DEF TypeOK, Holds, Working
    <2> QED BY <2>1, <2>2, <2>3, <2>4 DEF Inv, TypeOK, VerdictRight, FirstFailureReported
  <1>2. ASSUME NEW t \in Threads, Claim(t) PROVE Inv'
    <2>1. /\ pc[t] = "claim" /\ next' = next + Stripe
          /\ base' = [base EXCEPT ![t] = next]
          /\ pc' = [pc EXCEPT ![t] = IF next >= Total THEN "done" ELSE "look"]
          /\ UNCHANGED <<user, fails, first, found, result>>
      BY <1>2 DEF Claim, Goto
    <2>2. TypeOK'
      BY <1>0, <2>1 DEF TypeOK, Working
    <2>3. ASSUME NEW i \in fails', i < next' PROVE Covered(i)'
      <3>1. CASE i < next
        BY <1>0, <2>1, <3>1, CoverageKept DEF TypeOK, Holds, Working
      <3>2. CASE ~(i < next)
        <4>1. next \in Nat /\ i \in Nat /\ i < Total /\ ~(next >= Total)
          BY <1>0, <2>1, <3>2 DEF TypeOK
        <4>2. pc'[t] = "look" /\ base'[t] = next
          BY <1>0, <2>1, <4>1 DEF TypeOK
        <4>3. Holds(t, i)'
          BY <2>1, <2>3, <3>2, <4>1, <4>2 DEF Holds, Working
        <4> QED BY <4>3 DEF Covered
      <3> QED BY <3>1, <3>2
    <2>4. \A u \in Threads : pc'[u] = "done" => Total <= next'
      BY <1>0, <2>1 DEF Inv, TypeOK
    <2>5. \A u \in Threads : pc'[u] = "record" => found'[u] \in fails'
      BY <1>0, <2>1 DEF Inv, TypeOK
    <2> QED BY <2>1, <2>2, <2>3, <2>4, <2>5 DEF Inv, VerdictRight, FirstFailureReported
  <1>3. ASSUME NEW t \in Threads, Look(t) PROVE Inv'
    <2>1. /\ pc[t] = "look"
          /\ pc' = [pc EXCEPT ![t] = IF Skip(base[t], first) THEN "claim" ELSE "scan"]
          /\ UNCHANGED <<user, fails, next, first, base, found, result>>
      BY <1>3 DEF Look, Goto
    <2>2. TypeOK'
      BY <1>0, <2>1 DEF TypeOK, Working
    <2>3. ASSUME NEW i \in fails', i < next' PROVE Covered(i)'
      <3>1. base[t] \in Nat /\ first \in Nat /\ i \in Nat
        BY <1>0, <2>1, <2>3 DEF TypeOK, NoFailure
      <3>2. ASSUME Holds(t, i) PROVE Seen(i) \/ Holds(t, i)'
        <4>1. CASE Skip(base[t], first)
          BY <3>1, <3>2, <4>1 DEF Skip, Seen, Holds
        <4>2. CASE ~Skip(base[t], first)
          BY <1>0, <2>1, <3>2, <4>2 DEF Holds, Working, TypeOK
        <4> QED BY <4>1, <4>2
      <3> QED BY <1>0, <2>1, <2>3, <3>2, CoverageKept DEF TypeOK
    <2>4. \A u \in Threads : pc'[u] \in {"record", "done"} => pc[u] = pc'[u]
      BY <1>0, <2>1 DEF TypeOK
    <2> QED BY <2>1, <2>2, <2>3, <2>4 DEF Inv, VerdictRight, FirstFailureReported
  <1>4. ASSUME NEW t \in Threads, Scan(t) PROVE Inv'
    <2>1. pc[t] = "scan" /\ UNCHANGED <<user, fails, next, first, base, result>>
      BY <1>4 DEF Scan
    <2>2. CASE In(base[t]) = {}
      <3>1. pc' = [pc EXCEPT ![t] = "claim"] /\ found' = found
        BY <1>4, <2>2 DEF Scan, Goto
      <3>2. TypeOK'
        BY <1>0, <2>1, <3>1 DEF TypeOK, Working
      <3>3. ASSUME NEW i \in fails', i < next' PROVE Covered(i)'
        <4>1. ~Holds(t, i)
          BY <2>1, <2>2, <3>3 DEF Holds, In
        <4> QED BY <1>0, <2>1, <3>1, <3>3, <4>1, CoverageKept DEF TypeOK
      <3>4. \A u \in Threads : pc'[u] \in {"record", "done"} => pc[u] = pc'[u]
        BY <1>0, <3>1 DEF TypeOK
      <3> QED BY <2>1, <3>1, <3>2, <3>3, <3>4 DEF Inv, VerdictRight, FirstFailureReported
    <2>3. CASE In(base[t]) # {}
      <3>1. PICK f \in In(base[t]) : /\ \A j \in In(base[t]) : f <= j
                                     /\ found' = [found EXCEPT ![t] = f]
        BY <1>4, <2>3 DEF Scan
      <3>2. pc' = [pc EXCEPT ![t] = "record"] /\ f \in fails
        BY <1>4, <2>3 DEF Scan, Goto, In
      <3>3. TypeOK'
        BY <1>0, <2>1, <3>1, <3>2 DEF TypeOK, Working
      <3>4. ASSUME NEW i \in fails', i < next' PROVE Covered(i)'
        <4>1. ASSUME Holds(t, i) PROVE Holds(t, i)'
          <5>1. f <= i
            BY <2>1, <3>1, <3>4, <4>1 DEF Holds, In
          <5>2. pc'[t] = "record" /\ found'[t] = f /\ base'[t] = base[t]
            BY <1>0, <2>1, <3>1, <3>2 DEF TypeOK
          <5> QED BY <4>1, <5>1, <5>2 DEF Holds, Working
        <4> QED BY <1>0, <2>1, <3>1, <3>2, <3>4, <4>1, CoverageKept DEF TypeOK
      <3>5. \A u \in Threads : pc'[u] = "record" => found'[u] \in fails
        BY <1>0, <3>1, <3>2 DEF Inv, TypeOK
      <3>6. \A u \in Threads : pc'[u] = "done" => pc[u] = "done"
        BY <1>0, <3>2 DEF TypeOK
      <3> QED BY <2>1, <3>3, <3>4, <3>5, <3>6 DEF Inv, VerdictRight, FirstFailureReported
    <2> QED BY <2>2, <2>3
  <1>5. ASSUME NEW t \in Threads, Record(t) PROVE Inv'
    <2>1. /\ pc[t] = "record" /\ pc' = [pc EXCEPT ![t] = "claim"]
          /\ first' = Smaller(first, found[t])
          /\ UNCHANGED <<user, fails, next, base, found, result>>
      BY <1>5 DEF Record, Goto
    <2>2. found[t] \in fails /\ first \in Nat
      BY <1>0, <2>1 DEF Inv, TypeOK, NoFailure
    <2>20. found[t] \in Nat /\ found[t] < NoFailure /\ first \in fails \cup {NoFailure}
      BY <1>0, <2>2 DEF TypeOK, NoFailure
    <2>3. /\ first' \in fails /\ first' <= first /\ first' <= found[t]
          /\ first' \in Nat /\ first' # NoFailure
      <3>1. CASE found[t] < first
        BY <2>1, <2>2, <2>20, <3>1 DEF Smaller
      <3>2. CASE ~(found[t] < first)
        <4>1. first' = first /\ first <= found[t] /\ first # NoFailure
          BY <2>1, <2>2, <2>20, <3>2 DEF Smaller, NoFailure
        <4> QED BY <2>2, <2>20, <4>1
      <3> QED BY <3>1, <3>2
    <2>4. TypeOK'
      BY <1>0, <2>1, <2>3 DEF TypeOK, Working
    <2>5. ASSUME NEW i \in fails', i < next' PROVE Covered(i)'
      <3>1. i \in fails /\ i \in Nat /\ Covered(i) /\ first' # NoFailure
        BY <1>0, <2>1, <2>3, <2>5
      <3>2. CASE Seen(i)
        <4>1. CASE user = "certificate"
          BY <2>1, <3>1, <4>1 DEF Seen, Covered
        <4>2. CASE user # "certificate"
          <5>1. first <= i /\ first' <= i
            BY <2>2, <2>3, <3>1, <3>2, <4>2 DEF Seen
          <5> QED BY <2>1, <4>2, <5>1 DEF Seen, Covered
        <4> QED BY <4>1, <4>2
      <3>3. CASE Holds(t, i)
        <4>1. found[t] <= i
          BY <2>1, <3>3 DEF Holds
        <4>2. first' <= i
          BY <2>2, <2>20, <2>3, <3>1, <4>1
        <4> QED BY <2>1, <3>1, <4>2 DEF Seen, Covered
      <3>4. ASSUME NEW u \in Threads \ {t}, Holds(u, i) PROVE Covered(i)'
        BY <1>0, <2>1, <3>4 DEF Covered, Holds, TypeOK
      <3> QED BY <3>1, <3>2, <3>3, <3>4 DEF Covered
    <2>6. \A u \in Threads : pc'[u] \in {"record", "done"} => pc[u] = pc'[u]
      BY <1>0, <2>1 DEF TypeOK
    <2> QED BY <2>1, <2>4, <2>5, <2>6 DEF Inv, VerdictRight, FirstFailureReported
  <1>6. CASE Return
    <2>1. /\ pc[Main] = "done" /\ \A t \in Threads : pc[t] \in {"done", "unstarted"}
          /\ result' = first
          /\ UNCHANGED <<user, fails, next, first, pc, base, found>>
      BY <1>6 DEF Return, Ended
    <2>2. Total <= next
      BY <2>1 DEF Inv
    <2>3. \A t \in Threads, i \in fails : ~Holds(t, i)
      BY <2>1 DEF Holds, Working
    <2>4. \A i \in fails : Seen(i)
      <3> SUFFICES ASSUME NEW i \in fails PROVE Seen(i)
        OBVIOUS
      <3>1. i < next
        BY <1>0, <2>2 DEF TypeOK
      <3> QED BY <1>0, <2>3, <3>1 DEF Covered
    <2>5. VerdictRight' /\ FirstFailureReported'
      <3>1. \A i \in fails : i < NoFailure /\ i \in Nat
        BY <1>0 DEF NoFailure
      <3>2. first \in fails \cup {NoFailure} /\ NoFailure \in Nat
        BY <1>0 DEF TypeOK, NoFailure
      <3>3. first = NoFailure => fails = {}
        BY <2>4, <3>1 DEF Seen, NoFailure
      <3>4. user = "exhaust" => \A i \in fails : first <= i
        BY <2>4 DEF Seen
      <3> QED BY <2>1, <3>2, <3>3, <3>4 DEF VerdictRight, FirstFailureReported
    <2>6. TypeOK'
      BY <1>0, <2>1 DEF TypeOK
    <2>7. \A i \in fails : Covered(i)' = Covered(i)
      BY <2>1 DEF Covered, Seen, Holds
    <2> QED BY <1>0, <2>1, <2>5, <2>6, <2>7 DEF Inv
  <1>7. CASE UNCHANGED vars
    <2>1. \A i : Covered(i)' = Covered(i)
      BY <1>7 DEF vars, Covered, Seen, Holds
    <2> QED BY <1>7, <2>1 DEF vars, Inv, TypeOK, VerdictRight, FirstFailureReported
  <1> QED BY <1>1, <1>2, <1>3, <1>4, <1>5, <1>6, <1>7 DEF Next, Work

\* The invariant holds of every behaviour.
LEMMA Invariance == Spec => []Inv
  BY InvInit, InvNext, PTL DEF Spec

\* The state of an enumeration (stripes of prove/sample_words/exhaust.rs) keeps its types:
\* what is recorded or reported is a failing assignment or none.
THEOREM TypeCorrect == Spec => []TypeOK
  <1>1. Inv => TypeOK
    BY DEF Inv
  <1> QED BY <1>1, Invariance, PTL

\* With any number of threads, of which any may fail to start, an enumeration reports that
\* the goal holds only if it fails nowhere, and only real failures: exhaust and the
\* certificate's check.
THEOREM VerdictAlwaysRight == Spec => []VerdictRight
  <1>1. Inv => VerdictRight
    BY DEF Inv, VerdictRight
  <1> QED BY <1>1, Invariance, PTL

\* exhaust reports the first failing assignment, whatever the threads.
THEOREM FirstFailureAlways == Spec => []FirstFailureReported
  <1>1. Inv => FirstFailureReported
    BY DEF Inv, FirstFailureReported
  <1> QED BY <1>1, Invariance, PTL

\* The report of both users is right, for any number of threads.
THEOREM ReportAlwaysRight == Spec => []ReportRight
  <1>1. VerdictRight /\ FirstFailureReported => ReportRight
    BY DEF ReportRight
  <1> QED BY <1>1, VerdictAlwaysRight, FirstFailureAlways, PTL
=============================================================================
