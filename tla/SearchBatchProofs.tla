-------------------------- MODULE SearchBatchProofs --------------------------
(***************************************************************************)
(* Proofs about SearchBatch, for any saturators, roots, costs and budgets. *)
(* The argument: between two roots of a batch, what is done so far agrees  *)
(* with what each root's search would find alone unless it was stopped or  *)
(* cut off, in which case the batch is already withheld (DoneRight), and   *)
(* every root passed is done (Passed).  What withheld a batch is the first *)
(* root not answered in full, which the memo still lacks when the call     *)
(* returns; a try of a batch that can do finds one root more, or all are   *)
(* known (TriesFound), so as many tries as roots publish it.               *)
(***************************************************************************)
EXTENDS SearchBatch, FiniteSetTheorems, TLAPS

Full == {"Saturated", "Declined", "Memo"}

\* What was answered in full is what the root's search finds, and a batch not
\* withheld has no other answers.
DoneRight ==
  at # 0 => \A r \in DOMAIN done :
    /\ done[r].end \in Full => done[r].candidate = Candidate[call.by][r]
    /\ cause = None => done[r].end \in Full

Passed ==
  at # 0 => \A i \in DOMAIN call.batch : i < at => call.batch[i] \in DOMAIN done

Inv ==
  /\ TypeOK
  /\ MemoRight
  /\ at # 0 => memo.of = call.by
  /\ DoneRight
  /\ Passed
  /\ at # 0 => report = NoReport
  /\ AllOrNothing
  /\ AllowancePaysForSearch

\* Adding an answer of the right type keeps the type.
LEMMA PutTyped ==
  ASSUME NEW f, IsResults(f), NEW r \in Exprs, NEW o \in Outcomes
  PROVE  IsResults(Put(f, r, o))
  <1>1. DOMAIN Put(f, r, o) = DOMAIN f \cup {r}
    BY DEF Put
  <1>2. ASSUME NEW q \in DOMAIN f \cup {r} PROVE Put(f, r, o)[q] \in Outcomes
    <2>1. CASE q = r
      BY <2>1 DEF Put
    <2>2. CASE q # r
      <3>1. q \in DOMAIN f
        BY <1>2, <2>2
      <3> QED BY <2>2, <3>1 DEF Put, IsResults
    <2> QED BY <2>1, <2>2
  <1>3. DOMAIN f \cup {r} \subseteq Exprs
    BY DEF IsResults
  <1> QED BY <1>1, <1>2, <1>3 DEF IsResults

\* A call's parts, and what it may spend.
LEMMA CallIs ==
  ASSUME NEW c \in Calls
  PROVE  /\ c.by \in Saturators /\ c.batch \in Seq(Exprs) /\ c.perCall \in Nat
         /\ c.paid \in BOOLEAN /\ c.deadline \in BOOLEAN
         /\ \A left \in Nat : Limit(c, left) \in Nat /\ (c.paid => Limit(c, left) <= left)
  <1>1. /\ c.by \in Saturators /\ c.batch \in Batches /\ c.perCall \in PerCalls
        /\ c.paid \in BOOLEAN /\ c.deadline \in BOOLEAN
    BY DEF Calls
  <1>2. c.perCall \in Nat /\ c.batch \in Seq(Exprs)
    BY <1>1, BatchesAssumption, BudgetsAssumption
  <1>3. ASSUME NEW left \in Nat
        PROVE  Limit(c, left) \in Nat /\ (c.paid => Limit(c, left) <= left)
    BY <1>2, <1>3 DEF Limit
  <1> QED BY <1>1, <1>2, <1>3

\* Nothing is known at the start.
LEMMA InvInit == Init => Inv
  <1> SUFFICES ASSUME Init PROVE Inv
    OBVIOUS
  <1>1. TypeOK
    <2>1. DOMAIN NoResults = {}
      BY DEF NoResults
    <2>2. IsResults(memo.results) /\ IsResults(done) /\ memo.of = None
      BY <2>1 DEF Init, IsResults
    <2>3. tries \in [Batches -> Nat] /\ Allowance \in Nat /\ MaxCalls \in Nat
      BY BudgetsAssumption DEF Init
    <2>4. call \in Calls \cup {None} /\ (at # 0 => call \in Calls) /\ at \in Nat
      BY DEF Init
    <2>5. spent \in Nat /\ allowance \in 0 .. Allowance /\ calls \in 0 .. MaxCalls /\ owed \in Nat
      BY BudgetsAssumption DEF Init
    <2>6. at = 0 /\ cause = None /\ late \in BOOLEAN
      BY DEF Init
    <2> QED BY <2>2, <2>3, <2>4, <2>5, <2>6 DEF TypeOK
  <1> QED
    BY <1>1, BudgetsAssumption DEF Init, Inv, MemoRight, DoneRight, Passed, Reported, AllOrNothing, NoResults,
       NoReport, AllowancePaysForSearch

\* The root looked at.
LEMMA AtRoot ==
  ASSUME TypeOK, at # 0
  PROVE  /\ call \in Calls /\ call.by \in Saturators /\ call.batch \in Seq(Exprs)
         /\ DOMAIN call.batch = 1 .. Len(call.batch) /\ Len(call.batch) \in Nat
         /\ InBatch => Root \in Exprs
         /\ Limit(call, allowance) \in Nat /\ (call.paid => Limit(call, allowance) <= allowance)
  <1>1. call \in Calls /\ allowance \in Nat
    BY BudgetsAssumption DEF TypeOK
  <1>2. /\ call.by \in Saturators /\ call.batch \in Seq(Exprs)
        /\ Limit(call, allowance) \in Nat /\ (call.paid => Limit(call, allowance) <= allowance)
    BY <1>1, CallIs
  <1>3. InBatch => Root \in Exprs
    BY <1>2 DEF InBatch, Root
  <1> QED BY <1>1, <1>2, <1>3

\* What a search is.
LEMMA SearchIs ==
  ASSUME NEW s \in Saturators, NEW r \in Exprs
  PROVE  /\ Ending[s][r] \in Endings /\ Candidate[s][r] \in Exprs \cup {None}
         /\ Cost[s][r] \in Nat
  BY SearchesAssumption

Ends == {"Saturated", "IterationCap", "Declined", "Memo", "Stopped", "Skipped"}

\* Settling a root keeps what is done right: an answer in full is the root's own, and
\* any other withholds the batch.
LEMMA Settling ==
  ASSUME Inv, at # 0, InBatch,
         NEW candidate \in Exprs \cup {None}, NEW end \in Ends,
         Settle(candidate, end), at' = at + 1, call' = call,
         end \in Full => candidate = Candidate[call.by][Root],
         cause' = None => cause = None /\ end \in Full
  PROVE  IsResults(done') /\ DoneRight' /\ Passed'
  <1> USE DEF Inv
  <1>1. Root \in Exprs
    BY AtRoot
  <1>2. Outcome(candidate, end) \in Outcomes
    BY DEF Outcome, Outcomes, Ends
  <1>3. done' = Put(done, Root, Outcome(candidate, end))
    BY DEF Settle
  <1>4. IsResults(done')
    BY <1>1, <1>2, <1>3, PutTyped DEF TypeOK
  <1>5. DOMAIN done' = DOMAIN done \cup {Root}
    BY <1>3 DEF Put
  <1>6. \A r \in DOMAIN done' :
          \/ r = Root /\ done'[r].end = end /\ done'[r].candidate = candidate
          \/ r \in DOMAIN done /\ done'[r] = done[r]
    BY <1>3 DEF Put, Outcome
  <1>7. DoneRight'
    BY <1>6 DEF DoneRight
  <1>8. Passed'
    <2>1. SUFFICES ASSUME NEW i \in DOMAIN call.batch, i < at + 1
                   PROVE  call.batch[i] \in DOMAIN done'
      BY DEF Passed
    <2>2. i \in Nat /\ at \in Nat
      BY AtRoot DEF TypeOK
    <2>3. CASE i < at
      BY <2>3, <1>5 DEF Passed
    <2>4. CASE i = at
      BY <2>4, <1>5 DEF Root
    <2> QED BY <2>1, <2>2, <2>3, <2>4
  <1> QED BY <1>4, <1>7, <1>8
\* What is true of a batch under way, whose next step settles a root or passes it.
Under ==
  /\ at \in Nat /\ at # 0
  /\ IsResults(done) /\ DoneRight /\ Passed
  /\ cause \in {None, "Stopped", "IterationCap"}
  /\ spent \in Nat /\ spent <= Limit(call, allowance)

\* A step of a batch that leaves the memo, the call and what is left of the allowance
\* alone keeps the invariant if it keeps that.
LEMMA UnderWay ==
  ASSUME Inv, at # 0, Under',
         UNCHANGED <<memo, call, allowance, report, historyVars>>
  PROVE  Inv'
  <1> USE DEF Inv, historyVars
  <1>1. TypeOK'
    BY DEF TypeOK, Under
  <1>2. MemoRight'
    BY DEF MemoRight
  <1>3. ~Reported'
    BY DEF Reported, NoReport
  <1>4. AllowancePaysForSearch'
    BY DEF AllowancePaysForSearch
  <1> QED BY <1>1, <1>2, <1>3, <1>4 DEF Under, AllOrNothing

\* A new call takes the memo as its own saturator's, and has nothing done yet.
LEMMA BeginKeeps == Inv /\ Begin => Inv'
  <1> SUFFICES ASSUME Inv, Begin PROVE Inv'
    OBVIOUS
  <1> USE DEF Inv
  <1>1. PICK c \in Calls : /\ call' = c
                           /\ memo' = MemoFor(c.by)
                           /\ late' \in {FALSE, c.deadline}
                           /\ cause' = IF late' THEN "Stopped" ELSE None
                           /\ tries' = [b \in Batches |-> (IF memo.of = c.by THEN tries[b] ELSE 0)
                                          + (IF b = c.batch /\ CanDo(c) THEN 1 ELSE 0)]
    BY DEF Begin
  <1>2. /\ at' = 1 /\ done' = NoResults /\ spent' = 0 /\ report' = NoReport
        /\ calls' = calls + 1 /\ calls < MaxCalls /\ allowance' = allowance /\ owed' = owed
    BY DEF Begin
  <1>3. c.by \in Saturators /\ c.deadline \in BOOLEAN /\ Limit(c, allowance) \in Nat
    <2>1. allowance \in Nat
      BY BudgetsAssumption DEF TypeOK
    <2> QED BY <2>1, CallIs
  <1>4. DOMAIN NoResults = {}
    BY DEF NoResults
  <1>5. memo'.of = c.by /\ IsResults(memo'.results)
    BY <1>1, <1>4 DEF MemoFor, TypeOK, IsResults
  <1>6. MemoRight'
    <2>1. CASE memo.of = c.by
      BY <1>1, <2>1 DEF MemoFor, MemoRight
    <2>2. CASE memo.of # c.by
      BY <1>1, <1>4, <2>2 DEF MemoFor, MemoRight
    <2> QED BY <2>1, <2>2
  <1>7. tries' \in [Batches -> Nat]
    <2>1. tries \in [Batches -> Nat]
      BY DEF TypeOK
    <2>2. \A b \in Batches : (IF memo.of = c.by THEN tries[b] ELSE 0)
                               + (IF b = c.batch /\ CanDo(c) THEN 1 ELSE 0) \in Nat
      BY <2>1
    <2> QED BY <1>1, <2>2
  <1>8. IsResults(done') /\ DoneRight'
    BY <1>2, <1>4 DEF IsResults, DoneRight
  <1>9. Passed'
    <2>1. c.batch \in Seq(Exprs)
      BY CallIs
    <2>2. \A i \in DOMAIN c.batch : ~(i < 1)
      BY <2>1
    <2> QED BY <1>1, <1>2, <2>2 DEF Passed
  <1>10. calls' \in 0 .. MaxCalls
    BY <1>2, BudgetsAssumption DEF TypeOK
  <1>11. /\ call' \in Calls /\ at' \in Nat /\ cause' \in {None, "Stopped"} /\ late' \in BOOLEAN
         /\ memo'.of \in Saturators \cup {None}
    BY <1>1, <1>2, <1>3, <1>5
  <1>12. spent' \in Nat /\ spent' <= Limit(call', allowance')
    BY <1>1, <1>2, <1>3
  <1>13. allowance' \in 0 .. Allowance /\ owed' \in Nat
    BY <1>2 DEF TypeOK
  <1>14. TypeOK'
    BY <1>5, <1>7, <1>8, <1>10, <1>11, <1>12, <1>13 DEF TypeOK
  <1>15. ~Reported'
    BY <1>2 DEF Reported, NoReport
  <1>16. AllowancePaysForSearch'
    BY <1>2 DEF AllowancePaysForSearch
  <1> QED
    BY <1>1, <1>2, <1>5, <1>6, <1>8, <1>9, <1>14, <1>15, <1>16 DEF AllOrNothing
\* A root met again was done when it was first met.
LEMMA RepeatedKeeps == Inv /\ Repeated => Inv'
  <1> SUFFICES ASSUME Inv, Repeated PROVE Inv'
    OBVIOUS
  <1> USE DEF Inv, Repeated
  <1>1. /\ at' \in Nat /\ at' # 0 /\ IsResults(done')
        /\ cause' \in {None, "Stopped", "IterationCap"}
        /\ spent' \in Nat /\ spent' <= Limit(call', allowance')
    BY DEF TypeOK
  <1>2. DoneRight'
    BY DEF DoneRight
  <1>3. Passed'
    <2>1. SUFFICES ASSUME NEW i \in DOMAIN call.batch, i < at + 1
                   PROVE  call.batch[i] \in DOMAIN done
      BY DEF Passed
    <2>2. i \in Nat /\ at \in Nat
      BY AtRoot DEF TypeOK
    <2>3. CASE i < at
      BY <2>3 DEF Passed
    <2>4. CASE i = at
      BY <2>4 DEF Root
    <2> QED BY <2>2, <2>3, <2>4, <2>1
  <1>4. Under'
    BY <1>1, <1>2, <1>3 DEF Under
  <1> QED BY <1>4, UnderWay

\* What is remembered is what the root's search finds.
LEMMA FromMemoKeeps == Inv /\ FromMemo => Inv'
  <1> SUFFICES ASSUME Inv, FromMemo PROVE Inv'
    OBVIOUS
  <1> USE DEF Inv, FromMemo
  <1>1. /\ at' \in Nat /\ at' # 0
        /\ cause' \in {None, "Stopped", "IterationCap"}
        /\ spent' \in Nat /\ spent' <= Limit(call', allowance')
    BY DEF TypeOK
  <1>2. /\ memo.results[Root].candidate = Candidate[call.by][Root]
        /\ memo.results[Root].candidate \in Exprs \cup {None}
    <2>1. Root \in DOMAIN memo.results /\ memo.of = call.by
      BY DEF Remembered
    <2>2. memo.results[Root] = Outcome(Candidate[call.by][Root], Ending[call.by][Root])
      BY <2>1 DEF MemoRight
    <2>3. Candidate[call.by][Root] \in Exprs \cup {None}
      BY AtRoot, SearchIs DEF Unseen
    <2> QED BY <2>2, <2>3 DEF Outcome
  <1>3. "Memo" \in Ends /\ "Memo" \in Full
    BY DEF Ends, Full
  <1>4. IsResults(done') /\ DoneRight' /\ Passed'
    BY <1>2, <1>3, Settling DEF Unseen
  <1>5. Under'
    BY <1>1, <1>4 DEF Under
  <1> QED BY <1>5, UnderWay

\* A root is passed over only when the batch is already withheld.
LEMMA NotSearchedKeeps == Inv /\ NotSearched => Inv'
  <1> SUFFICES ASSUME Inv, NotSearched PROVE Inv'
    OBVIOUS
  <1> USE DEF Inv, NotSearched
  <1>1. /\ at' \in Nat /\ at' # 0
        /\ cause' \in {None, "Stopped", "IterationCap"} /\ cause' # None
        /\ spent' \in Nat /\ spent' <= Limit(call', allowance')
    BY DEF TypeOK, Withheld
  <1> DEFINE end == IF cause = "Stopped" THEN "Stopped" ELSE "Skipped"
  <1>2. end \in Ends /\ end \notin Full
    BY DEF Ends, Full
  <1>3. Settle(None, end)
    OBVIOUS
  <1> HIDE DEF end
  <1>4. IsResults(done') /\ DoneRight' /\ Passed'
    BY <1>1, <1>2, <1>3, Settling DEF Unseen
  <1>5. Under'
    BY <1>1, <1>4 DEF Under
  <1> QED BY <1>5, UnderWay

\* A search that is stopped with this much spent.
LEMMA StopKeeps ==
  ASSUME Inv, ToSearch, NEW after \in Nat, after <= Limit(call, allowance), Stop(after)
  PROVE  Inv'
  <1> USE DEF Inv, Stop, ToSearch
  <1>1. /\ at' \in Nat /\ at' # 0 /\ cause' = "Stopped"
        /\ spent' \in Nat /\ spent' <= Limit(call', allowance')
    BY DEF TypeOK
  <1>2. "Stopped" \in Ends /\ "Stopped" \notin Full /\ "Stopped" # None
    BY NoneAssumption DEF Ends, Full
  <1>3. IsResults(done') /\ DoneRight' /\ Passed'
    BY <1>1, <1>2, Settling DEF Unseen
  <1>4. Under'
    BY <1>1, <1>3 DEF Under
  <1> QED BY <1>4, UnderWay
\* A search that ends answers in full or withholds the batch, and is remembered only
\* when it answered in full.
LEMMA SearchKeeps == Inv /\ Search => Inv'
  <1> SUFFICES ASSUME Inv, Search PROVE Inv'
    OBVIOUS
  <1> USE DEF Inv, Search, ToSearch
  <1>1. /\ call.by \in Saturators /\ Root \in Exprs
        /\ End \in Endings /\ Need \in Nat /\ Candidate[call.by][Root] \in Exprs \cup {None}
    BY AtRoot, SearchIs DEF Unseen, End, Need
  <1>2. cause = None
    BY DEF Withheld
  <1>3. End \in Ends
    BY <1>1 DEF Ends, Endings
  <1>4. cause' = None => End \in Full
    BY <1>1, NoneAssumption DEF Full, Endings
  <1>5. IsResults(done') /\ DoneRight' /\ Passed'
    BY <1>1, <1>2, <1>3, <1>4, Settling DEF Unseen
  <1>6. spent' \in Nat /\ spent' <= Limit(call', allowance')
    BY <1>1, AtRoot DEF Left, TypeOK
  <1>7. memo'.of = memo.of /\ IsResults(memo'.results) /\ MemoRight'
    <2>1. CASE ~Stable(End)
      BY <2>1 DEF TypeOK, MemoRight
    <2>2. CASE Stable(End)
      <3> DEFINE found == Outcome(Candidate[call.by][Root], End)
      <3>1. memo.of = call.by /\ call.by # None
        BY <1>1, NoneAssumption
      <3>2. memo' = [of |-> memo.of, results |-> Put(memo.results, Root, found)]
        BY <2>2
      <3>3. memo'.of = memo.of /\ memo'.results = Put(memo.results, Root, found)
        BY <3>2
      <3>4. found \in Outcomes
        BY <1>1, <1>3 DEF Outcome, Outcomes, Ends
      <3>5. IsResults(memo'.results)
        BY <1>1, <3>3, <3>4, PutTyped DEF TypeOK
      <3>6. ASSUME NEW r \in DOMAIN memo'.results
            PROVE  /\ Ending[memo.of][r] \in {"Saturated", "Declined"}
                   /\ memo'.results[r] = Outcome(Candidate[memo.of][r], Ending[memo.of][r])
        <4>1. CASE r = Root
          BY <2>2, <3>1, <3>3, <4>1 DEF Put, Stable, End
        <4>2. CASE r # Root
          <5>1. r \in DOMAIN memo.results /\ memo'.results[r] = memo.results[r]
            BY <3>3, <3>6, <4>2 DEF Put
          <5> QED BY <5>1 DEF MemoRight
        <4> QED BY <4>1, <4>2
      <3> QED BY <3>1, <3>3, <3>5, <3>6 DEF MemoRight
    <2> QED BY <2>1, <2>2
  <1>8. TypeOK'
    BY <1>2, <1>5, <1>6, <1>7 DEF TypeOK, historyVars
  <1>9. ~Reported'
    BY DEF Reported, NoReport
  <1>10. AllowancePaysForSearch'
    BY DEF AllowancePaysForSearch, historyVars
  <1> QED BY <1>5, <1>7, <1>8, <1>9, <1>10 DEF AllOrNothing
\* A call that pays what it was allowed to spend.
LEMMA PayKeeps ==
  ASSUME Inv, at # 0, NEW after \in Nat, after <= Limit(call, allowance), Pay(after)
  PROVE  allowance' \in 0 .. Allowance /\ owed' \in Nat /\ AllowancePaysForSearch'
  <1>1. allowance \in 0 .. Allowance /\ owed \in Nat /\ allowance = Allowance - owed
    BY DEF Inv, TypeOK, AllowancePaysForSearch
  <1>2. call.paid => after <= allowance
    <2>1. /\ Limit(call, allowance) \in Nat /\ allowance \in Nat
          /\ call.paid => Limit(call, allowance) <= allowance
      BY <1>1, AtRoot, BudgetsAssumption DEF Inv
    <2> QED BY <2>1
  <1> QED
    BY <1>1, <1>2, BudgetsAssumption DEF Pay, AllowancePaysForSearch

\* A failed call shows nothing and pays what it charged.
LEMMA FailKeeps == Inv /\ Fail => Inv'
  <1> SUFFICES ASSUME Inv, Fail PROVE Inv'
    OBVIOUS
  <1> USE DEF Inv, Fail, ToSearch
  <1>1. Need \in Nat
    BY AtRoot, SearchIs DEF Unseen, Need
  <1>2. spent' \in Nat /\ spent' <= Limit(call, allowance) /\ Pay(spent')
    BY <1>1, AtRoot DEF Left, TypeOK, PayFailed
  <1>3. allowance' \in 0 .. Allowance /\ owed' \in Nat /\ AllowancePaysForSearch'
    BY <1>2, PayKeeps
  <1>4. TypeOK'
    BY <1>2, <1>3 DEF TypeOK
  <1>5. ~Reported'
    BY DEF Reported, Failure
  <1> QED
    BY <1>3, <1>4, <1>5 DEF MemoRight, DoneRight, Passed, AllOrNothing

\* At the end every root of the batch is done.
LEMMA ReturnKeeps == Inv /\ Return => Inv'
  <1> SUFFICES ASSUME Inv, Return PROVE Inv'
    OBVIOUS
  <1> USE DEF Inv, Return
  <1>1. allowance' \in 0 .. Allowance /\ owed' \in Nat /\ AllowancePaysForSearch'
    BY PayKeeps DEF TypeOK
  <1>2. memo' = memo
    BY DEF MemoKept
  <1>3. TypeOK'
    BY <1>1, <1>2 DEF TypeOK
  <1>4. ASSUME NEW i \in DOMAIN call.batch
        PROVE  report'.roots[i].candidate =
                 IF cause = None THEN Candidate[call.by][call.batch[i]] ELSE None
    <2>1. report'.roots[i].candidate = Shown(done[call.batch[i]])
      BY DEF Outcome
    <2>2. CASE cause # None
      BY <2>1, <2>2 DEF Shown
    <2>3. CASE cause = None
      <3>1. i < at
        BY AtRoot DEF InBatch, TypeOK
      <3>2. call.batch[i] \in DOMAIN done
        BY <3>1 DEF Passed
      <3>3. done[call.batch[i]].candidate = Candidate[call.by][call.batch[i]]
        BY <2>3, <3>2 DEF DoneRight
      <3> QED BY <2>1, <2>3, <3>3 DEF Shown
    <2> QED BY <2>2, <2>3
  <1>5. AllOrNothing'
    <2>1. call' = call /\ report'.cause = cause
      OBVIOUS
    <2> QED BY <1>4, <2>1 DEF AllOrNothing
  <1> QED
    BY <1>1, <1>2, <1>3, <1>5 DEF MemoRight, DoneRight, Passed

\* An empty memo is right.
LEMMA ForgetKeeps == Inv /\ Forget => Inv'
  <1> SUFFICES ASSUME Inv, Forget PROVE Inv'
    OBVIOUS
  <1> USE DEF Inv, Forget
  <1>1. DOMAIN NoResults = {}
    BY DEF NoResults
  <1>2. memo'.of = None /\ memo'.results = NoResults /\ IsResults(NoResults)
    BY <1>1 DEF IsResults
  <1>3. tries' \in [Batches -> Nat]
    OBVIOUS
  <1>4. TypeOK'
    BY <1>2, <1>3 DEF TypeOK
  <1>5. MemoRight'
    BY <1>1, <1>2 DEF MemoRight
  <1>6. AllOrNothing' /\ AllowancePaysForSearch'
    BY DEF AllOrNothing, Reported, AllowancePaysForSearch
  <1> QED
    BY <1>4, <1>5, <1>6 DEF DoneRight, Passed

\* Every step keeps the invariant.
LEMMA InvNext == Inv /\ [Next]_vars => Inv'
  <1> SUFFICES ASSUME Inv, [Next]_vars PROVE Inv'
    OBVIOUS
  <1>1. CASE OutOfBudget
    <2>1. /\ Limit(call, allowance) \in Nat
          /\ Limit(call, allowance) <= Limit(call, allowance)
      BY <1>1, AtRoot DEF OutOfBudget, ToSearch, Inv
    <2> QED BY <1>1, <2>1, StopKeeps DEF OutOfBudget
  <1>2. CASE OutOfTime
    <2>1. PICK n \in 0 .. Left : Stop(spent + n)
      BY <1>2 DEF OutOfTime
    <2>2. spent + n \in Nat /\ spent + n <= Limit(call, allowance)
      BY <1>2, <2>1, AtRoot DEF OutOfTime, ToSearch, Left, Inv, TypeOK
    <2> QED BY <1>2, <2>1, <2>2, StopKeeps DEF OutOfTime
  <1>3. CASE UNCHANGED vars
    BY <1>3 DEF vars, historyVars, Inv, TypeOK, MemoRight, DoneRight, Passed, Reported,
       AllOrNothing, AllowancePaysForSearch
  <1> QED
    BY <1>1, <1>2, <1>3, BeginKeeps, RepeatedKeeps, FromMemoKeeps, NotSearchedKeeps,
       SearchKeeps, FailKeeps, ReturnKeeps, ForgetKeeps DEF Next

\* Every reachable state satisfies the invariant.
LEMMA InvAlways == Spec => []Inv
  BY InvInit, InvNext, PTL DEF Spec

-----------------------------------------------------------------------------
(* Why a batch is withheld, and what calls leave for the next to find.  Two more       *)
(* things are kept: the root that withheld the batch is the first that was not         *)
(* answered in full, and stays unknown to the memo (CauseSoFar); of the tries of a     *)
(* batch, each that was withheld made one of its roots known (TriesFound).             *)

EndOf(i) == done[call.batch[i]].end

\* Root i of the batch was the first not answered in full, and nothing was searched after.
Withholds(i, end, after) ==
  /\ i < at /\ EndOf(i) = end
  /\ \A j \in 1 .. i - 1 : EndOf(j) \in Full
  /\ \A r \in DOMAIN done :
       done[r].end \in {"Memo", after} \/ \E h \in 1 .. i : call.batch[h] = r
  /\ call.batch[i] \notin DOMAIN memo.results

CauseSoFar ==
  at # 0 =>
    /\ late => /\ cause = "Stopped" /\ call.deadline
               /\ \A r \in DOMAIN done : done[r].end \in {"Memo", "Stopped"}
    /\ cause = "Stopped" /\ ~late =>
         \E i \in DOMAIN call.batch : Withholds(i, "Stopped", "Stopped")
    /\ cause = "IterationCap" =>
         \E i \in DOMAIN call.batch : Withholds(i, "IterationCap", "Skipped")

\* What is done was met in the batch, and what was answered in full is remembered.
DoneSoFar ==
  at # 0 => \A r \in DOMAIN done :
    /\ \E h \in DOMAIN call.batch : h < at /\ call.batch[h] = r
    /\ done[r].end \in Full => r \in DOMAIN memo.results

Known(b) == RootsOf(b) \cap DOMAIN memo.results
Found(b, n) == n <= Cardinality(Known(b)) \/ RootsOf(b) \subseteq DOMAIN memo.results

\* The try under way has searched nothing yet, or is one of those that found something.
TriesFound ==
  \A b \in Batches :
    \/ Found(b, tries[b])
    \/ /\ at # 0 /\ b = call.batch /\ CanDo(call)
       /\ spent = 0 /\ cause = None /\ Found(b, tries[b] - 1)

Told ==
  /\ CauseSoFar /\ DoneSoFar /\ TriesFound
  /\ Reported => call \in Calls
  /\ CauseIsFirst /\ RetryPublishes

\* What settling an unseen root changes.
LEMMA SettledIs ==
  ASSUME Unseen, NEW candidate, NEW end, Settle(candidate, end)
  PROVE  /\ DOMAIN done' = DOMAIN done \cup {Root} /\ Root \notin DOMAIN done
         /\ done'[Root].end = end
         /\ \A r \in DOMAIN done : done'[r] = done[r]
  BY DEF Unseen, Settle, Put, Outcome

\* What withheld the batch stays what did, while the rest is not searched.
LEMMA StillWithholds ==
  ASSUME Inv, at # 0, Unseen, NEW i \in DOMAIN call.batch, NEW end, NEW after,
         Withholds(i, end, after),
         NEW candidate, NEW e \in {"Memo", after}, Settle(candidate, e),
         at' = at + 1, call' = call, memo' = memo
  PROVE  Withholds(i, end, after)'
  <1> USE DEF Withholds, EndOf
  <1>1. at \in Nat /\ i \in Nat /\ DOMAIN call.batch = 1 .. Len(call.batch) /\ Len(call.batch) \in Nat
    BY AtRoot DEF Inv, TypeOK
  <1>2. ASSUME NEW j \in 1 .. i
        PROVE  call.batch[j] \in DOMAIN done /\ EndOf(j)' = EndOf(j)
    <2>1. j \in DOMAIN call.batch /\ j < at
      BY <1>1
    <2>2. call.batch[j] \in DOMAIN done
      BY <2>1 DEF Inv, Passed
    <2> QED BY <2>2, SettledIs
  <1>3. i < at' /\ EndOf(i)' = end
    BY <1>1, <1>2
  <1>4. \A j \in 1 .. i - 1 : EndOf(j)' \in Full
    <2> TAKE j \in 1 .. i - 1
    <2>1. j \in 1 .. i
      BY <1>1
    <2>2. EndOf(j)' = EndOf(j)
      BY <1>2, <2>1
    <2> QED BY <2>2
  <1>5. \A r \in DOMAIN done' :
          done'[r].end \in {"Memo", after} \/ \E h \in 1 .. i : call.batch[h] = r
    BY SettledIs
  <1> QED BY <1>3, <1>4, <1>5

\* The first root not answered in full withholds the batch.
LEMMA Withholding ==
  ASSUME Inv, CauseSoFar, DoneSoFar, ToSearch, NEW candidate, NEW end, NEW after, Settle(candidate, end),
         at' = at + 1, call' = call, memo' = memo
  PROVE  \E i \in DOMAIN call.batch : Withholds(i, end, after)'
  <1> USE DEF ToSearch, Inv
  <1>1. at \in Nat /\ at \in DOMAIN call.batch /\ cause = None
        /\ DOMAIN call.batch = 1 .. Len(call.batch) /\ Len(call.batch) \in Nat
    BY AtRoot DEF TypeOK, Unseen, InBatch, Withheld
  <1>2. at < at' /\ call'.batch[at] = Root
    BY <1>1 DEF Root
  <1>3. ASSUME NEW j \in 1 .. at - 1 PROVE done'[call.batch[j]].end \in Full
    <2>1. j \in DOMAIN call.batch /\ j < at
      BY <1>1
    <2>2. call.batch[j] \in DOMAIN done
      BY <2>1 DEF Passed
    <2> QED BY <1>1, <2>2, SettledIs DEF DoneRight
  <1>4. ASSUME NEW r \in DOMAIN done' PROVE \E h \in 1 .. at : call.batch[h] = r
    <2>1. CASE r = Root
      BY <1>1, <2>1 DEF Root
    <2>2. CASE r \in DOMAIN done
      <3>1. PICK h \in DOMAIN call.batch : h < at /\ call.batch[h] = r
        BY <2>2 DEF DoneSoFar
      <3> QED BY <1>1, <3>1
    <2> QED BY <2>1, <2>2, SettledIs
  <1>5. Root \notin DOMAIN memo.results
    BY DEF Remembered
  <1>6. done'[Root].end = end
    BY SettledIs
  <1>7. ASSUME NEW i, i = at PROVE Withholds(i, end, after)'
    BY <1>1, <1>2, <1>3, <1>4, <1>5, <1>6, <1>7 DEF Withholds, EndOf
  <1> QED BY <1>1, <1>7

\* The roots of a batch are finitely many, and so are those known.
LEMMA KnownIs ==
  ASSUME NEW b \in Batches
  PROVE  /\ IsFiniteSet(RootsOf(b)) /\ Cardinality(RootsOf(b)) \in Nat
         /\ \A S : LET K == RootsOf(b) \cap S
                   IN  /\ IsFiniteSet(K) /\ Cardinality(K) \in Nat
                       /\ Cardinality(K) <= Cardinality(RootsOf(b))
                       /\ Cardinality(K) = Cardinality(RootsOf(b)) => RootsOf(b) \subseteq S
  <1>1. b \in Seq(Exprs)
    BY BatchesAssumption
  <1>2. IsFiniteSet(DOMAIN b)
    BY <1>1, FS_Interval
  <1>3. [i \in DOMAIN b |-> b[i]] \in Surjection(DOMAIN b, RootsOf(b))
    BY DEF Surjection, RootsOf
  <1>4. IsFiniteSet(RootsOf(b))
    BY <1>2, <1>3, FS_Surjection
  <1>5. Cardinality(RootsOf(b)) \in Nat
    BY <1>4, FS_CardinalityType
  <1>6. ASSUME NEW S
        PROVE  LET K == RootsOf(b) \cap S
               IN  /\ IsFiniteSet(K) /\ Cardinality(K) \in Nat
                   /\ Cardinality(K) <= Cardinality(RootsOf(b))
                   /\ Cardinality(K) = Cardinality(RootsOf(b)) => RootsOf(b) \subseteq S
    <2> DEFINE K == RootsOf(b) \cap S
    <2>1. K \in SUBSET RootsOf(b) /\ (K = RootsOf(b) => RootsOf(b) \subseteq S)
      OBVIOUS
    <2> HIDE DEF K
    <2>2. IsFiniteSet(K) /\ Cardinality(K) <= Cardinality(RootsOf(b))
          /\ (Cardinality(RootsOf(b)) = Cardinality(K) => RootsOf(b) = K)
      BY <1>4, <2>1, FS_Subset
    <2>3. Cardinality(K) \in Nat
      BY <2>2, FS_CardinalityType
    <2>4. /\ IsFiniteSet(K) /\ Cardinality(K) \in Nat
          /\ Cardinality(K) <= Cardinality(RootsOf(b))
          /\ Cardinality(K) = Cardinality(RootsOf(b)) => RootsOf(b) \subseteq S
      BY <2>1, <2>2, <2>3
    <2> QED BY <2>4 DEF K
  <1> QED BY <1>4, <1>5, <1>6

\* What was found stays found as the memo grows, and one more root is one more found.
LEMMA FoundMore ==
  ASSUME NEW b \in Batches, NEW n \in Int, Found(b, n),
         DOMAIN memo.results \subseteq DOMAIN memo'.results
  PROVE  /\ Found(b, n)'
         /\ \A r \in RootsOf(b) :
              r \notin DOMAIN memo.results /\ r \in DOMAIN memo'.results => Found(b, n + 1)'
  <1> DEFINE K == Known(b)
             L == RootsOf(b) \cap DOMAIN memo'.results
  <1>1. /\ IsFiniteSet(K) /\ Cardinality(K) \in Nat
        /\ IsFiniteSet(L) /\ Cardinality(L) \in Nat
    BY KnownIs DEF Known
  <1>2. K \in SUBSET L
    BY DEF Known
  <1>3. Known(b)' = L
    BY DEF Known
  <1>4. ASSUME RootsOf(b) \subseteq DOMAIN memo.results
        PROVE  Found(b, n)' /\ Found(b, n + 1)'
    BY <1>4 DEF Found
  <1>5. ASSUME n <= Cardinality(K)
        PROVE  Found(b, n)'
    <2> HIDE DEF K, L
    <2>1. Cardinality(K) <= Cardinality(L)
      BY <1>1, <1>2, FS_Subset
    <2> QED BY <1>1, <1>3, <1>5, <2>1 DEF Found
  <1>6. ASSUME n <= Cardinality(K), NEW r \in RootsOf(b),
               r \notin DOMAIN memo.results, r \in DOMAIN memo'.results
        PROVE  Found(b, n + 1)'
    <2>1. r \in L /\ r \notin K
      BY <1>6 DEF Known
    <2> HIDE DEF K, L
    <2>2. Cardinality(K) <= Cardinality(L) /\ Cardinality(K) # Cardinality(L)
      BY <1>1, <1>2, <2>1, FS_Subset
    <2> QED BY <1>1, <1>3, <1>6, <2>2 DEF Found
  <1>7. n <= Cardinality(K) \/ RootsOf(b) \subseteq DOMAIN memo.results
    BY DEF Found
  <1> HIDE DEF K, L
  <1> QED BY <1>4, <1>5, <1>6, <1>7

\* What a batch under way has to keep, besides.
ToldUnder == CauseSoFar /\ DoneSoFar /\ TriesFound

\* No call has returned yet.
LEMMA NotReported ==
  ASSUME Inv, at # 0, report' = report
  PROVE  ~Reported' /\ CauseIsFirst' /\ RetryPublishes'
  <1>1. ~Reported'
    BY DEF Inv, Reported, NoReport
  <1> QED BY <1>1 DEF CauseIsFirst, RetryPublishes

\* A report stays as it is.
LEMMA ReportStays ==
  ASSUME CauseIsFirst, report' = report, call' = call, late' = late
  PROVE  CauseIsFirst'
  <1> DEFINE ends(rep, i) == rep.roots[i].end
             before(rep, i) == \A j \in 1 .. i - 1 : ends(rep, j) \in {"Saturated", "Declined", "Memo"}
             from(rep, c, i, as) ==
               \A j \in DOMAIN c.batch : j >= i => ends(rep, j) \in {"Memo", as}
                                                   \/ \E h \in 1 .. i : c.batch[h] = c.batch[j]
             first(rep, c, l) ==
               rep.kind = "report" =>
                 CASE rep.cause = None -> before(rep, Len(c.batch) + 1)
                   [] l -> rep.cause = "Stopped" /\ from(rep, c, 1, "Stopped")
                   [] rep.cause = "Stopped" /\ ~l ->
                        \E i \in DOMAIN c.batch :
                          ends(rep, i) = "Stopped" /\ before(rep, i) /\ from(rep, c, i, "Stopped")
                   [] rep.cause = "IterationCap" ->
                        \E i \in DOMAIN c.batch :
                          ends(rep, i) = "IterationCap" /\ before(rep, i) /\ from(rep, c, i + 1, "Skipped")
  <1>1. CauseIsFirst = first(report, call, late)
    BY DEF CauseIsFirst, Reported
  <1>2. CauseIsFirst' = first(report', call', late')
    BY DEF CauseIsFirst, Reported
  <1> HIDE DEF first
  <1> QED BY <1>1, <1>2

\* A call that finds the saturator's memo keeps what its calls found.
LEMMA BeginTells == Inv /\ Told /\ Begin => Told'
  <1> SUFFICES ASSUME Inv, Told, Begin PROVE Told'
    OBVIOUS
  <1> USE DEF Told
  <1>1. PICK c \in Calls : /\ call' = c
                           /\ memo' = MemoFor(c.by)
                           /\ late' \in {FALSE, c.deadline}
                           /\ cause' = IF late' THEN "Stopped" ELSE None
                           /\ tries' = [b \in Batches |-> (IF memo.of = c.by THEN tries[b] ELSE 0)
                                          + (IF b = c.batch /\ CanDo(c) THEN 1 ELSE 0)]
    BY DEF Begin
  <1>2. at = 0 /\ at' = 1 /\ done' = NoResults /\ spent' = 0 /\ report' = NoReport
    BY DEF Begin
  <1>3. DOMAIN NoResults = {}
    BY DEF NoResults
  <1>4. CauseSoFar'
    <2>1. late' => cause' = "Stopped" /\ call'.deadline
      BY <1>1
    <2>2. ~late' => cause' = None
      BY <1>1
    <2> QED BY <1>2, <1>3, <2>1, <2>2, NoneAssumption DEF CauseSoFar
  <1>5. DoneSoFar'
    BY <1>2, <1>3 DEF DoneSoFar
  <1>6. TriesFound'
    <2> SUFFICES ASSUME NEW b \in Batches
                 PROVE  \/ Found(b, tries[b])'
                        \/ /\ at' # 0 /\ b = call'.batch /\ CanDo(call')
                           /\ spent' = 0 /\ cause' = None /\ Found(b, tries[b] - 1)'
      BY DEF TriesFound, CanDo
    <2> DEFINE before == IF memo.of = c.by THEN tries[b] ELSE 0
               n == tries'[b]
    <2>1. tries[b] \in Nat /\ before \in Nat
      BY DEF Inv, TypeOK
    <2>2. n = before + IF b = c.batch /\ CanDo(c) THEN 1 ELSE 0
      BY <1>1
    <2>3. ASSUME NEW m, m = before PROVE Found(b, m)'
      <3>1. CASE memo.of = c.by
        <4>1. memo' = memo
          BY <1>1, <3>1 DEF MemoFor
        <4>2. Found(b, tries[b])
          BY <1>2 DEF TriesFound
        <4> QED BY <2>3, <3>1, <4>1, <4>2 DEF Found, Known
      <3>2. CASE memo.of # c.by
        <4>1. m = 0 /\ Cardinality(RootsOf(b) \cap DOMAIN memo'.results) \in Nat
          BY <2>3, <3>2, KnownIs
        <4> QED BY <4>1 DEF Found, Known
      <3> QED BY <3>1, <3>2
    <2>4. CASE ~(b = c.batch /\ CanDo(c))
      <3>1. n = before
        BY <2>1, <2>2, <2>4
      <3> QED BY <2>3, <3>1 DEF Found, Known
    <2>5. CASE b = c.batch /\ CanDo(c)
      <3>1. n - 1 = before
        BY <2>1, <2>2, <2>5
      <3>2. Found(b, tries[b] - 1)'
        BY <2>3, <3>1 DEF Found, Known
      <3>3. cause' = None
        BY <1>1, <2>5 DEF CanDo
      <3> QED BY <1>1, <1>2, <2>5, <3>2, <3>3
    <2> QED BY <2>4, <2>5
  <1>7. ~Reported' /\ CauseIsFirst' /\ RetryPublishes'
    BY <1>2 DEF Reported, NoReport, CauseIsFirst, RetryPublishes
  <1> QED BY <1>4, <1>5, <1>6, <1>7

\* A root met again tells nothing new.
LEMMA RepeatedTells == Inv /\ Told /\ Repeated => Told'
  <1> SUFFICES ASSUME Inv, Told, Repeated PROVE Told'
    OBVIOUS
  <1> USE DEF Told, Repeated, historyVars
  <1>1. at \in Nat
    BY DEF Inv, TypeOK
  <1>2. \A i \in DOMAIN call.batch : i < at => i < at'
    BY <1>1, AtRoot DEF Inv
  <1>3. CauseSoFar'
    <2>1. \A end, after : \A i \in DOMAIN call.batch :
            Withholds(i, end, after) => Withholds(i, end, after)'
      BY <1>2 DEF Withholds, EndOf
    <2> QED BY <2>1 DEF CauseSoFar
  <1>4. DoneSoFar'
    BY <1>2 DEF DoneSoFar
  <1>5. TriesFound'
    BY <1>1 DEF TriesFound, Found, Known
  <1> QED BY <1>3, <1>4, <1>5, NotReported

\* What the memo serves was found before.
LEMMA FromMemoTells == Inv /\ Told /\ FromMemo => Told'
  <1> SUFFICES ASSUME Inv, Told, FromMemo PROVE Told'
    OBVIOUS
  <1> USE DEF Told, FromMemo, historyVars
  <1>1. at \in Nat /\ at \in DOMAIN call.batch /\ Root = call.batch[at]
    BY DEF Inv, TypeOK, Unseen, InBatch, Root
  <1>2. \A i \in DOMAIN call.batch : i < at => i < at'
    BY <1>1, AtRoot DEF Inv
  <1>3. /\ DOMAIN done' = DOMAIN done \cup {Root} /\ done'[Root].end = "Memo"
        /\ \A r \in DOMAIN done : done'[r] = done[r]
    BY SettledIs
  <1>4. \A end, after : \A i \in DOMAIN call.batch :
          Withholds(i, end, after) => Withholds(i, end, after)'
    <2>1. "Memo" \in {"Memo", "Stopped"} /\ \A after : "Memo" \in {"Memo", after}
      OBVIOUS
    <2> QED BY <2>1, StillWithholds
  <1>5. CauseSoFar'
    BY <1>3, <1>4 DEF CauseSoFar
  <1>6. DoneSoFar'
    <2>1. at < at'
      BY <1>1
    <2> QED BY <1>1, <1>2, <1>3, <2>1 DEF DoneSoFar, Remembered
  <1>7. TriesFound'
    BY <1>1 DEF TriesFound, Found, Known
  <1> QED BY <1>5, <1>6, <1>7, NotReported

\* Once the batch is withheld nothing more is searched.
LEMMA NotSearchedTells == Inv /\ Told /\ NotSearched => Told'
  <1> SUFFICES ASSUME Inv, Told, NotSearched PROVE Told'
    OBVIOUS
  <1> USE DEF Told, NotSearched, historyVars
  <1> DEFINE end == IF cause = "Stopped" THEN "Stopped" ELSE "Skipped"
  <1>1. at \in Nat /\ at \in DOMAIN call.batch /\ Root = call.batch[at]
    BY DEF Inv, TypeOK, Unseen, InBatch, Root
  <1>2. \A i \in DOMAIN call.batch : i < at => i < at'
    BY <1>1, AtRoot DEF Inv
  <1>3. /\ DOMAIN done' = DOMAIN done \cup {Root} /\ done'[Root].end = end
        /\ \A r \in DOMAIN done : done'[r] = done[r]
    BY SettledIs
  <1>4. \A e : \A i \in DOMAIN call.batch :
          Withholds(i, e, end) => Withholds(i, e, end)'
    <2> HIDE DEF end
    <2> SUFFICES ASSUME NEW after, after = end, NEW i \in DOMAIN call.batch, NEW e, Withholds(i, e, after)
                 PROVE  Withholds(i, e, after)'
      BY DEF end
    <2>1. after \in {"Memo", after} /\ Settle(None, after)
      BY DEF end
    <2> QED BY <2>1, <1>1, StillWithholds
  <1>5. CauseSoFar'
    BY <1>3, <1>4 DEF CauseSoFar
  <1>6. DoneSoFar'
    <2>1. at < at' /\ end \notin Full
      BY <1>1 DEF Full
    <2> QED BY <1>1, <1>2, <1>3, <2>1 DEF DoneSoFar
  <1>7. TriesFound'
    BY <1>1 DEF TriesFound, Found, Known, Withheld
  <1> QED BY <1>5, <1>6, <1>7, NotReported

\* A search that is stopped withholds the batch, and was not the first of a call that
\* can do.
LEMMA StopTells ==
  ASSUME Inv, Told, ToSearch, NEW after, Stop(after),
         CanDo(call) => spent # 0
  PROVE  Told'
  <1> USE DEF Told, Stop, ToSearch, historyVars
  <1>1. at \in Nat /\ at \in DOMAIN call.batch /\ Root = call.batch[at]
    BY DEF Inv, TypeOK, Unseen, InBatch, Root
  <1>2. \A i \in DOMAIN call.batch : i < at => i < at'
    BY <1>1, AtRoot DEF Inv
  <1>3. /\ DOMAIN done' = DOMAIN done \cup {Root} /\ done'[Root].end = "Stopped"
        /\ \A r \in DOMAIN done : done'[r] = done[r]
    BY SettledIs
  <1>4. CauseSoFar'
    <2>1. ~late
      BY NoneAssumption DEF CauseSoFar, Withheld
    <2>2. \E i \in DOMAIN call.batch : Withholds(i, "Stopped", "Stopped")'
      BY Withholding
    <2> QED BY <2>1, <2>2 DEF CauseSoFar
  <1>5. DoneSoFar'
    <2>1. at < at' /\ "Stopped" \notin Full
      BY <1>1 DEF Full
    <2> QED BY <1>1, <1>2, <1>3, <2>1 DEF DoneSoFar
  <1>6. TriesFound'
    BY <1>1 DEF TriesFound, Found, Known
  <1> QED BY <1>4, <1>5, <1>6, NotReported

\* A search of a call that can do is remembered.
LEMMA SearchTells == Inv /\ Told /\ Search => Told'
  <1> SUFFICES ASSUME Inv, Told, Search PROVE Told'
    OBVIOUS
  <1> USE DEF Told, Search, ToSearch, historyVars
  <1>1. at \in Nat /\ at \in DOMAIN call.batch /\ Root = call.batch[at]
    BY DEF Inv, TypeOK, Unseen, InBatch, Root
  <1>2. \A i \in DOMAIN call.batch : i < at => i < at'
    BY <1>1, AtRoot DEF Inv
  <1>3. /\ DOMAIN done' = DOMAIN done \cup {Root} /\ done'[Root].end = End
        /\ \A r \in DOMAIN done : done'[r] = done[r]
    BY SettledIs
  <1>4. cause = None /\ End \in Endings /\ call' = call
    BY AtRoot, SearchIs DEF Inv, Withheld, Unseen, End
  <1>5. /\ ~Stable(End) => memo' = memo
        /\ Stable(End) => DOMAIN memo'.results = DOMAIN memo.results \cup {Root}
        /\ DOMAIN memo.results \subseteq DOMAIN memo'.results
    <2>1. CASE ~Stable(End)
      BY <2>1
    <2>2. CASE Stable(End)
      BY <2>2 DEF Put
    <2> QED BY <2>1, <2>2
  <1>6. CauseSoFar'
    <2>1. ~late
      BY <1>4, NoneAssumption DEF CauseSoFar
    <2>2. CASE End = "IterationCap"
      <3>1. cause' = "IterationCap" /\ ~Stable(End)
        BY <2>2 DEF Stable
      <3>2. Settle(Candidate[call.by][Root], End)
        OBVIOUS
      <3>3. \E i \in DOMAIN call.batch : Withholds(i, "IterationCap", "Skipped")'
        BY <2>2, <3>1, <3>2, <1>5, Withholding
      <3> QED BY <2>1, <3>1, <3>3 DEF CauseSoFar
    <2>3. CASE End # "IterationCap"
      BY <1>4, <2>1, <2>3, NoneAssumption DEF CauseSoFar
    <2> QED BY <2>2, <2>3
  <1>7. DoneSoFar'
    <2>1. at < at' /\ (End \in Full => Stable(End))
      BY <1>1, <1>4 DEF Full, Stable, Endings
    <2> QED BY <1>1, <1>2, <1>3, <1>5, <2>1 DEF DoneSoFar
  <1>8. TriesFound'
    <2> SUFFICES ASSUME NEW b \in Batches
                 PROVE  Found(b, tries[b])' \/ /\ at' # 0 /\ b = call'.batch /\ CanDo(call')
                                               /\ spent' = 0 /\ cause' = None /\ Found(b, tries[b] - 1)'
      BY DEF TriesFound, CanDo
    <2>1. tries' = tries /\ tries[b] \in Nat
      BY DEF Inv, TypeOK
    <2>2. CASE Found(b, tries[b])
      <3>1. ASSUME NEW n, n = tries[b] PROVE Found(b, n)'
        BY <1>5, <2>1, <2>2, <3>1, FoundMore
      <3> QED BY <2>1, <3>1
    <2>3. CASE b = call.batch /\ CanDo(call) /\ Found(b, tries[b] - 1)
      <3>1. Root \in RootsOf(b)
        BY <1>1, <2>3 DEF RootsOf
      <3>2. Root \notin DOMAIN memo.results
        BY DEF Remembered
      <3>3. Root \in DOMAIN memo'.results
        BY <1>5, <2>3, <3>1 DEF CanDo, End, Stable
      <3>4. ASSUME NEW n \in Int, n = tries[b] - 1 PROVE Found(b, n + 1)'
        <4> HIDE DEF Search
        <4> QED BY <1>5, <2>3, <3>1, <3>2, <3>3, <3>4, FoundMore
      <3>5. ASSUME NEW m, m = tries[b] PROVE Found(b, m)'
        <4>1. m - 1 \in Int /\ m - 1 = tries[b] - 1 /\ (m - 1) + 1 = m
          BY <2>1, <3>5
        <4> QED BY <3>4, <4>1
      <3> QED BY <2>1, <3>5
    <2> QED BY <2>2, <2>3 DEF TriesFound
  <1> QED BY <1>6, <1>7, <1>8, NotReported

\* A call that can do does not fail.
LEMMA FailTells == Inv /\ Told /\ Fail => Told'
  <1> SUFFICES ASSUME Inv, Told, Fail PROVE Told'
    OBVIOUS
  <1> USE DEF Told, Fail, ToSearch
  <1>1. ~Reported' /\ at' = 0
    BY DEF Reported, Failure
  <1>2. ~CanDo(call)
    <2>1. Root \in RootsOf(call.batch)
      BY DEF RootsOf, Root, Unseen, InBatch
    <2> QED BY <2>1 DEF CanDo, End
  <1>3. TriesFound'
    BY <1>1, <1>2 DEF TriesFound, Found, Known
  <1> QED BY <1>1, <1>3 DEF CauseSoFar, DoneSoFar, CauseIsFirst, RetryPublishes

\* The memo of nobody holds nothing, and has been tried for nothing.
LEMMA ForgetTells == Inv /\ Told /\ Forget => Told'
  <1> SUFFICES ASSUME Inv, Told, Forget PROVE Told'
    OBVIOUS
  <1> USE DEF Told, Forget
  <1>1. CauseSoFar' /\ DoneSoFar'
    BY DEF CauseSoFar, DoneSoFar
  <1>2. TriesFound'
    <2> SUFFICES ASSUME NEW b \in Batches PROVE Found(b, tries[b])'
      BY DEF TriesFound
    <2>1. tries'[b] = 0 /\ Cardinality(RootsOf(b) \cap DOMAIN memo'.results) \in Nat
      BY KnownIs
    <2> QED BY <2>1 DEF Found, Known
  <1>3. CauseIsFirst'
    BY ReportStays
  <1>4. RetryPublishes'
    <2> SUFFICES ASSUME Reported, CanDo(call), tries'[call.batch] >= Cardinality(RootsOf(call.batch))
                 PROVE  report.cause = None
      BY DEF RetryPublishes, Reported, CanDo
    <2>1. call \in Calls
      BY DEF Reported
    <2>2. call.batch \in Batches
      BY <2>1 DEF Calls
    <2>3. tries'[call.batch] = 0 /\ Cardinality(RootsOf(call.batch)) \in Nat
      BY <2>2, KnownIs
    <2>4. tries[call.batch] \in Nat
      BY <2>2 DEF Inv, TypeOK
    <2>5. tries[call.batch] >= Cardinality(RootsOf(call.batch))
      BY <2>3, <2>4
    <2> QED BY <2>5 DEF RetryPublishes
  <1>5. Reported' => call' \in Calls
    BY DEF Reported
  <1> QED BY <1>1, <1>2, <1>3, <1>4, <1>5

\* What the report says of each root is what became of it.
LEMMA ReturnTells == Inv /\ Told /\ Return => Told'
  <1> SUFFICES ASSUME Inv, Told, Return PROVE Told'
    OBVIOUS
  <1> USE DEF Told
  <1>1. /\ at # 0 /\ at' = 0 /\ call' = call /\ late' = late /\ tries' = tries /\ memo' = memo
        /\ call \in Calls /\ call.batch \in Batches
        /\ DOMAIN call.batch = 1 .. Len(call.batch) /\ Len(call.batch) \in Nat
    BY AtRoot DEF Return, MemoKept, Inv, Calls
  <1>2. report'.cause = cause
    BY DEF Return
  <1>3. ASSUME NEW i \in DOMAIN call.batch
        PROVE  /\ i < at /\ call.batch[i] \in DOMAIN done
               /\ report'.roots[i].end = EndOf(i)
    <2>1. i < at
      BY <1>1, AtRoot DEF Return, InBatch, Inv, TypeOK
    <2>2. report'.roots[i].end = EndOf(i)
      BY DEF Return, Outcome, EndOf
    <2> QED BY <1>1, <2>1, <2>2 DEF Inv, Passed
  <1>4. cause = None => \A i \in DOMAIN call.batch : EndOf(i) \in Full
    BY <1>1, <1>3 DEF Inv, DoneRight, EndOf
  <1>5. CauseIsFirst'
    <2> DEFINE ends(i) == report'.roots[i].end
               before(i) == \A j \in 1 .. i - 1 : ends(j) \in {"Saturated", "Declined", "Memo"}
               from(i, as) == \A j \in DOMAIN call.batch :
                                j >= i => ends(j) \in {"Memo", as}
                                          \/ \E h \in 1 .. i : call.batch[h] = call.batch[j]
    <2>1. ASSUME NEW i \in DOMAIN call.batch, NEW end, NEW after, Withholds(i, end, after)
          PROVE  ends(i) = end /\ before(i) /\ from(i, after) /\ from(i + 1, after)
      <3>1. ends(i) = end
        BY <1>3, <2>1 DEF Withholds
      <3>2. before(i)
        <4> SUFFICES ASSUME NEW j \in 1 .. i - 1 PROVE ends(j) \in {"Saturated", "Declined", "Memo"}
          OBVIOUS
        <4>1. j \in DOMAIN call.batch
          BY <1>1
        <4> QED BY <1>3, <2>1, <4>1 DEF Withholds, Full
      <3>3. ASSUME NEW j \in DOMAIN call.batch
            PROVE  ends(j) \in {"Memo", after} \/ \E h \in 1 .. i : call.batch[h] = call.batch[j]
        BY <1>3, <2>1 DEF Withholds, EndOf
      <3>4. i \in Nat /\ 1 .. i \subseteq 1 .. (i + 1)
        BY <1>1
      <3>5. from(i, after)
        BY <3>3
      <3>6. from(i + 1, after)
        BY <3>3, <3>4
      <3> QED BY <3>1, <3>2, <3>5, <3>6
    <2>2. CASE cause = None
      <3>1. ~late
        BY <1>1, <2>2, NoneAssumption DEF CauseSoFar
      <3>2. before(Len(call.batch) + 1)
        BY <1>1, <1>3, <1>4, <2>2 DEF Full
      <3> HIDE DEF before
      <3>3. CauseIsFirst' = (Reported' => before(Len(call.batch) + 1))
        BY <1>1, <1>2, <2>2, <3>1, NoneAssumption DEF CauseIsFirst, before
      <3> QED BY <3>2, <3>3
    <2>3. CASE late
      <3>1. cause = "Stopped" /\ cause # None
        BY <1>1, <2>3, NoneAssumption DEF CauseSoFar
      <3>2. from(1, "Stopped")
        BY <1>1, <1>3, <2>3 DEF CauseSoFar, EndOf
      <3> HIDE DEF from
      <3>3. CauseIsFirst' = (Reported' => report'.cause = "Stopped" /\ from(1, "Stopped"))
        BY <1>1, <1>2, <2>3, <3>1 DEF CauseIsFirst, from
      <3> QED BY <1>2, <3>1, <3>2, <3>3
    <2>4. CASE cause = "Stopped" /\ ~late
      <3>1. PICK i \in DOMAIN call.batch : Withholds(i, "Stopped", "Stopped")
        BY <1>1, <2>4 DEF CauseSoFar
      <3>2. ends(i) = "Stopped" /\ before(i) /\ from(i, "Stopped")
        BY <2>1, <3>1
      <3>3. cause # None
        BY <2>4, NoneAssumption
      <3> HIDE DEF from, before, ends
      <3>4. CauseIsFirst' = (Reported' => \E j \in DOMAIN call.batch :
                                            ends(j) = "Stopped" /\ before(j) /\ from(j, "Stopped"))
        BY <1>1, <1>2, <2>4, <3>3 DEF CauseIsFirst, from, before, ends
      <3> QED BY <3>2, <3>4
    <2>5. CASE cause = "IterationCap" /\ ~late
      <3>1. PICK i \in DOMAIN call.batch : Withholds(i, "IterationCap", "Skipped")
        BY <1>1, <2>5 DEF CauseSoFar
      <3>2. ends(i) = "IterationCap" /\ before(i) /\ from(i + 1, "Skipped")
        BY <2>1, <3>1
      <3>3. cause # None /\ cause # "Stopped"
        BY <2>5, NoneAssumption
      <3> HIDE DEF from, before, ends
      <3>4. CauseIsFirst' = (Reported' => \E j \in DOMAIN call.batch :
                                            ends(j) = "IterationCap" /\ before(j) /\ from(j + 1, "Skipped"))
        BY <1>1, <1>2, <2>5, <3>3 DEF CauseIsFirst, from, before, ends
      <3> QED BY <3>2, <3>4
    <2> QED BY <2>2, <2>3, <2>4, <2>5 DEF Inv, TypeOK
  <1>6. ASSUME cause = None PROVE RootsOf(call.batch) \subseteq DOMAIN memo.results
    <2> SUFFICES ASSUME NEW i \in DOMAIN call.batch PROVE call.batch[i] \in DOMAIN memo.results
      BY DEF RootsOf
    <2> QED BY <1>1, <1>3, <1>4, <1>6 DEF DoneSoFar, EndOf
  <1>7. TriesFound'
    BY <1>1, <1>6 DEF TriesFound, Found, Known
  <1>8. RetryPublishes'
    <2> SUFFICES ASSUME CanDo(call), tries[call.batch] >= Cardinality(RootsOf(call.batch)), cause # None
                 PROVE  FALSE
      BY <1>1, <1>2 DEF RetryPublishes, CanDo
    <2>1. \E r \in RootsOf(call.batch) : r \notin DOMAIN memo.results
      <3>1. ~late
        BY <1>1 DEF CauseSoFar, CanDo
      <3>2. \E i \in DOMAIN call.batch : call.batch[i] \notin DOMAIN memo.results
        BY <1>1, <3>1 DEF Inv, TypeOK, CauseSoFar, Withholds
      <3> QED BY <3>2 DEF RootsOf
    <2>2. Found(call.batch, tries[call.batch]) /\ tries[call.batch] \in Nat
      BY <1>1 DEF TriesFound, Inv, TypeOK
    <2>3. tries[call.batch] <= Cardinality(Known(call.batch))
      BY <2>1, <2>2 DEF Found
    <2>4. Cardinality(RootsOf(call.batch)) \in Nat
      BY <1>1, KnownIs
    <2>5. /\ Cardinality(Known(call.batch)) \in Nat
          /\ Cardinality(Known(call.batch)) <= Cardinality(RootsOf(call.batch))
          /\ Cardinality(Known(call.batch)) = Cardinality(RootsOf(call.batch)) =>
               RootsOf(call.batch) \subseteq DOMAIN memo.results
      BY <1>1, KnownIs DEF Known
    <2> QED BY <2>1, <2>2, <2>3, <2>4, <2>5
  <1> QED BY <1>1, <1>5, <1>7, <1>8 DEF CauseSoFar, DoneSoFar

\* The step of a stop keeps what is told: a call that can do is stopped only after it
\* searched something.
LEMMA OutTells == Inv /\ Told /\ (OutOfBudget \/ OutOfTime) => Told'
  <1> SUFFICES ASSUME Inv, Told, OutOfBudget \/ OutOfTime PROVE Told'
    OBVIOUS
  <1>1. CASE OutOfBudget
    <2>1. ToSearch /\ Need > Left /\ Stop(Limit(call, allowance))
      BY <1>1 DEF OutOfBudget
    <2>2. ASSUME CanDo(call) PROVE spent # 0
      <3>1. Root \in RootsOf(call.batch)
        BY <2>1 DEF ToSearch, RootsOf, Root, Unseen, InBatch
      <3>2. Need <= call.perCall /\ Limit(call, allowance) = call.perCall
        BY <2>2, <3>1 DEF CanDo, Need, Limit
      <3>3. Need \in Nat /\ call.perCall \in Nat
        BY <2>1, AtRoot, SearchIs, CallIs DEF Inv, ToSearch, Unseen, Need
      <3> QED BY <2>1, <3>2, <3>3 DEF Left
    <2> QED BY <2>1, <2>2, StopTells
  <1>2. CASE OutOfTime
    <2>1. PICK n \in 0 .. Left : Stop(spent + n)
      BY <1>2 DEF OutOfTime
    <2>2. ToSearch /\ ~CanDo(call)
      BY <1>2 DEF OutOfTime, CanDo
    <2> QED BY <2>1, <2>2, StopTells
  <1> QED BY <1>1, <1>2

\* What is told always holds.
LEMMA ToldAlways == Spec => []Told
  <1>1. Init => Told
    <2> SUFFICES ASSUME Init PROVE Told
      OBVIOUS
    <2>1. at = 0 /\ ~Reported
      BY DEF Init, Reported, NoReport
    <2>2. TriesFound
      <3> SUFFICES ASSUME NEW b \in Batches PROVE Found(b, tries[b])
        BY DEF TriesFound
      <3>1. tries[b] = 0 /\ Cardinality(RootsOf(b) \cap DOMAIN memo.results) \in Nat
        BY KnownIs DEF Init
      <3> QED BY <3>1 DEF Found, Known
    <2> QED BY <2>1, <2>2 DEF Told, CauseSoFar, DoneSoFar, CauseIsFirst, RetryPublishes
  <1>2. Inv /\ Told /\ [Next]_vars => Told'
    <2> SUFFICES ASSUME Inv, Told, [Next]_vars PROVE Told'
      OBVIOUS
    <2>1. CASE UNCHANGED vars
      <3>1. CauseIsFirst'
        BY <2>1, ReportStays DEF vars, historyVars, Told
      <3> QED BY <2>1, <3>1 DEF vars, historyVars, Told, CauseSoFar, Withholds, EndOf, DoneSoFar, TriesFound,
                Found, Known, RetryPublishes, Reported, CanDo
    <2>2. CASE Next
      BY <2>2, BeginTells, RepeatedTells, FromMemoTells, NotSearchedTells, SearchTells, OutTells,
         FailTells, ReturnTells, ForgetTells DEF Next
    <2> QED BY <2>1, <2>2
  <1> QED BY <1>1, <1>2, InvAlways, PTL DEF Spec


-----------------------------------------------------------------------------
(* The theorems. *)

\* The search's variables, its memo and its meter always have their types; in particular
\* a call never spends past its limit.
THEOREM TypeCorrect == Spec => []TypeOK
  <1>1. Inv => TypeOK
    BY DEF Inv
  <1> QED BY <1>1, InvAlways, PTL

\* The memo never serves a search that was cut short, or another saturator's.
THEOREM MemoAlwaysRight == Spec => []MemoRight
  <1>1. Inv => MemoRight
    BY DEF Inv
  <1> QED BY <1>1, InvAlways, PTL

\* A batch is published whole and right, or shows nothing.
THEOREM AlwaysAllOrNothing == Spec => []AllOrNothing
  <1>1. Inv => AllOrNothing
    BY DEF Inv
  <1> QED BY <1>1, InvAlways, PTL

\* No call, failed ones included, escapes the allowance.
THEOREM AllowanceAlwaysPays == Spec => []AllowancePaysForSearch
  <1>1. Inv => AllowancePaysForSearch
    BY DEF Inv
  <1> QED BY <1>1, InvAlways, PTL

\* The cause reported is the first one met, and nothing is searched after it.
THEOREM CauseAlwaysFirst == Spec => []CauseIsFirst
  <1>1. Told => CauseIsFirst
    BY DEF Told
  <1> QED BY <1>1, ToldAlways, PTL

\* A batch is published by its last distinct root's try at the latest, when each root
\* alone fits the budget.
THEOREM RetryAlwaysPublishes == Spec => []RetryPublishes
  <1>1. Told => RetryPublishes
    BY DEF Told
  <1> QED BY <1>1, ToldAlways, PTL
=============================================================================
