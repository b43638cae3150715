----------------------------- MODULE SearchBatch -----------------------------
(***************************************************************************)
(* Searching a batch of roots by equality saturation (`search' of          *)
(* eqsat/mod.rs): the budget the roots share, when the batch's candidates  *)
(* are published, and the memo the context keeps for one saturator at a    *)
(* time.                                                                   *)
(*                                                                         *)
(* A root is searched in a graph of its own (modules EGraph and Extract):  *)
(* how that ends with enough budget, the candidate it finds and what it    *)
(* charges are constants of the saturator and the root.  One of the        *)
(* budget's two counters is kept; both are charged by ones.                *)
(***************************************************************************)
EXTENDS Integers, Sequences, FiniteSets

CONSTANTS
  Exprs,       \* roots and candidates
  Batches,     \* the sequences of roots a call can be given
  Saturators,
  Ending,      \* how a saturator's search of a root ends when nothing stops it
  Candidate,   \* the cheaper expression it finds, or None
  Cost,        \* what it charges
  PerCalls,    \* budgets a call can have
  Allowance,   \* what the calls can spend together
  MaxCalls,    \* bound: calls
  None

Endings == {"Saturated", "IterationCap", "Declined", "Contract"}

ASSUME BatchesAssumption == Batches \subseteq Seq(Exprs)
ASSUME NoneAssumption == None \notin Exprs \cup Saturators \cup {"Stopped", "IterationCap"}
ASSUME SearchesAssumption ==
  /\ Ending \in [Saturators -> [Exprs -> Endings]]
  /\ Candidate \in [Saturators -> [Exprs -> Exprs \cup {None}]]
  /\ Cost \in [Saturators -> [Exprs -> Nat]]
ASSUME DeclinesAssumption ==
  \A s \in Saturators, r \in Exprs :
    Ending[s][r] = "Declined" => Candidate[s][r] = None /\ Cost[s][r] = 0
ASSUME BudgetsAssumption == PerCalls \subseteq Nat /\ Allowance \in Nat /\ MaxCalls \in Nat

VARIABLES
  memo,       \* the context's: whose results it holds, and those of roots
  call,       \* the saturator, batch, per-call budget, whether it has a deadline
              \* and whether it draws on the allowance
  at,         \* the root of the batch to look at next; 0 between calls
  done,       \* what became of the roots so far
  cause,      \* why the batch is withheld, or None
  spent,      \* the meter
  allowance,  \* what is left to the calls
  report,     \* what the last call returned
  late,       \* whether the deadline was seen to have passed before the batch
  calls,      \* bound: calls begun
  owed,       \* history: what the calls on the allowance charged
  tries       \* history: calls on a batch that could do, since the memo was empty

historyVars == <<late, calls, owed, tries>>
vars == <<memo, call, at, done, cause, spent, allowance, report, historyVars>>

Outcome(candidate, end) == [candidate |-> candidate, end |-> end]
Calls == [by : Saturators, batch : Batches, perCall : PerCalls, deadline : BOOLEAN, paid : BOOLEAN]

NoReport == [kind |-> "none", cause |-> None, roots |-> <<>>]
Failure == [kind |-> "error", cause |-> None, roots |-> <<>>]

NoResults == [r \in {} |-> None]
Put(f, r, o) == [q \in DOMAIN f \cup {r} |-> IF q = r THEN o ELSE f[q]]
RootsOf(b) == {b[i] : i \in DOMAIN b}

Init ==
  /\ memo = [of |-> None, results |-> NoResults]
  /\ call = None /\ at = 0 /\ done = NoResults /\ cause = None /\ spent = 0
  /\ allowance = Allowance /\ report = NoReport
  /\ late = FALSE /\ calls = 0 /\ owed = 0
  /\ tries = [b \in Batches |-> 0]

-----------------------------------------------------------------------------
\* What a call may spend.
\* An error: its own budget, whatever is left of the allowance.
PerCall(c, left) == c.perCall
Limit(c, left) == IF c.paid /\ left < c.perCall THEN left ELSE c.perCall

\* The memo as saturator s finds it.
\* An error: as another saturator left it.
AnyMemo(s) == memo
MemoFor(s) == IF memo.of = s THEN memo ELSE [of |-> s, results |-> NoResults]

\* A call that is stopped by nothing but its own budget, which each root fits in.
CanDo(c) ==
  /\ ~c.deadline /\ ~c.paid
  /\ \A r \in RootsOf(c.batch) : /\ Ending[c.by][r] \in {"Saturated", "Declined"}
                                 /\ Cost[c.by][r] <= c.perCall

\* A deadline already passed withholds the batch.
Begin ==
  /\ at = 0 /\ calls < MaxCalls
  /\ \E c \in Calls :
       /\ call' = c
       /\ memo' = MemoFor(c.by)
       /\ late' \in {FALSE, c.deadline}
       /\ cause' = IF late' THEN "Stopped" ELSE None
       /\ tries' = [b \in Batches |-> (IF memo.of = c.by THEN tries[b] ELSE 0)
                                       + (IF b = c.batch /\ CanDo(c) THEN 1 ELSE 0)]
  /\ at' = 1 /\ done' = NoResults /\ spent' = 0 /\ report' = NoReport
  /\ calls' = calls + 1
  /\ UNCHANGED <<allowance, owed>>

InBatch == at \in DOMAIN call.batch
Root == call.batch[at]
Unseen == InBatch /\ Root \notin DOMAIN done

Settle(candidate, end) == done' = Put(done, Root, Outcome(candidate, end))

Repeated ==
  /\ at # 0 /\ InBatch /\ Root \in DOMAIN done
  /\ at' = at + 1
  /\ UNCHANGED <<memo, call, done, cause, spent, allowance, report, historyVars>>

Remembered == Root \in DOMAIN memo.results

FromMemo ==
  /\ at # 0 /\ Unseen /\ Remembered
  /\ Settle(memo.results[Root].candidate, "Memo")
  /\ at' = at + 1
  /\ UNCHANGED <<memo, call, cause, spent, allowance, report, historyVars>>

\* Nothing more is searched once publication is withheld.
\* An error: a search at its iteration cap does not keep the next from being made.
StoppedOnly == cause = "Stopped"
Withheld == cause # None

NotSearched ==
  /\ at # 0 /\ Unseen /\ ~Remembered /\ Withheld
  /\ Settle(None, IF cause = "Stopped" THEN "Stopped" ELSE "Skipped")
  /\ at' = at + 1
  /\ UNCHANGED <<memo, call, cause, spent, allowance, report, historyVars>>

ToSearch == at # 0 /\ Unseen /\ ~Remembered /\ ~Withheld
End == Ending[call.by][Root]
Need == Cost[call.by][Root]
Left == Limit(call, allowance) - spent

\* Stable outcomes are remembered, withheld or not.
\* An error: a search cut off at its iteration cap is, too.
EveryEnd(end) == TRUE
Stable(end) == end \in {"Saturated", "Declined"}

Search ==
  /\ ToSearch /\ Need <= Left /\ End # "Contract"
  /\ spent' = spent + Need
  /\ Settle(Candidate[call.by][Root], End)
  /\ cause' = IF End = "IterationCap" THEN End ELSE cause
  /\ memo' = IF Stable(End)
             THEN [of |-> memo.of,
                   results |-> Put(memo.results, Root, Outcome(Candidate[call.by][Root], End))]
             ELSE memo
  /\ at' = at + 1
  /\ UNCHANGED <<call, allowance, report, historyVars>>

\* A charge the limit does not cover, or that finds the deadline passed.
Stop(after) ==
  /\ spent' = after
  /\ Settle(None, "Stopped")
  /\ cause' = "Stopped"
  /\ at' = at + 1
  /\ UNCHANGED <<memo, call, allowance, report, historyVars>>
OutOfBudget == ToSearch /\ Need > Left /\ Stop(Limit(call, allowance))
OutOfTime ==
  /\ ToSearch /\ call.deadline
  /\ \E n \in 0 .. Left : n < Need /\ Stop(spent + n)

\* What a call owes is paid, however it ends.
Pay(after) ==
  /\ allowance' = IF call.paid THEN allowance - after ELSE allowance
  /\ owed' = IF call.paid THEN owed + after ELSE owed
\* An error: a call that fails is free.
PayNothing(after) ==
  /\ UNCHANGED allowance
  /\ owed' = IF call.paid THEN owed + after ELSE owed
PayFailed(after) == Pay(after)

\* An error (a contract an unsound identity violates, an arena that is full) ends the
\* call; what was remembered before stays.
Fail ==
  /\ ToSearch /\ Need <= Left /\ End = "Contract"
  /\ spent' = spent + Need
  /\ PayFailed(spent')
  /\ report' = Failure
  /\ at' = 0
  /\ UNCHANGED <<memo, call, done, cause, late, calls, tries>>

\* An error: each root shows its candidate, though another withheld the batch.
ShownAlone(o) == o.candidate
Shown(o) == IF cause = None THEN o.candidate ELSE None

\* An error: a withheld batch leaves nothing in the memo.
MemoIfPublished == IF cause = None THEN memo ELSE [memo EXCEPT !.results = NoResults]
MemoKept == memo

Return ==
  /\ at # 0 /\ ~InBatch
  /\ report' = [kind |-> "report", cause |-> cause,
                roots |-> [i \in DOMAIN call.batch |->
                             LET o == done[call.batch[i]] IN Outcome(Shown(o), o.end)]]
  /\ Pay(spent)
  /\ at' = 0
  /\ memo' = MemoKept
  /\ UNCHANGED <<call, done, cause, spent, late, calls, tries>>

\* The context is cleared, or a symbol's known bits are declared.
Forget ==
  /\ at = 0 /\ memo.of # None
  /\ memo' = [of |-> None, results |-> NoResults]
  /\ tries' = [b \in Batches |-> 0]
  /\ UNCHANGED <<call, at, done, cause, spent, allowance, report, late, calls, owed>>

Next ==
  \/ Begin \/ Repeated \/ FromMemo \/ NotSearched
  \/ Search \/ OutOfBudget \/ OutOfTime \/ Fail
  \/ Return \/ Forget

Spec == Init /\ [][Next]_vars

-----------------------------------------------------------------------------
(* Properties. *)

Outcomes ==
  [candidate : Exprs \cup {None},
   end : {"Saturated", "IterationCap", "Declined", "Memo", "Stopped", "Skipped"}]

IsResults(f) == DOMAIN f \subseteq Exprs /\ \A r \in DOMAIN f : f[r] \in Outcomes

TypeOK ==
  /\ memo.of \in Saturators \cup {None} /\ IsResults(memo.results)
  /\ call \in Calls \cup {None} /\ (at # 0 => call \in Calls)
  /\ at \in Nat
  /\ IsResults(done)
  /\ cause \in {None, "Stopped", "IterationCap"}
  /\ spent \in Nat /\ allowance \in 0 .. Allowance
  /\ at # 0 => spent <= Limit(call, allowance)
  /\ late \in BOOLEAN /\ calls \in 0 .. MaxCalls /\ owed \in Nat
  /\ tries \in [Batches -> Nat]

\* The memo holds what the saturator it is for would find with an unlimited budget, and
\* only searches that ended: whoever asks next is served nothing cut short, and nothing
\* of another saturator's.
MemoRight ==
  \A r \in DOMAIN memo.results :
    /\ memo.of # None
    /\ Ending[memo.of][r] \in {"Saturated", "Declined"}
    /\ memo.results[r] = Outcome(Candidate[memo.of][r], Ending[memo.of][r])

Reported == report.kind = "report"

\* A batch is published whole, each root with the candidate it would have alone (however
\* it is repeated, remembered, or what its batch-mates are), or shows no candidate at all.
AllOrNothing ==
  Reported =>
    \A i \in DOMAIN call.batch :
      report.roots[i].candidate =
        IF report.cause = None THEN Candidate[call.by][call.batch[i]] ELSE None

\* The cause reported is the first: no root before it was stopped or cut off, and none
\* after it is searched, so the rest of the batch spends nothing.
CauseIsFirst ==
  Reported =>
    LET ends(i) == report.roots[i].end
        First(i) == \A j \in 1 .. i - 1 : ends(j) \in {"Saturated", "Declined", "Memo"}
        After(i, as) == \A j \in DOMAIN call.batch :
                          j >= i => ends(j) \in {"Memo", as} \/ \E h \in 1 .. i :
                                                                  call.batch[h] = call.batch[j]
    IN  CASE report.cause = None -> First(Len(call.batch) + 1)
          [] late -> report.cause = "Stopped" /\ After(1, "Stopped")
          [] report.cause = "Stopped" /\ ~late ->
               \E i \in DOMAIN call.batch :
                 ends(i) = "Stopped" /\ First(i) /\ After(i, "Stopped")
          [] report.cause = "IterationCap" ->
               \E i \in DOMAIN call.batch :
                 ends(i) = "IterationCap" /\ First(i) /\ After(i + 1, "Skipped")

\* A batch too large for one call is published in the end by asking again: each call whose
\* budget covers every single root gets at least one root further, for what a withheld
\* call found is remembered.
RetryPublishes ==
  Reported /\ CanDo(call) /\ tries[call.batch] >= Cardinality(RootsOf(call.batch))
    => report.cause = None

\* The allowance pays for what every call charged, failed and withheld ones included,
\* and no call spends more than is left of it.
AllowancePaysForSearch == allowance = Allowance - owed /\ owed <= Allowance
=============================================================================
