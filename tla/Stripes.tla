------------------------------ MODULE Stripes ------------------------------
(* Enumerating every assignment of a goal on several threads: `stripes' of    *)
(* prove/sample_words/exhaust.rs with its two users, `exhaust' there and the  *)
(* check of an exhaustion certificate (prove/exhaustion.rs).                  *)
(*                                                                            *)
(* Evaluating the goal at an assignment changes nothing and is a set, fails;  *)
(* a stripe's blocks are looked through in order, in one step.  The atomics   *)
(* are read and written in one step each; being relaxed costs nothing more,   *)
(* as each is read alone and the results are read after the threads joined.   *)
EXTENDS Integers, FiniteSets

CONSTANTS
    Threads,  \* the calling thread and those it may start
    Main,     \* the calling thread
    Total,    \* how many assignments there are
    Stripe    \* how many are claimed at a time

ASSUME SizesAssumption == Total \in Nat /\ Stripe \in Nat \ {0}
ASSUME ThreadsAssumption == Main \in Threads

VARIABLES
    user,   \* who enumerates: "exhaust", or the check of a "certificate"
    fails,  \* the assignments at which the goal fails
    next,   \* the next assignment nobody has claimed
    first,  \* the failure recorded so far
    pc,     \* what each thread is doing
    base,   \* where its stripe starts
    found,  \* the failure it found in its stripe
    result  \* what the call reports

vars == <<user, fails, next, first, pc, base, found, result>>

Assignments == 0 .. (Total - 1)
NoFailure == Total  \* stands for u64::MAX: larger than every index
Unknown == -1

Working == {"look", "scan", "record"}

Init ==
    /\ user \in {"exhaust", "certificate"}
    /\ fails \in SUBSET Assignments
    /\ next = 0 /\ first = NoFailure
    /\ pc = [t \in Threads |-> IF t = Main THEN "spawn" ELSE "unstarted"]
    /\ base = [t \in Threads |-> 0]
    /\ found = [t \in Threads |-> NoFailure]
    /\ result = Unknown

Goto(t, l) == pc' = [pc EXCEPT ![t] = l]

\* The calling thread starts the others one after the other ...
Spawn ==
    /\ pc[Main] = "spawn"
    /\ \E t \in Threads : pc[t] = "unstarted" /\ Goto(t, "claim")
    /\ UNCHANGED <<user, fails, next, first, base, found, result>>

\* ... until one cannot be started or there are as many as there are to be, and then
\* works too.
\* An error: the calling thread leaves the work to the others.
JoinIdle ==
    /\ pc[Main] = "spawn"
    /\ Goto(Main, "done")
    /\ UNCHANGED <<user, fails, next, first, base, found, result>>
Join ==
    /\ pc[Main] = "spawn"
    /\ Goto(Main, "claim")
    /\ UNCHANGED <<user, fails, next, first, base, found, result>>

\* fetch_add: a stripe of its own, or the end.
Claim(t) ==
    /\ pc[t] = "claim"
    /\ next' = next + Stripe
    /\ base' = [base EXCEPT ![t] = next]
    /\ Goto(t, IF next >= Total THEN "done" ELSE "look")
    /\ UNCHANGED <<user, fails, first, found, result>>

\* Whether a stripe from b on is skipped, the failure f being recorded: `exhaust' goes on
\* below it, a certificate's check is content with any.
\* An error: `exhaust' is content with any, too.
SkipAny(b, f) == f # NoFailure
Skip(b, f) == IF user = "certificate" THEN f # NoFailure ELSE b >= f

Look(t) ==
    /\ pc[t] = "look"
    /\ Goto(t, IF Skip(base[t], first) THEN "claim" ELSE "scan")
    /\ UNCHANGED <<user, fails, next, first, base, found, result>>

\* The failures of the stripe from b on.
In(b) == {i \in fails : b <= i /\ i < b + Stripe}

Scan(t) ==
    /\ pc[t] = "scan"
    /\ IF In(base[t]) = {}
       THEN Goto(t, "claim") /\ UNCHANGED found
       ELSE /\ Goto(t, "record")
            /\ \E i \in In(base[t]) :
                  /\ \A j \in In(base[t]) : i <= j
                  /\ found' = [found EXCEPT ![t] = i]
    /\ UNCHANGED <<user, fails, next, first, base, result>>

\* fetch_min.
Smaller(f, i) == IF i < f THEN i ELSE f
Record(t) ==
    /\ pc[t] = "record"
    /\ first' = Smaller(first, found[t])
    /\ Goto(t, "claim")
    /\ UNCHANGED <<user, fails, next, base, found, result>>

\* The scope ends when every thread it started has ended.
\* An error: every thread it was to start.
AllEnded == \A t \in Threads : pc[t] = "done"
Ended == \A t \in Threads : pc[t] \in {"done", "unstarted"}

Return ==
    /\ result = Unknown
    /\ pc[Main] = "done"
    /\ Ended
    /\ result' = first
    /\ UNCHANGED <<user, fails, next, first, pc, base, found>>

Work(t) == Claim(t) \/ Look(t) \/ Scan(t) \/ Record(t)
Next == Spawn \/ Join \/ (\E t \in Threads : Work(t)) \/ Return

\* The calling thread and the threads it started run.
Spec == Init /\ [][Next]_vars
             /\ WF_vars(Spawn \/ Join \/ Return) /\ \A t \in Threads : WF_vars(Work(t))

(* Properties. *)

TypeOK ==
    /\ user \in {"exhaust", "certificate"}
    /\ fails \subseteq Assignments
    /\ next \in Nat
    /\ first \in fails \cup {NoFailure}
    /\ pc \in [Threads -> Working \cup {"unstarted", "spawn", "claim", "done"}]
    /\ base \in [Threads -> Nat]
    /\ found \in [Threads -> fails \cup {NoFailure}]
    /\ result \in fails \cup {NoFailure, Unknown}

\* Whatever the threads and the order they work in, a goal is reported to hold only if no
\* assignment makes it fail, and a failure reported is one.
VerdictRight ==
    result # Unknown => \/ result = NoFailure /\ fails = {}
                        \/ result \in fails

\* `exhaust' reports the first failing assignment in enumeration order, independently of
\* the thread count (the documentation of the module): stripes claimed later finish
\* first, and those above the recorded failure are skipped.
FirstFailureReported ==
    user = "exhaust" /\ result # Unknown => \A i \in fails : result <= i

\* What is reported is right, whatever the threads: the verdict of both users, and which
\* failure `exhaust' names.
ReportRight == VerdictRight /\ FirstFailureReported

\* The enumeration ends, with a report, though threads may never be started.
Ends == <>(result # Unknown)
=============================================================================
