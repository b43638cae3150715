--------------------------- MODULE EngineRunProofs ---------------------------
(***************************************************************************)
(* Proofs about EngineRun, for any roots, rewrites, sharing and budgets.   *)
(* The argument: the results that are not final wait in the queue or among *)
(* the provisional ones (Owed), each with the version it was reached at,   *)
(* and while that is still the version, what kept it back is among the     *)
(* live roots (StillKeptBack).  A round that changes nothing leaves none   *)
(* of an earlier version.  Positions wait in order, so each is done again  *)
(* at most once a round, from a result counted as completed, which is what *)
(* the statistics take back.                                               *)
(***************************************************************************)
EXTENDS EngineRun, FiniteSetTheorems, TLAPS

Modes == {"idle", "roots", "work", "rounds", "queue", "again", "returned"}
Outcomes == [to : Forms, end : Ends, rel : SUBSET Constraints]
Counts(Changes) == [Ends -> [Changes -> Int]]
Entries == [at : Nat, seen : Nat]

TypeOK ==
  /\ mode \in Modes
  /\ batch \in Seq(Forms) /\ live \in Seq(Forms) /\ done \in Seq(Outcomes)
  /\ provisional \in Seq(Entries) /\ queue \in Seq(Entries)
  /\ active \in Nat /\ version \in Nat /\ round \in Nat /\ changed \in BOOLEAN
  /\ mode \in {"work", "again"} => cur \in Forms
  /\ rel \subseteq Constraints
  /\ stats \in Counts(BOOLEAN)
  /\ late \in BOOLEAN /\ failed \in BOOLEAN
  /\ limit \in Nat /\ spent \in Nat /\ allowance \in Nat /\ calls \in Nat /\ worked \in Nat

\* The roots, what became of them and what is live go together.
Shape ==
  /\ Len(live) = Len(Asked) /\ Len(done) <= Len(Asked)
  /\ \A i \in DOMAIN live : live[i] = IF i \in DOMAIN done THEN done[i].to ELSE Asked[i]
  /\ mode = "roots" => active = Len(done) + 1
  /\ mode = "work" => active = Len(done) + 1 /\ active <= Len(Asked)
  /\ mode \in {"roots", "work"} => queue = <<>> /\ round = 0
  /\ mode \in {"roots", "work", "queue", "again"} => ~failed
  /\ mode \in {"queue", "again", "rounds", "returned"} /\ ~failed => Len(done) = Len(Asked)
  /\ mode = "rounds" /\ ~failed => queue = <<>>
  /\ mode = "again" => queue # <<>> /\ active = Head(queue).at

\* What the calls may still spend.
Purse ==
  /\ spent <= limit
  /\ mode \in {"idle", "returned"} => allowance = Allowance - worked
  /\ mode \notin {"idle", "returned"} => limit <= allowance /\ allowance = Allowance - (worked - spent)

\* The form reached is equal to what the strategy started from.
OnTheWay ==
  /\ mode = "work" => Equal(Asked[active], cur, rel)
  /\ mode = "again" => Equal(done[active].to, cur, rel)

\* Positions wait in order, each of a result counted as completed.
InOrder(s) == \A j, k \in DOMAIN s : j < k => s[j].at < s[k].at
WaitInOrder ==
  /\ InOrder(provisional) /\ InOrder(queue)
  /\ \A j \in DOMAIN provisional, k \in DOMAIN queue : provisional[j].at < queue[k].at

Entry(e) == (\E j \in DOMAIN provisional : e = provisional[j]) \/ (\E k \in DOMAIN queue : e = queue[k])
OfCompleted(e) == e.at \in DOMAIN done /\ done[e.at].end = "completed"
Sharing(i) == KeptBackBy[done[i].to] \cap {live[j] : j \in DOMAIN live \ {i}} # {}
StillKeptBack(e) == e.seen <= version /\ (e.seen = version => Sharing(e.at))
EntriesRight == \A e \in Entries : Entry(e) => OfCompleted(e) /\ StillKeptBack(e)

\* Every completed result that is not final waits, and shares with another root.
Owed ==
  \A i \in DOMAIN done :
    done[i].end = "completed" /\ ~Final(done[i].to) =>
      Len(live) > 1 /\ \E e \in Entries : Entry(e) /\ e.at = i

\* A round that changed nothing so far has left none of an earlier version.
RoundUnchanged ==
  (mode \in {"queue", "again"} \/ (mode = "rounds" /\ round > 0)) /\ ~changed =>
    \A j \in DOMAIN provisional : provisional[j].seen = version

Inv ==
  /\ TypeOK /\ Shape /\ Purse /\ OnTheWay
  /\ WaitInOrder /\ EntriesRight /\ Owed /\ RoundUnchanged
  /\ SettledTogether /\ ReliesOnEnough /\ StatsAddUp

-----------------------------------------------------------------------------
(* Operators. *)

\* Each k up to the number of first places of a batch is the rank of one, so
\* the distinct roots are roots.
LEMMA DistinctRoots ==
  ASSUME NEW b \in Seq(Forms)
  PROVE  Distinct(b) \in Seq(Forms)
  <1> DEFINE firsts == {i \in DOMAIN b : \A j \in 1 .. i - 1 : b[j] # b[i]}
             upTo(i) == {j \in firsts : j <= i}
             n == Cardinality(firsts)
             At(k) == CHOOSE i \in firsts : Cardinality(upTo(i)) = k
             rank == [i \in firsts |-> Cardinality(upTo(i))]
  <1>1. firsts \subseteq 1 .. Len(b) /\ Len(b) \in Nat
    OBVIOUS
  <1>2. IsFiniteSet(firsts)
    <2>1. IsFiniteSet(1 .. Len(b))
      BY <1>1, FS_Interval
    <2> HIDE DEF firsts
    <2> QED BY <1>1, <2>1, FS_Subset
  <1>3. n \in Nat /\ IsFiniteSet(1 .. n) /\ Cardinality(1 .. n) = n
    <2>1. n \in Nat
      BY <1>2, FS_CardinalityType
    <2> HIDE DEF n
    <2> QED BY <2>1, FS_Interval
  <1> HIDE DEF firsts
  <1>4. ASSUME NEW i \in firsts
        PROVE  /\ IsFiniteSet(upTo(i)) /\ upTo(i) \subseteq firsts /\ i \in upTo(i)
               /\ Cardinality(upTo(i)) \in 1 .. n
    <2>1. upTo(i) \subseteq firsts /\ i \in upTo(i)
      BY <1>1
    <2>2. IsFiniteSet(upTo(i)) /\ Cardinality(upTo(i)) <= n
      BY <1>2, <2>1, FS_Subset
    <2>3. Cardinality(upTo(i)) \in Nat /\ Cardinality(upTo(i)) # 0
      <3> HIDE DEF upTo
      <3> QED BY <2>1, <2>2, FS_CardinalityType, FS_EmptySet
    <2> HIDE DEF upTo
    <2> QED BY <1>3, <2>1, <2>2, <2>3
  <1>5. ASSUME NEW i \in firsts, NEW j \in firsts, i < j
        PROVE  Cardinality(upTo(i)) # Cardinality(upTo(j))
    <2>0. i \in Int /\ j \in Int /\ \A m \in firsts : m \in Int
      BY <1>1
    <2>1. upTo(i) \subseteq upTo(j) /\ j \notin upTo(i)
      <3>1. \A m \in firsts : m <= i => m <= j
        BY <1>5, <2>0
      <3>2. ~ (j <= i)
        BY <1>5, <2>0
      <3> QED BY <3>1, <3>2
    <2>2. upTo(i) # upTo(j)
      BY <1>4, <2>1
    <2> HIDE DEF upTo
    <2> QED BY <1>4, <2>1, <2>2, FS_Subset
  <1>6. rank \in Injection(firsts, 1 .. n)
    <2>1. rank \in [firsts -> 1 .. n]
      BY <1>4
    <2>2. ASSUME NEW i \in firsts, NEW j \in firsts, rank[i] = rank[j] PROVE i = j
      <3>1. i \in Int /\ j \in Int
        BY <1>1
      <3>2. Cardinality(upTo(i)) = Cardinality(upTo(j))
        BY <2>2
      <3>3. ~ (i < j) /\ ~ (j < i)
        BY <1>5, <3>2
      <3> QED BY <3>1, <3>3
    <2> QED BY <2>1, <2>2 DEF Injection, IsInjective
  <1>7. rank \in Surjection(firsts, 1 .. n)
    <2> HIDE DEF rank
    <2> QED BY <1>2, <1>3, <1>6, FS_Injection
  <1>8. ASSUME NEW k \in 1 .. n PROVE At(k) \in firsts
    <2>1. \E i \in firsts : rank[i] = k
      BY <1>7 DEF Surjection
    <2>2. \E i \in firsts : Cardinality(upTo(i)) = k
      BY <2>1
    <2> QED BY <2>2
  <1>9. ASSUME NEW k \in 1 .. n PROVE b[At(k)] \in Forms
    <2>1. \A i \in firsts : b[i] \in Forms
      BY <1>1
    <2> HIDE DEF At
    <2> QED BY <1>8, <2>1
  <1>10. Distinct(b) = [k \in 1 .. n |-> b[At(k)]]
    BY DEF Distinct, firsts
  <1>11. [k \in 1 .. n |-> b[At(k)]] \in [1 .. n -> Forms]
    <2> HIDE DEF At, n
    <2> QED BY <1>9
  <1> HIDE DEF n, At
  <1> QED BY <1>3, <1>10, <1>11

\* Agreement is reflexive, chains, and is kept under more constraints.
LEMMA EqualChains ==
  /\ \A f, r : Equal(f, f, r)
  /\ \A f, g, h, r, s : Equal(f, g, r) /\ Equal(g, h, s) => Equal(f, h, r \cup s)
  /\ \A f, g, r, s : Equal(f, g, r) /\ r \subseteq s => Equal(f, g, s)
  BY DEF Equal

\* What counting one more changes.
LEMMA CountedOnce ==
  ASSUME NEW B, NEW s \in Counts(B), NEW end \in Ends, NEW c \in B
  PROVE  /\ Counted(s, end, c) \in Counts(B)
         /\ \A e \in Ends, d \in B :
              /\ e = end /\ d = c => Counted(s, end, c)[e][d] = s[e][d] + 1
              /\ e # end \/ d # c => Counted(s, end, c)[e][d] = s[e][d]
  BY DEF Counted, Counts

\* What appending changes.
LEMMA Appended ==
  ASSUME NEW S, NEW s \in Seq(S), NEW x \in S
  PROVE  /\ Append(s, x) \in Seq(S) /\ Len(s) \in Nat
         /\ Len(Append(s, x)) = Len(s) + 1
         /\ DOMAIN s = 1 .. Len(s) /\ DOMAIN Append(s, x) = 1 .. Len(s) + 1
         /\ \A i \in 1 .. Len(s) : Append(s, x)[i] = s[i]
         /\ Append(s, x)[Len(s) + 1] = x
  OBVIOUS

\* The roots asked for.
LEMMA AskedIs ==
  ASSUME TypeOK
  PROVE  /\ Asked \in Seq(Forms) /\ Len(Asked) \in Nat /\ DOMAIN Asked = 1 .. Len(Asked)
         /\ \A i \in 1 .. Len(Asked) : Asked[i] \in Forms
  <1>1. Asked \in Seq(Forms)
    BY DistinctRoots DEF TypeOK, Asked
  <1> HIDE DEF Asked
  <1> QED BY <1>1

\* The roots counted under an end.
Tally(e, c) == {i \in DOMAIN done : done[i].end = e /\ (done[i].to # Asked[i]) = c}

\* They are finitely many.
LEMMA TallyFinite ==
  ASSUME TypeOK, NEW e, NEW c
  PROVE  IsFiniteSet(Tally(e, c)) /\ Cardinality(Tally(e, c)) \in Nat
  <1>1. Tally(e, c) \subseteq 1 .. Len(done) /\ Len(done) \in Nat
    BY DEF Tally, TypeOK
  <1>2. IsFiniteSet(1 .. Len(done))
    BY <1>1, FS_Interval
  <1>3. IsFiniteSet(Tally(e, c))
    BY <1>1, <1>2, FS_Subset
  <1> QED BY <1>3, FS_CardinalityType

\* A root that ends is counted.
LEMMA TallyAppended ==
  ASSUME TypeOK, StatsAddUp, NEW o \in Outcomes, done' = Append(done, o), batch' = batch,
         stats' = Counted(stats, o.end, o.to # Asked[Len(done) + 1])
  PROVE  StatsAddUp' /\ stats' \in Counts(BOOLEAN)
  <1> DEFINE n == Len(done) + 1
             moved == o.to # Asked[n]
  <1>0. o.end \in Ends /\ moved \in BOOLEAN
    BY DEF Outcomes
  <1>1. stats' = Counted(stats, o.end, moved) /\ stats \in Counts(BOOLEAN)
    BY DEF TypeOK
  <1>2. stats' \in Counts(BOOLEAN)
    <2> HIDE DEF moved
    <2> QED BY <1>0, <1>1, CountedOnce
  <1>3. SUFFICES ASSUME NEW e \in Ends, NEW c \in BOOLEAN
                 PROVE  stats'[e][c] = Cardinality(Tally(e, c)')
    BY <1>2 DEF StatsAddUp, Tally
  <1>4. Asked' = Asked
    BY DEF Asked
  <1>5. /\ n \in Nat /\ DOMAIN done = 1 .. n - 1 /\ DOMAIN done' = 1 .. n
        /\ \A i \in 1 .. n - 1 : done'[i] = done[i]
        /\ done'[n] = o
    BY DEF TypeOK
  <1>6. /\ e = o.end /\ c = moved => stats'[e][c] = stats[e][c] + 1
        /\ e # o.end \/ c # moved => stats'[e][c] = stats[e][c]
    <2> HIDE DEF moved
    <2> QED BY <1>0, <1>1, CountedOnce
  <1>7. stats[e][c] = Cardinality(Tally(e, c))
    BY DEF StatsAddUp, Tally
  <1>8. n \notin Tally(e, c)
    BY <1>5 DEF Tally
  <1>9. CASE e = o.end /\ c = moved
    <2>1. Tally(e, c)' = Tally(e, c) \cup {n}
      BY <1>4, <1>5, <1>9 DEF Tally
    <2> QED BY <1>6, <1>7, <1>8, <1>9, <2>1, TallyFinite, FS_AddElement
  <1>10. CASE ~ (e = o.end /\ c = moved)
    <2>1. Tally(e, c)' = Tally(e, c)
      BY <1>4, <1>5, <1>10 DEF Tally
    <2> QED BY <1>6, <1>7, <1>10, <2>1, TallyFinite
  <1> QED BY <1>9, <1>10

\* What taking the first leaves.
LEMMA HeadAndTail ==
  ASSUME NEW S, NEW s \in Seq(S), s # <<>>
  PROVE  /\ Head(s) \in S /\ Head(s) = s[1] /\ Len(s) \in Nat \ {0} /\ DOMAIN s = 1 .. Len(s)
         /\ Tail(s) \in Seq(S) /\ Len(Tail(s)) = Len(s) - 1 /\ DOMAIN Tail(s) = 1 .. Len(s) - 1
         /\ \A i \in 1 .. Len(s) - 1 : Tail(s)[i] = s[i + 1]
  OBVIOUS

\* What an entry holds.
LEMMA EntryIs ==
  ASSUME NEW s \in Seq(Entries), NEW i \in DOMAIN s
  PROVE  s[i] \in Entries /\ s[i].at \in Nat /\ s[i].seen \in Nat
  <1>1. s[i] \in Entries
    OBVIOUS
  <1> QED BY <1>1 DEF Entries

\* How a strategy that ends by itself left the form reached.
LEMMA EndIs ==
  ASSUME NEW end \in StrategyEnds
  PROVE  end \in Ends /\ (end = "completed" => Final(cur) \/ KeptBack(cur))
  BY DEF StrategyEnds, AtRest, Ends

\* What taking one back changes.
LEMMA TakenBack ==
  ASSUME NEW B, NEW s \in Counts(B), NEW end \in Ends, NEW c \in B
  PROVE  LET t == [s EXCEPT ![end][c] = @ - 1]
         IN  /\ t \in Counts(B) /\ t[end][c] = s[end][c] - 1
             /\ \A e \in Ends, d \in B : e # end \/ d # c => t[e][d] = s[e][d]
  BY DEF Counts

\* A root that ends anew is counted under its new end only.
LEMMA TallyReplaced ==
  ASSUME TypeOK, StatsAddUp, NEW n \in DOMAIN done, done[n].end = "completed",
         NEW o \in Outcomes, done' = [done EXCEPT ![n] = o], batch' = batch,
         stats' = Recounted(stats, done[n].to # Asked[n], o.to # done[n].to, o.end, o.to # Asked[n])
  PROVE  StatsAddUp' /\ stats' \in Counts(BOOLEAN)
  <1> DEFINE c0 == done[n].to # Asked[n]
             c1 == o.to # Asked[n]
             less == [stats EXCEPT !["completed"][c0] = @ - 1]
  <1>1. /\ Asked' = Asked /\ DOMAIN done' = DOMAIN done /\ done'[n] = o
        /\ \A i \in DOMAIN done \ {n} : done'[i] = done[i]
    BY DEF Asked, TypeOK
  <1>2. c0 \in BOOLEAN /\ c1 \in BOOLEAN /\ o.end \in Ends /\ "completed" \in Ends
    BY DEF Outcomes, Ends
  <1>3. stats \in Counts(BOOLEAN)
    BY DEF TypeOK
  <1>4. \A e \in Ends, c \in BOOLEAN : stats[e][c] = Cardinality(Tally(e, c))
    BY DEF StatsAddUp, Tally
  <1>5. ASSUME NEW e, NEW c
        PROVE  /\ n \in Tally(e, c) <=> e = "completed" /\ c = c0
               /\ n \in Tally(e, c)' <=> e = o.end /\ c = c1
               /\ Tally(e, c)' \ {n} = Tally(e, c) \ {n}
    BY <1>1 DEF Tally
  <1>6. CASE o.to = done[n].to /\ o.end = "completed"
    <2>1. stats' = stats
      BY <1>6 DEF Recounted
    <2>2. ASSUME NEW e, NEW c PROVE Tally(e, c)' = Tally(e, c)
      BY <1>1, <1>6 DEF Tally
    <2>3. ASSUME NEW e \in Ends, NEW c \in BOOLEAN
          PROVE  stats'[e][c] = Cardinality(Tally(e, c)')
      BY <1>4, <2>1, <2>2
    <2> QED BY <1>3, <2>1, <2>3 DEF StatsAddUp, Tally
  <1>7. CASE ~ (o.to = done[n].to /\ o.end = "completed")
    <2>1. stats' = Counted(less, o.end, c1)
      BY <1>7 DEF Recounted
    <2> HIDE DEF c0, c1
    <2>2. /\ less \in Counts(BOOLEAN) /\ less["completed"][c0] = stats["completed"][c0] - 1
          /\ \A e \in Ends, d \in BOOLEAN : e # "completed" \/ d # c0 => less[e][d] = stats[e][d]
      BY <1>2, <1>3, TakenBack
    <2> HIDE DEF less
    <2>3. less \in Counts(BOOLEAN)
      BY <2>2
    <2>4. stats' \in Counts(BOOLEAN)
      BY ONLY <1>2, <2>1, <2>3, CountedOnce
    <2>5. ASSUME NEW e \in Ends, NEW c \in BOOLEAN
          PROVE  /\ e = o.end /\ c = c1 => stats'[e][c] = less[e][c] + 1
                 /\ e # o.end \/ c # c1 => stats'[e][c] = less[e][c]
      BY ONLY <1>2, <2>1, <2>3, CountedOnce
    <2>6. ASSUME NEW e \in Ends, NEW c \in BOOLEAN
          PROVE  less[e][c] = Cardinality(Tally(e, c) \ {n})
      <3>1. /\ IsFiniteSet(Tally(e, c)) /\ Cardinality(Tally(e, c)) \in Nat
            /\ Cardinality(Tally(e, c) \ {n}) =
                 IF n \in Tally(e, c) THEN Cardinality(Tally(e, c)) - 1 ELSE Cardinality(Tally(e, c))
        BY TallyFinite, FS_RemoveElement
      <3>2. CASE e = "completed" /\ c = c0
        BY <1>4, <1>5, <2>2, <3>1, <3>2
      <3>3. CASE ~ (e = "completed" /\ c = c0)
        BY <1>4, <1>5, <2>2, <3>1, <3>3
      <3> QED BY <3>2, <3>3
    <2>7. ASSUME NEW e \in Ends, NEW c \in BOOLEAN
          PROVE  stats'[e][c] = Cardinality(Tally(e, c)')
      <3> DEFINE rest == Tally(e, c) \ {n}
      <3>1. IsFiniteSet(rest) /\ Cardinality(rest) \in Nat /\ n \notin rest
        BY TallyFinite, FS_RemoveElement, FS_CardinalityType
      <3>2. less[e][c] = Cardinality(rest)
        BY <2>6
      <3>3. CASE e = o.end /\ c = c1
        <4>1. Tally(e, c)' = rest \cup {n}
          BY <1>5, <3>3
        <4>2. Cardinality(rest \cup {n}) = Cardinality(rest) + 1
          <5> HIDE DEF rest
          <5> QED BY <3>1, FS_AddElement
        <4> QED BY <2>5, <3>2, <3>3, <4>1, <4>2
      <3>4. CASE ~ (e = o.end /\ c = c1)
        <4>1. Tally(e, c)' = rest
          BY <1>5, <3>4
        <4> QED BY <2>5, <3>2, <3>4, <4>1
      <3> QED BY <3>3, <3>4
    <2> QED BY <2>4, <2>7 DEF StatsAddUp, Tally
  <1> QED BY <1>6, <1>7

\* Nothing done, nothing counted.
LEMMA NoneCounted ==
  ASSUME NEW d, NEW s, NEW asked, NEW e \in Ends, NEW c \in BOOLEAN, DOMAIN d = {}, s = NoStats
  PROVE  s[e][c] = Cardinality({i \in DOMAIN d : d[i].end = e /\ (d[i].to # asked[i]) = c})
  <1>1. {i \in DOMAIN d : d[i].end = e /\ (d[i].to # asked[i]) = c} = {}
    OBVIOUS
  <1>2. s[e][c] = 0
    BY DEF NoStats
  <1> QED BY <1>1, <1>2, FS_EmptySet

-----------------------------------------------------------------------------
(* The steps. *)

\* A call starts with nothing done.
LEMMA CallKeeps == Inv /\ Call => Inv'
  <1> SUFFICES ASSUME Inv, Call PROVE Inv'
    OBVIOUS
  <1> USE DEF Inv, Call
  <1>a. PICK b \in Batches, p \in PerCalls :
          batch' = b /\ live' = Distinct(b) /\ limit' = Lesser(p, allowance)
    BY DEF Call
  <1>b. b \in Seq(Forms) /\ Distinct(b) \in Seq(Forms) /\ live' = Asked'
    BY <1>a, BatchesAssumption, DistinctRoots DEF Asked
  <1>c. /\ allowance' = allowance /\ allowance = Allowance - worked
        /\ allowance \in Nat /\ worked \in Nat /\ calls \in Nat
    BY DEF TypeOK, Purse
  <1>d. p \in Nat /\ limit' \in Nat /\ limit' <= allowance
    BY <1>a, <1>c, BudgetsAssumption DEF Lesser
  <1>e. /\ mode' = "roots" /\ done' = <<>> /\ provisional' = <<>> /\ queue' = <<>> /\ DOMAIN done' = {}
        /\ DOMAIN provisional' = {} /\ DOMAIN queue' = {} /\ Len(done') = 0
    BY DEF Call
  <1>f. Len(live') \in Nat
    BY <1>a, <1>b
  <1>1. TypeOK'
    <2>1. stats' \in Counts(BOOLEAN)
      BY DEF Call, NoStats, Counts
    <2>2. <<>> \in Seq(Entries) /\ <<>> \in Seq(Outcomes)
      OBVIOUS
    <2>3. calls' \in Nat /\ active' \in Nat /\ version' \in Nat /\ round' \in Nat /\ spent' \in Nat
      BY <1>c DEF Call
    <2> QED BY <1>a, <1>b, <1>c, <1>d, <1>e, <2>1, <2>2, <2>3 DEF TypeOK, Modes
  <1>2. Shape'
    BY <1>b, <1>e, <1>f DEF Shape
  <1>3. Purse'
    BY <1>c, <1>d DEF Purse
  <1>4. OnTheWay'
    BY DEF OnTheWay
  <1>5. WaitInOrder'
    BY <1>e DEF WaitInOrder, InOrder
  <1>6. EntriesRight'
    BY <1>e DEF EntriesRight, Entry
  <1>7. Owed'
    BY <1>e DEF Owed
  <1>8. RoundUnchanged'
    BY <1>e DEF RoundUnchanged
  <1>9. SettledTogether'
    BY <1>e DEF SettledTogether
  <1>10. ReliesOnEnough'
    BY <1>e DEF ReliesOnEnough
  <1>11. StatsAddUp'
    BY <1>e, NoneCounted DEF Call, StatsAddUp
  <1> QED
    BY <1>1, <1>2, <1>3, <1>4, <1>5, <1>6, <1>7, <1>8, <1>9, <1>10, <1>11

\* The deadline is seen to have passed.
LEMMA PassKeeps == Inv /\ Pass => Inv'
  <1> SUFFICES ASSUME Inv, Pass PROVE Inv'
    OBVIOUS
  <1> USE DEF Inv, Pass, Asked, callVars, stratVars
  <1>1. TypeOK'
    BY DEF TypeOK, Modes
  <1>2. Shape'
    BY DEF Shape, TypeOK
  <1>3. Purse'
    BY DEF Purse, TypeOK
  <1>4. OnTheWay'
    BY DEF OnTheWay
  <1>5. WaitInOrder'
    BY DEF WaitInOrder, InOrder
  <1>6. EntriesRight'
    BY DEF EntriesRight, Entry, OfCompleted, StillKeptBack, Sharing
  <1>7. Owed'
    BY DEF Owed, Entry, Final
  <1>8. RoundUnchanged'
    BY DEF RoundUnchanged
  <1>9. SettledTogether'
    BY DEF SettledTogether, Final
  <1>10. ReliesOnEnough'
    BY DEF ReliesOnEnough
  <1>11. StatsAddUp'
    BY DEF StatsAddUp
  <1> QED
    BY <1>1, <1>2, <1>3, <1>4, <1>5, <1>6, <1>7, <1>8, <1>9, <1>10, <1>11

\* A root turned away is as it was.
LEMMA TurnAwayKeeps == Inv /\ TurnAway => Inv'
  <1> SUFFICES ASSUME Inv, TurnAway PROVE Inv'
    OBVIOUS
  <1> USE DEF Inv, TurnAway, callVars, stratVars
  <1> DEFINE end == IF late THEN "terminated" ELSE "declined"
             o == Outcome(Asked[active], end, {})
  <1>a. /\ active = Len(done) + 1 /\ active \in 1 .. Len(Asked) /\ Asked' = Asked
        /\ Asked[active] \in Forms /\ end \in Ends \ {"completed"}
    BY AskedIs DEF Shape, TypeOK, Asked, Ends
  <1>b. o \in Outcomes /\ o.end = end /\ o.to = Asked[active]
    BY <1>a DEF Outcome, Outcomes
  <1>c. done' = Append(done, o) /\ done \in Seq(Outcomes)
    BY DEF TypeOK
  <1>d. /\ done' \in Seq(Outcomes) /\ Len(done') = active /\ DOMAIN done' = 1 .. active
        /\ DOMAIN done = 1 .. active - 1 /\ Len(done) \in Nat
        /\ \A i \in 1 .. active - 1 : done'[i] = done[i]
        /\ done'[active] = o
    BY <1>a, <1>b, <1>c, Appended
  <1>e. (o.to # Asked[Len(done) + 1]) = FALSE
    BY <1>a, <1>b
  <1>f. stats' = Counted(stats, o.end, o.to # Asked[Len(done) + 1])
    BY <1>b, <1>e
  <1> HIDE DEF end, o
  <1>1. TypeOK'
    <2>1. stats' \in Counts(BOOLEAN)
      BY <1>b, <1>c, <1>f, TallyAppended
    <2>2. active' \in Nat /\ mode' = "roots"
      BY <1>a
    <2> QED BY <1>d, <2>1, <2>2 DEF TypeOK, Modes
  <1>2. Shape'
    BY <1>a, <1>b, <1>d DEF Shape, TypeOK
  <1>3. Purse'
    BY DEF Purse, TypeOK
  <1>4. OnTheWay'
    BY DEF OnTheWay
  <1>5. WaitInOrder'
    BY DEF WaitInOrder, InOrder
  <1>6. EntriesRight'
    BY <1>a, <1>b, <1>d DEF EntriesRight, Entry, OfCompleted, StillKeptBack, Sharing
  <1>7. Owed'
    BY <1>a, <1>b, <1>d DEF Owed, Entry, Final
  <1>8. RoundUnchanged'
    BY DEF RoundUnchanged
  <1>9. SettledTogether'
    BY DEF SettledTogether, Final
  <1>10. ReliesOnEnough'
    BY <1>a, <1>b, <1>d, EqualChains DEF ReliesOnEnough
  <1>11. StatsAddUp'
    BY <1>b, <1>c, <1>f, TallyAppended
  <1> QED
    BY <1>1, <1>2, <1>3, <1>4, <1>5, <1>6, <1>7, <1>8, <1>9, <1>10, <1>11

\* A root's strategy starts from the root.
LEMMA StartRootKeeps == Inv /\ StartRoot => Inv'
  <1> SUFFICES ASSUME Inv, StartRoot PROVE Inv'
    OBVIOUS
  <1> USE DEF Inv, StartRoot, callVars
  <1>a. active \in 1 .. Len(Asked) /\ Asked[active] \in Forms
    BY AskedIs DEF Shape, TypeOK
  <1>1. TypeOK'
    BY <1>a DEF TypeOK, Modes
  <1>2. Shape'
    BY DEF Shape, TypeOK, Asked
  <1>3. Purse'
    BY DEF Purse, TypeOK
  <1>4. OnTheWay'
    BY EqualChains DEF OnTheWay, Asked
  <1>5. WaitInOrder'
    BY DEF WaitInOrder, InOrder
  <1>6. EntriesRight'
    BY DEF EntriesRight, Entry, OfCompleted, StillKeptBack, Sharing
  <1>7. Owed'
    BY DEF Owed, Entry, Final
  <1>8. RoundUnchanged'
    BY DEF RoundUnchanged
  <1>9. SettledTogether'
    BY DEF SettledTogether, Final
  <1>10. ReliesOnEnough'
    BY DEF ReliesOnEnough, Asked
  <1>11. StatsAddUp'
    BY DEF StatsAddUp, Asked
  <1> QED
    BY <1>1, <1>2, <1>3, <1>4, <1>5, <1>6, <1>7, <1>8, <1>9, <1>10, <1>11

\* A rewrite holds under the constraints it relies on.
LEMMA StepKeeps == Inv /\ Step => Inv'
  <1> SUFFICES ASSUME Inv, Step PROVE Inv'
    OBVIOUS
  <1> USE DEF Inv, Step, callVars
  <1>a. cur \in Forms /\ Rewrite[cur] \in Forms /\ Uses[cur] \subseteq Constraints
    BY FormsAssumption DEF TypeOK
  <1>b. Equal(cur, Rewrite[cur], Uses[cur])
    BY <1>a, RewritesAssumption
  <1>c. Asked' = Asked
    BY DEF Asked
  <1>1. TypeOK'
    BY <1>a DEF TypeOK, Modes
  <1>2. Shape'
    BY <1>c DEF Shape, TypeOK
  <1>3. Purse'
    BY DEF Purse, TypeOK
  <1>4. OnTheWay'
    BY <1>b, <1>c, EqualChains DEF OnTheWay
  <1>5. WaitInOrder'
    BY DEF WaitInOrder, InOrder
  <1>6. EntriesRight'
    BY DEF EntriesRight, Entry, OfCompleted, StillKeptBack, Sharing
  <1>7. Owed'
    BY DEF Owed, Entry, Final
  <1>8. RoundUnchanged'
    BY DEF RoundUnchanged
  <1>9. SettledTogether'
    BY DEF SettledTogether, Final
  <1>10. ReliesOnEnough'
    BY <1>c DEF ReliesOnEnough
  <1>11. StatsAddUp'
    BY <1>c DEF StatsAddUp
  <1> QED
    BY <1>1, <1>2, <1>3, <1>4, <1>5, <1>6, <1>7, <1>8, <1>9, <1>10, <1>11

\* A root's result is counted, and waits if it is not final.
LEMMA FinishRootKeeps == Inv /\ FinishRoot => Inv'
  <1> SUFFICES ASSUME Inv, FinishRoot PROVE Inv'
    OBVIOUS
  <1> USE DEF Inv, callVars, stratVars
  <1>a. PICK end \in StrategyEnds :
          LET moved == cur # Asked[active]
          IN  /\ done' = Append(done, Outcome(cur, end, rel))
              /\ stats' = Counted(stats, end, moved)
              /\ live' = [live EXCEPT ![active] = cur]
              /\ version' = IF moved THEN version + 1 ELSE version
              /\ provisional' =
                    IF end = "completed" /\ ~Final(cur)
                    THEN Append(provisional, [at |-> active, seen |-> SeenAt(moved)])
                    ELSE provisional
    BY DEF FinishRoot
  <1> DEFINE o == Outcome(cur, end, rel)
             x == [at |-> active, seen |-> version']
             waits == end = "completed" /\ ~Final(cur)
  <1>b. /\ mode = "work" /\ mode' = "roots" /\ active' = active + 1 /\ Asked' = Asked
        /\ UNCHANGED <<queue, changed, round, late, failed, callVars, stratVars>>
    BY DEF FinishRoot, Asked
  <1>c. /\ active = Len(done) + 1 /\ active \in 1 .. Len(Asked)
        /\ Asked[active] \in Forms /\ live \in Seq(Forms) /\ DOMAIN live = 1 .. Len(Asked)
        /\ live[active] = Asked[active] /\ active \in Nat /\ cur \in Forms /\ version \in Nat
    <2>1. active = Len(done) + 1 /\ active \in 1 .. Len(Asked) /\ active \notin DOMAIN done
      BY <1>b, AskedIs DEF Shape, TypeOK
    <2> QED BY <1>b, <2>1, AskedIs DEF Shape, TypeOK
  <1>d. o \in Outcomes /\ o.end = end /\ o.to = cur /\ o.rel = rel
    BY <1>b, <1>c, EndIs DEF Outcome, Outcomes, TypeOK
  <1>e. done' = Append(done, o) /\ done \in Seq(Outcomes)
    BY <1>a DEF TypeOK
  <1>f. /\ done' \in Seq(Outcomes) /\ Len(done') = active /\ DOMAIN done' = 1 .. active
        /\ DOMAIN done = 1 .. active - 1 /\ Len(done) \in Nat
        /\ \A i \in 1 .. active - 1 : done'[i] = done[i]
        /\ done'[active] = o
    BY <1>c, <1>d, <1>e, Appended
  <1>g. stats' = Counted(stats, o.end, o.to # Asked[Len(done) + 1])
    BY <1>a, <1>c, <1>d
  <1>h. /\ live' \in Seq(Forms) /\ Len(live') = Len(live) /\ DOMAIN live' = DOMAIN live
        /\ live'[active] = cur
        /\ \A j \in DOMAIN live \ {active} : live'[j] = live[j]
    BY <1>a, <1>c
  <1>i. \/ cur # Asked[active] /\ version' = version + 1
        \/ cur = Asked[active] /\ version' = version /\ live' = live
    BY <1>a, <1>c, <1>h
  <1>j. /\ x \in Entries /\ x.at = active /\ x.seen = version'
        /\ provisional \in Seq(Entries)
        /\ provisional' = IF waits THEN Append(provisional, x) ELSE provisional
    <2>1. SeenAt(cur # Asked[active]) = version'
      BY <1>a DEF SeenAt
    <2>2. version' \in Nat
      BY <1>c, <1>i
    <2> QED BY <1>a, <1>c, <2>1, <2>2 DEF Entries, TypeOK
  <1>k. /\ DOMAIN provisional = 1 .. Len(provisional) /\ Len(provisional) \in Nat
        /\ DOMAIN provisional' = 1 .. Len(provisional) + (IF waits THEN 1 ELSE 0)
        /\ \A i \in 1 .. Len(provisional) : provisional'[i] = provisional[i]
        /\ waits => provisional'[Len(provisional) + 1] = x
        /\ provisional' \in Seq(Entries)
    <2> HIDE DEF x, waits
    <2> QED BY <1>j, Appended
  <1>l. \A e : Entry(e)' <=> Entry(e) \/ (waits /\ e = x)
    <2> HIDE DEF x, waits
    <2> QED BY <1>b, <1>k DEF Entry
  <1>m. waits => Len(live) > 1 /\ \A i : i = active => Sharing(i)'
    <2>1. SUFFICES ASSUME waits, NEW i, i = active PROVE Len(live) > 1 /\ Sharing(i)'
      OBVIOUS
    <2>2. KeptBack(cur)
      BY <2>1, EndIs
    <2>3. PICK j \in DOMAIN live \ {active} : live[j] \in KeptBackBy[cur]
      BY <2>2 DEF KeptBack, Others
    <2>4. Len(live) > 1
      BY <1>c, <2>3
    <2>5. live'[j] \in KeptBackBy[done'[i].to] /\ j \in DOMAIN live' \ {i}
      BY <1>d, <1>f, <1>h, <2>1, <2>3
    <2> QED BY <2>4, <2>5 DEF Sharing
  <1> HIDE DEF o, x
  <1>1. TypeOK'
    <2>1. stats' \in Counts(BOOLEAN)
      BY <1>b, <1>d, <1>e, <1>g, TallyAppended
    <2>2. active' \in Nat /\ version' \in Nat
      BY <1>b, <1>c, <1>i
    <2> QED BY <1>b, <1>f, <1>h, <1>k, <2>1, <2>2 DEF TypeOK, Modes
  <1>2. Shape'
    <2>1. ASSUME NEW i \in DOMAIN live'
          PROVE  live'[i] = IF i \in DOMAIN done' THEN done'[i].to ELSE Asked'[i]
      <3>1. CASE i = active
        BY <1>c, <1>d, <1>f, <1>h, <3>1
      <3>2. CASE i # active
        <4>1. i \in DOMAIN live /\ live'[i] = live[i] /\ i \in Nat
          BY <1>c, <1>h, <3>2
        <4>2. i \in DOMAIN done' <=> i \in DOMAIN done
          BY <1>c, <1>f, <3>2, <4>1
        <4>3. i \in DOMAIN done => done'[i] = done[i]
          BY <1>f
        <4> QED BY <1>b, <4>1, <4>2, <4>3 DEF Shape
      <3> QED BY <3>1, <3>2
    <2> QED BY <1>b, <1>c, <1>f, <1>h, <2>1 DEF Shape
  <1>3. Purse'
    BY <1>b DEF Purse
  <1>4. OnTheWay'
    BY <1>b DEF OnTheWay
  <1>5. WaitInOrder'
    <2>1. queue = <<>> /\ DOMAIN queue = {} /\ queue' = queue
      BY <1>b DEF Shape
    <2>2. \A j \in DOMAIN provisional : provisional[j].at \in Nat /\ provisional[j].at < active
      <3>1. SUFFICES ASSUME NEW j \in DOMAIN provisional
                     PROVE  provisional[j].at \in Nat /\ provisional[j].at < active
        OBVIOUS
      <3>2. provisional[j] \in Entries /\ provisional[j].at \in Nat
        BY <1>j, EntryIs
      <3>3. provisional[j].at \in DOMAIN done
        BY <3>2 DEF EntriesRight, Entry, OfCompleted
      <3> QED BY <1>c, <1>f, <3>2, <3>3
    <2>3. InOrder(provisional)'
      BY <1>c, <1>j, <1>k, <2>2 DEF WaitInOrder, InOrder
    <2> QED BY <2>1, <2>3 DEF WaitInOrder, InOrder
  <1>6. EntriesRight'
    <2>1. SUFFICES ASSUME NEW e \in Entries, Entry(e) \/ (waits /\ e = x)
                   PROVE  OfCompleted(e)' /\ StillKeptBack(e)'
      BY <1>l DEF EntriesRight
    <2>2. CASE waits /\ e = x
      <3>1. e.at = active /\ e.seen = version' /\ active \in DOMAIN done' /\ done'[active].end = "completed"
        BY <1>c, <1>d, <1>f, <1>j, <2>2
      <3>2. OfCompleted(e)'
        BY <3>1 DEF OfCompleted
      <3>3. version' <= version'
        BY <1>c, <1>i
      <3>4. StillKeptBack(e)'
        BY <1>m, <2>2, <3>1, <3>3 DEF StillKeptBack
      <3> QED BY <3>2, <3>4
    <2>3. CASE Entry(e)
      <3>1. OfCompleted(e) /\ StillKeptBack(e) /\ e.seen \in Nat
        BY <2>3 DEF EntriesRight, Entries
      <3>2. e.at \in DOMAIN done /\ e.at \in DOMAIN done' /\ done'[e.at] = done[e.at]
        BY <1>c, <1>f, <3>1 DEF OfCompleted
      <3>3. OfCompleted(e)'
        BY <3>1, <3>2 DEF OfCompleted
      <3>4. CASE version' = version + 1
        BY <1>c, <3>1, <3>3, <3>4 DEF StillKeptBack
      <3>5. CASE version' = version /\ live' = live
        BY <3>1, <3>2, <3>3, <3>5 DEF StillKeptBack, Sharing
      <3> QED BY <1>i, <3>3, <3>4, <3>5
    <2> QED BY <2>1, <2>2, <2>3
  <1>7. Owed'
    <2>1. SUFFICES ASSUME NEW i \in DOMAIN done', done'[i].end = "completed", ~Final(done'[i].to)
                   PROVE  Len(live') > 1 /\ \E e \in Entries : Entry(e)' /\ e.at = i
      BY DEF Owed, Final
    <2>2. CASE i = active
      <3>1. waits
        BY <1>d, <1>f, <2>1, <2>2
      <3> QED BY <1>h, <1>j, <1>l, <1>m, <2>2, <3>1
    <2>3. CASE i # active
      <3>1. i \in DOMAIN done /\ done'[i] = done[i]
        BY <1>c, <1>f, <2>3
      <3>2. Len(live) > 1 /\ \E e \in Entries : Entry(e) /\ e.at = i
        BY <2>1, <3>1 DEF Owed
      <3> QED BY <1>h, <1>l, <3>2
    <2> QED BY <2>2, <2>3
  <1>8. RoundUnchanged'
    BY <1>b DEF RoundUnchanged
  <1>9. SettledTogether'
    BY <1>b DEF SettledTogether
  <1>10. ReliesOnEnough'
    <2>1. Equal(Asked[active], cur, rel)
      BY <1>b DEF OnTheWay
    <2>2. SUFFICES ASSUME NEW i \in DOMAIN done'
                   PROVE  Equal(Asked[i], done'[i].to, IF done'[i].to = Asked[i] THEN {} ELSE done'[i].rel)
      BY <1>b DEF ReliesOnEnough
    <2>3. CASE i = active
      BY <1>d, <1>f, <2>1, <2>3, EqualChains
    <2>4. CASE i # active
      <3>1. i \in DOMAIN done /\ done'[i] = done[i]
        BY <1>c, <1>f, <2>4
      <3> QED BY <3>1 DEF ReliesOnEnough
    <2> QED BY <2>3, <2>4
  <1>11. StatsAddUp'
    BY <1>b, <1>d, <1>e, <1>g, TallyAppended
  <1> QED
    BY <1>1, <1>2, <1>3, <1>4, <1>5, <1>6, <1>7, <1>8, <1>9, <1>10, <1>11

\* A failed call works on nothing more.
LEMMA FailKeeps == Inv /\ Fail => Inv'
  <1> SUFFICES ASSUME Inv, Fail PROVE Inv'
    OBVIOUS
  <1> USE DEF Inv, Fail, Asked, callVars, stratVars
  <1>1. TypeOK'
    BY DEF TypeOK, Modes
  <1>2. Shape'
    BY DEF Shape, TypeOK
  <1>3. Purse'
    BY DEF Purse, TypeOK
  <1>4. OnTheWay'
    BY DEF OnTheWay
  <1>5. WaitInOrder'
    BY DEF WaitInOrder, InOrder
  <1>6. EntriesRight'
    BY DEF EntriesRight, Entry, OfCompleted, StillKeptBack, Sharing
  <1>7. Owed'
    BY DEF Owed, Entry, Final
  <1>8. RoundUnchanged'
    BY DEF RoundUnchanged, Shape
  <1>9. SettledTogether'
    BY DEF SettledTogether, Final
  <1>10. ReliesOnEnough'
    BY DEF ReliesOnEnough
  <1>11. StatsAddUp'
    BY DEF StatsAddUp
  <1> QED
    BY <1>1, <1>2, <1>3, <1>4, <1>5, <1>6, <1>7, <1>8, <1>9, <1>10, <1>11

\* All roots have ended.
LEMMA RootsDoneKeeps == Inv /\ RootsDone => Inv'
  <1> SUFFICES ASSUME Inv, RootsDone PROVE Inv'
    OBVIOUS
  <1> USE DEF Inv, RootsDone, Asked, callVars, stratVars
  <1>1. TypeOK'
    BY DEF TypeOK, Modes
  <1>2. Shape'
    BY DEF Shape, TypeOK
  <1>3. Purse'
    BY DEF Purse, TypeOK
  <1>4. OnTheWay'
    BY DEF OnTheWay
  <1>5. WaitInOrder'
    BY DEF WaitInOrder, InOrder
  <1>6. EntriesRight'
    BY DEF EntriesRight, Entry, OfCompleted, StillKeptBack, Sharing
  <1>7. Owed'
    BY DEF Owed, Entry, Final
  <1>8. RoundUnchanged'
    BY DEF RoundUnchanged, Shape
  <1>9. SettledTogether'
    BY DEF SettledTogether, Final
  <1>10. ReliesOnEnough'
    BY DEF ReliesOnEnough
  <1>11. StatsAddUp'
    BY DEF StatsAddUp
  <1> QED
    BY <1>1, <1>2, <1>3, <1>4, <1>5, <1>6, <1>7, <1>8, <1>9, <1>10, <1>11

\* A round takes the results that wait.
LEMMA StartRoundKeeps == Inv /\ StartRound => Inv'
  <1> SUFFICES ASSUME Inv, StartRound PROVE Inv'
    OBVIOUS
  <1> USE DEF Inv, StartRound, AnotherRound, Asked, callVars, stratVars
  <1>a. provisional' = <<>> /\ DOMAIN provisional' = {} /\ DOMAIN queue = {} /\ queue' = provisional
    BY DEF Shape
  <1>1. TypeOK'
    <2>1. <<>> \in Seq(Entries) /\ round' \in Nat /\ mode' \in Modes
      BY DEF TypeOK, Modes
    <2>2. provisional' \in Seq(Entries) /\ queue' \in Seq(Entries)
      BY <2>1 DEF TypeOK
    <2> QED BY <2>1, <2>2 DEF TypeOK
  <1>2. Shape'
    BY DEF Shape, TypeOK
  <1>3. Purse'
    BY DEF Purse, TypeOK
  <1>4. OnTheWay'
    BY DEF OnTheWay
  <1>5. WaitInOrder'
    BY <1>a DEF WaitInOrder, InOrder
  <1>6. EntriesRight'
    BY <1>a DEF EntriesRight, Entry, OfCompleted, StillKeptBack, Sharing
  <1>7. Owed'
    BY <1>a DEF Owed, Entry, Final
  <1>8. RoundUnchanged'
    BY DEF RoundUnchanged
  <1>9. SettledTogether'
    BY DEF SettledTogether, Final
  <1>10. ReliesOnEnough'
    BY DEF ReliesOnEnough
  <1>11. StatsAddUp'
    BY DEF StatsAddUp
  <1> QED
    BY <1>1, <1>2, <1>3, <1>4, <1>5, <1>6, <1>7, <1>8, <1>9, <1>10, <1>11

\* A result of this version waits on.
LEMMA StillSettledKeeps == Inv /\ StillSettled => Inv'
  <1> SUFFICES ASSUME Inv, StillSettled PROVE Inv'
    OBVIOUS
  <1> USE DEF Inv, StillSettled, callVars, stratVars
  <1> DEFINE h == Head(queue)
  <1>a. /\ queue \in Seq(Entries) /\ provisional \in Seq(Entries)
        /\ h \in Entries /\ h = queue[1] /\ Len(queue) \in Nat \ {0}
        /\ DOMAIN queue = 1 .. Len(queue)
        /\ queue' \in Seq(Entries) /\ DOMAIN queue' = 1 .. Len(queue) - 1
        /\ \A i \in 1 .. Len(queue) - 1 : queue'[i] = queue[i + 1]
    BY HeadAndTail DEF TypeOK
  <1>b. /\ provisional' \in Seq(Entries) /\ Len(provisional) \in Nat
        /\ DOMAIN provisional = 1 .. Len(provisional)
        /\ DOMAIN provisional' = 1 .. Len(provisional) + 1
        /\ \A i \in 1 .. Len(provisional) : provisional'[i] = provisional[i]
        /\ provisional'[Len(provisional) + 1] = h
    BY <1>a, Appended
  <1>c. \A e : Entry(e)' <=> Entry(e)
    <2> SUFFICES ASSUME NEW e PROVE Entry(e)' <=> Entry(e)
      OBVIOUS
    <2>1. ASSUME Entry(e) PROVE Entry(e)'
      <3>1. CASE \E j \in DOMAIN provisional : e = provisional[j]
        BY <1>b, <3>1 DEF Entry
      <3>2. CASE e = queue[1]
        BY <1>a, <1>b, <3>2 DEF Entry
      <3>3. ASSUME NEW k \in DOMAIN queue, k # 1, e = queue[k] PROVE Entry(e)'
        <4>1. k - 1 \in DOMAIN queue' /\ queue'[k - 1] = queue[k]
          BY <1>a, <3>3
        <4> QED BY <3>3, <4>1 DEF Entry
      <3> QED BY <2>1, <3>1, <3>2, <3>3 DEF Entry
    <2>2. ASSUME Entry(e)' PROVE Entry(e)
      <3>1. CASE \E j \in DOMAIN provisional' : e = provisional'[j]
        BY <1>a, <1>b, <3>1 DEF Entry
      <3>2. CASE \E k \in DOMAIN queue' : e = queue'[k]
        BY <1>a, <3>2 DEF Entry
      <3> QED BY <2>2, <3>1, <3>2 DEF Entry
    <2> QED BY <2>1, <2>2
  <1> HIDE DEF h
  <1>1. TypeOK'
    BY <1>a, <1>b DEF TypeOK, Modes
  <1>2. Shape'
    BY DEF Shape, TypeOK, Asked
  <1>3. Purse'
    BY DEF Purse, TypeOK
  <1>4. OnTheWay'
    BY DEF OnTheWay, Asked
  <1>5. WaitInOrder'
    <2>1. \A k \in DOMAIN queue : queue[k].at \in Nat
      BY <1>a, EntryIs
    <2>2. \A j \in DOMAIN provisional : provisional[j].at \in Nat
      BY <1>a, EntryIs
    <2>3. InOrder(queue)'
      BY <1>a, <2>1 DEF WaitInOrder, InOrder
    <2>4. InOrder(provisional)'
      BY <1>a, <1>b, <2>1, <2>2 DEF WaitInOrder, InOrder
    <2>5. ASSUME NEW j \in DOMAIN provisional', NEW k \in DOMAIN queue'
          PROVE  provisional'[j].at < queue'[k].at
      BY <1>a, <1>b DEF WaitInOrder, InOrder
    <2> QED BY <2>3, <2>4, <2>5 DEF WaitInOrder
  <1>6. EntriesRight'
    BY <1>c DEF EntriesRight, OfCompleted, StillKeptBack, Sharing
  <1>7. Owed'
    BY <1>c DEF Owed, Final
  <1>8. RoundUnchanged'
    BY <1>a, <1>b DEF RoundUnchanged, h
  <1>9. SettledTogether'
    BY DEF SettledTogether, Final
  <1>10. ReliesOnEnough'
    BY DEF ReliesOnEnough, Asked
  <1>11. StatsAddUp'
    BY DEF StatsAddUp, Asked
  <1> QED
    BY <1>1, <1>2, <1>3, <1>4, <1>5, <1>6, <1>7, <1>8, <1>9, <1>10, <1>11

\* A result is done again.
LEMMA StartAgainKeeps == Inv /\ StartAgain => Inv'
  <1> SUFFICES ASSUME Inv, StartAgain PROVE Inv'
    OBVIOUS
  <1> USE DEF Inv, StartAgain, callVars
  <1>a. queue \in Seq(Entries) /\ Head(queue) \in Entries /\ Head(queue) = queue[1] /\ 1 \in DOMAIN queue
    BY HeadAndTail DEF TypeOK
  <1>b. OfCompleted(Head(queue))
    BY <1>a DEF EntriesRight, Entry
  <1>c. Head(queue).at \in Nat /\ done[Head(queue).at].to \in Forms
    <2>1. Head(queue).at \in Nat
      BY <1>a DEF Entries
    <2>2. \A i \in DOMAIN done : done[i] \in Outcomes
      BY DEF TypeOK
    <2>3. \A i \in DOMAIN done : done[i].to \in Forms
      BY <2>2 DEF Outcomes
    <2> QED BY <1>b, <2>1, <2>3 DEF OfCompleted
  <1>1. TypeOK'
    BY <1>a, <1>c DEF TypeOK, Modes
  <1>2. Shape'
    BY DEF Shape, TypeOK, Asked
  <1>3. Purse'
    BY DEF Purse, TypeOK
  <1>4. OnTheWay'
    BY EqualChains DEF OnTheWay
  <1>5. WaitInOrder'
    BY DEF WaitInOrder, InOrder
  <1>6. EntriesRight'
    BY DEF EntriesRight, Entry, OfCompleted, StillKeptBack, Sharing
  <1>7. Owed'
    BY DEF Owed, Entry, Final
  <1>8. RoundUnchanged'
    BY DEF RoundUnchanged
  <1>9. SettledTogether'
    BY DEF SettledTogether, Final
  <1>10. ReliesOnEnough'
    BY DEF ReliesOnEnough, Asked
  <1>11. StatsAddUp'
    BY DEF StatsAddUp, Asked
  <1> QED
    BY <1>1, <1>2, <1>3, <1>4, <1>5, <1>6, <1>7, <1>8, <1>9, <1>10, <1>11

\* A result done again replaces the one counted, and waits again if it is not final.
LEMMA FinishAgainKeeps == Inv /\ FinishAgain => Inv'
  <1> SUFFICES ASSUME Inv, FinishAgain PROVE Inv'
    OBVIOUS
  <1> USE DEF Inv, callVars, stratVars
  <1>a. PICK end \in StrategyEnds :
          LET root  == Asked[active]
              old   == done[active]
              moved == cur # old.to
              now   == IF moved THEN version + 1 ELSE version
          IN  /\ done' = [done EXCEPT ![active] = Outcome(cur, end, Joined(old.rel, rel))]
              /\ stats' = Recounted(stats, old.to # root, moved, end, cur # root)
              /\ live' = [live EXCEPT ![active] = cur]
              /\ version' = now
              /\ changed' = (changed \/ moved)
              /\ provisional' = IF end = "completed" /\ ~Final(cur)
                                THEN Append(provisional, [at |-> active, seen |-> now])
                                ELSE provisional
    BY DEF FinishAgain
  <1> DEFINE o == Outcome(cur, end, done[active].rel \cup rel)
             x == [at |-> active, seen |-> version']
             waits == end = "completed" /\ ~Final(cur)
  <1>b. /\ mode = "again" /\ mode' = "queue" /\ queue' = Tail(queue) /\ Asked' = Asked
        /\ UNCHANGED <<active, round, late, failed, callVars, stratVars>>
    BY DEF FinishAgain, Asked
  <1>c. /\ queue \in Seq(Entries) /\ active = queue[1].at /\ Len(queue) \in Nat \ {0}
        /\ DOMAIN queue = 1 .. Len(queue) /\ queue[1] \in Entries /\ active \in Nat
        /\ queue' \in Seq(Entries) /\ DOMAIN queue' = 1 .. Len(queue) - 1
        /\ \A i \in 1 .. Len(queue) - 1 : queue'[i] = queue[i + 1]
    BY <1>b, HeadAndTail DEF TypeOK, Shape
  <1>d. active \in DOMAIN done /\ done[active].end = "completed"
    <2>1. Entry(queue[1])
      BY <1>c DEF Entry
    <2> QED BY <1>c, <2>1 DEF EntriesRight, OfCompleted
  <1>e. /\ done \in Seq(Outcomes) /\ live \in Seq(Forms) /\ Len(live) = Len(Asked)
        /\ DOMAIN live = 1 .. Len(Asked) /\ DOMAIN done = 1 .. Len(Asked)
        /\ live[active] = done[active].to /\ cur \in Forms /\ version \in Nat
    BY <1>b, <1>d, AskedIs DEF Shape, TypeOK
  <1>f. done[active].rel \subseteq Constraints
    <2>1. done[active] \in Outcomes
      BY <1>d, <1>e
    <2> QED BY <2>1 DEF Outcomes
  <1>g. o \in Outcomes /\ o.end = end /\ o.to = cur /\ o.rel = done[active].rel \cup rel
    BY <1>e, <1>f, EndIs DEF Outcome, Outcomes, TypeOK
  <1>h. /\ done' = [done EXCEPT ![active] = o] /\ done' \in Seq(Outcomes)
        /\ DOMAIN done' = DOMAIN done /\ Len(done') = Len(done) /\ done'[active] = o
        /\ \A i \in DOMAIN done \ {active} : done'[i] = done[i]
    <2>1. done' = [done EXCEPT ![active] = o]
      BY <1>a DEF Joined
    <2> HIDE DEF o
    <2> QED BY <1>d, <1>e, <1>g, <2>1
  <1>i. stats' = Recounted(stats, done[active].to # Asked[active], o.to # done[active].to, o.end,
                           o.to # Asked[active])
    BY <1>a, <1>g
  <1>j. /\ live' \in Seq(Forms) /\ Len(live') = Len(live) /\ DOMAIN live' = DOMAIN live
        /\ live'[active] = cur
        /\ \A j \in DOMAIN live \ {active} : live'[j] = live[j]
    BY <1>a, <1>d, <1>e
  <1>k. \/ changed' /\ version' = version + 1
        \/ changed' = changed /\ version' = version /\ live' = live
    <2>1. CASE cur # done[active].to
      BY <1>a, <2>1
    <2>2. CASE cur = done[active].to
      BY <1>a, <1>d, <1>e, <2>2 DEF TypeOK
    <2> QED BY <2>1, <2>2
  <1>l. /\ x \in Entries /\ x.at = active /\ x.seen = version'
        /\ provisional \in Seq(Entries) /\ changed' \in BOOLEAN /\ version' \in Nat
        /\ provisional' = IF waits THEN Append(provisional, x) ELSE provisional
    <2>1. version' \in Nat /\ changed' \in BOOLEAN
      <3>1. version' \in Nat
        BY <1>e, <1>k
      <3>2. changed' \in BOOLEAN
        BY <1>a
      <3> QED BY <3>1, <3>2
    <2> QED BY <1>a, <1>c, <2>1 DEF Entries, TypeOK
  <1>m. /\ DOMAIN provisional = 1 .. Len(provisional) /\ Len(provisional) \in Nat
        /\ DOMAIN provisional' = 1 .. Len(provisional) + (IF waits THEN 1 ELSE 0)
        /\ \A i \in 1 .. Len(provisional) : provisional'[i] = provisional[i]
        /\ waits => provisional'[Len(provisional) + 1] = x
        /\ provisional' \in Seq(Entries)
    <2> HIDE DEF x, waits
    <2> QED BY <1>l, Appended
  <1>n. /\ \A j \in DOMAIN provisional : provisional[j].at \in Nat /\ provisional[j].at < active
        /\ \A k \in DOMAIN queue : queue[k].at \in Nat /\ (k # 1 => active < queue[k].at)
    <2>1. ASSUME NEW j \in DOMAIN provisional
          PROVE  provisional[j].at \in Nat /\ provisional[j].at < active
      <3>1. provisional[j].at \in Nat
        BY <1>l, EntryIs
      <3>2. 1 \in DOMAIN queue /\ active = queue[1].at
        BY <1>c
      <3>3. provisional[j].at < queue[1].at
        BY <3>2 DEF WaitInOrder
      <3> QED BY <3>1, <3>2, <3>3
    <2>2. ASSUME NEW k \in DOMAIN queue
          PROVE  queue[k].at \in Nat /\ (k # 1 => active < queue[k].at)
      <3>1. queue[k].at \in Nat
        BY <1>c, EntryIs
      <3>2. k # 1 => 1 < k /\ 1 \in DOMAIN queue
        BY <1>c
      <3> QED BY <1>c, <3>1, <3>2 DEF WaitInOrder, InOrder
    <2> QED BY <2>1, <2>2
  <1>o. /\ \A e : Entry(e)' => (Entry(e) /\ e.at # active) \/ (waits /\ e = x)
        /\ \A e : (Entry(e) /\ e.at # active) \/ (waits /\ e = x) => Entry(e)'
    <2>1. ASSUME NEW e, Entry(e)' PROVE (Entry(e) /\ e.at # active) \/ (waits /\ e = x)
      <3>1. CASE \E j \in DOMAIN provisional' : e = provisional'[j]
        <4> PICK j \in DOMAIN provisional' : e = provisional'[j]
          BY <3>1
        <4>1. CASE j \in DOMAIN provisional
          <5>1. e = provisional[j] /\ e.at < active /\ e.at \in Nat
            BY <1>m, <1>n, <4>1
          <5> QED BY <1>c, <4>1, <5>1 DEF Entry
        <4>2. CASE j \notin DOMAIN provisional
          BY <1>m, <4>2
        <4> QED BY <4>1, <4>2
      <3>2. CASE \E k \in DOMAIN queue' : e = queue'[k]
        <4> PICK k \in DOMAIN queue' : e = queue'[k]
          BY <3>2
        <4>1. k + 1 \in DOMAIN queue /\ k + 1 # 1 /\ e = queue[k + 1]
          BY <1>c
        <4>2. e.at \in Nat /\ active < e.at
          BY <1>n, <4>1
        <4> QED BY <1>c, <4>1, <4>2 DEF Entry
      <3> QED BY <2>1, <3>1, <3>2 DEF Entry
    <2>2. ASSUME NEW e, Entry(e), e.at # active PROVE Entry(e)'
      <3>1. CASE \E j \in DOMAIN provisional : e = provisional[j]
        BY <1>m, <3>1 DEF Entry
      <3>2. CASE \E k \in DOMAIN queue : e = queue[k]
        <4> PICK k \in DOMAIN queue : e = queue[k]
          BY <3>2
        <4>1. k - 1 \in DOMAIN queue' /\ queue'[k - 1] = queue[k]
          BY <1>c, <2>2
        <4> QED BY <4>1 DEF Entry
      <3> QED BY <2>2, <3>1, <3>2 DEF Entry
    <2>3. ASSUME NEW e, waits, e = x PROVE Entry(e)'
      BY <1>m, <2>3 DEF Entry
    <2> HIDE DEF x, waits
    <2> QED BY <2>1, <2>2, <2>3
  <1>p. waits => Len(live) > 1 /\ Sharing(active)'
    <2>1. SUFFICES ASSUME waits PROVE Len(live) > 1 /\ Sharing(active)'
      OBVIOUS
    <2>2. KeptBack(cur)
      BY <2>1, EndIs
    <2>3. PICK j \in DOMAIN live \ {active} : live[j] \in KeptBackBy[cur]
      BY <2>2 DEF KeptBack, Others
    <2>4. Len(live) > 1
      <3>1. Len(live) \in Nat /\ j \in 1 .. Len(live) /\ active \in 1 .. Len(live) /\ j # active
        BY <1>d, <1>e, <2>3, AskedIs
      <3> QED BY <3>1
    <2>5. live'[j] \in KeptBackBy[done'[active].to] /\ j \in DOMAIN live' \ {active}
      BY <1>g, <1>h, <1>j, <2>3
    <2> QED BY <1>b, <2>4, <2>5 DEF Sharing
  <1> HIDE DEF o, x
  <1>1. TypeOK'
    <2>1. stats' \in Counts(BOOLEAN)
      BY <1>b, <1>d, <1>g, <1>h, <1>i, TallyReplaced
    <2> QED BY <1>b, <1>c, <1>h, <1>j, <1>l, <1>m, <2>1 DEF TypeOK, Modes
  <1>2. Shape'
    <2>1. ASSUME NEW i \in DOMAIN live'
          PROVE  live'[i] = IF i \in DOMAIN done' THEN done'[i].to ELSE Asked'[i]
      <3>1. CASE i = active
        BY <1>d, <1>g, <1>h, <1>j, <3>1
      <3>2. CASE i # active
        <4>1. i \in DOMAIN live /\ live'[i] = live[i] /\ i \in DOMAIN done /\ done'[i] = done[i]
          BY <1>e, <1>h, <1>j, <3>2
        <4> QED BY <1>h, <4>1 DEF Shape
      <3> QED BY <3>1, <3>2
    <2> QED BY <1>b, <1>e, <1>h, <1>j, <2>1 DEF Shape
  <1>3. Purse'
    BY <1>b DEF Purse
  <1>4. OnTheWay'
    BY <1>b DEF OnTheWay
  <1>5. WaitInOrder'
    <2>1. InOrder(queue)'
      <3>1. \A j, k \in DOMAIN queue' : j < k => j + 1 < k + 1 /\ j + 1 \in DOMAIN queue /\ k + 1 \in DOMAIN queue
        BY <1>c
      <3> QED BY <1>c, <3>1 DEF WaitInOrder, InOrder
    <2>2. InOrder(provisional)'
      BY <1>c, <1>l, <1>m, <1>n DEF WaitInOrder, InOrder
    <2>3. ASSUME NEW j \in DOMAIN provisional', NEW k \in DOMAIN queue'
          PROVE  provisional'[j].at < queue'[k].at
      <3>1. k + 1 \in DOMAIN queue /\ k + 1 # 1 /\ queue'[k] = queue[k + 1]
        BY <1>c
      <3>2. active < queue'[k].at /\ queue'[k].at \in Nat
        BY <1>n, <3>1
      <3>3. provisional'[j].at \in Nat /\ provisional'[j].at <= active
        BY <1>c, <1>l, <1>m, <1>n
      <3> QED BY <1>c, <3>2, <3>3
    <2> QED BY <2>1, <2>2, <2>3 DEF WaitInOrder
  <1>6. EntriesRight'
    <2>1. SUFFICES ASSUME NEW e \in Entries, (Entry(e) /\ e.at # active) \/ (waits /\ e = x)
                   PROVE  OfCompleted(e)' /\ StillKeptBack(e)'
      BY <1>o DEF EntriesRight
    <2>2. CASE waits /\ e = x
      <3>1. e.at = active /\ e.seen = version' /\ active \in DOMAIN done' /\ done'[active].end = "completed"
        BY <1>d, <1>g, <1>h, <1>l, <2>2
      <3>2. OfCompleted(e)'
        BY <3>1 DEF OfCompleted
      <3>3. version' <= version'
        BY <1>l
      <3>4. StillKeptBack(e)'
        BY <1>b, <1>p, <2>2, <3>1, <3>3 DEF StillKeptBack
      <3> QED BY <3>2, <3>4
    <2>3. CASE Entry(e) /\ e.at # active
      <3>1. OfCompleted(e) /\ StillKeptBack(e) /\ e.seen \in Nat
        BY <2>3 DEF EntriesRight, Entries
      <3>2. e.at \in DOMAIN done /\ e.at \in DOMAIN done' /\ done'[e.at] = done[e.at]
        BY <1>h, <2>3, <3>1 DEF OfCompleted
      <3>3. OfCompleted(e)'
        BY <3>1, <3>2 DEF OfCompleted
      <3>4. CASE version' = version + 1
        BY <1>e, <3>1, <3>3, <3>4 DEF StillKeptBack
      <3>5. CASE version' = version /\ live' = live
        BY <3>1, <3>2, <3>3, <3>5 DEF StillKeptBack, Sharing
      <3> QED BY <1>k, <3>4, <3>5
    <2> QED BY <2>1, <2>2, <2>3
  <1>7. Owed'
    <2>1. SUFFICES ASSUME NEW i \in DOMAIN done', done'[i].end = "completed", ~Final(done'[i].to)
                   PROVE  Len(live') > 1 /\ \E e \in Entries : Entry(e)' /\ e.at = i
      BY DEF Owed, Final
    <2>2. CASE i = active
      <3>1. waits
        BY <1>g, <1>h, <2>1, <2>2
      <3> QED BY <1>j, <1>l, <1>o, <1>p, <2>2, <3>1
    <2>3. CASE i # active
      <3>1. i \in DOMAIN done /\ done'[i] = done[i]
        BY <1>h, <2>3
      <3>2. Len(live) > 1 /\ \E e \in Entries : Entry(e) /\ e.at = i
        BY <2>1, <3>1 DEF Owed
      <3> QED BY <1>j, <1>o, <2>3, <3>2
    <2> QED BY <2>2, <2>3
  <1>8. RoundUnchanged'
    <2>1. SUFFICES ASSUME ~changed', NEW j \in DOMAIN provisional'
                   PROVE  provisional'[j].seen = version'
      BY DEF RoundUnchanged
    <2>2. version' = version /\ ~changed
      BY <1>k, <2>1
    <2>3. \A i \in DOMAIN provisional : provisional[i].seen = version
      BY <1>b, <2>2 DEF RoundUnchanged
    <2> QED BY <1>l, <1>m, <2>2, <2>3
  <1>9. SettledTogether'
    BY <1>b DEF SettledTogether
  <1>10. ReliesOnEnough'
    <2>1. Equal(done[active].to, cur, rel)
      BY <1>b DEF OnTheWay
    <2>2. Equal(Asked[active], done[active].to, done[active].rel)
      BY <1>d, EqualChains DEF ReliesOnEnough
    <2>3. Equal(Asked[active], cur, done[active].rel \cup rel)
      BY <2>1, <2>2, EqualChains
    <2>4. SUFFICES ASSUME NEW i \in DOMAIN done'
                   PROVE  Equal(Asked[i], done'[i].to, IF done'[i].to = Asked[i] THEN {} ELSE done'[i].rel)
      BY <1>b DEF ReliesOnEnough
    <2>5. CASE i = active
      BY <1>g, <1>h, <2>3, <2>5, EqualChains
    <2>6. CASE i # active
      <3>1. i \in DOMAIN done /\ done'[i] = done[i]
        BY <1>h, <2>6
      <3> QED BY <3>1 DEF ReliesOnEnough
    <2> QED BY <2>5, <2>6
  <1>11. StatsAddUp'
    BY <1>b, <1>d, <1>g, <1>h, <1>i, TallyReplaced
  <1> QED
    BY <1>1, <1>2, <1>3, <1>4, <1>5, <1>6, <1>7, <1>8, <1>9, <1>10, <1>11

\* The round has looked at all of them.
LEMMA EndRoundKeeps == Inv /\ EndRound => Inv'
  <1> SUFFICES ASSUME Inv, EndRound PROVE Inv'
    OBVIOUS
  <1> USE DEF Inv, EndRound, Asked, callVars, stratVars
  <1>1. TypeOK'
    BY DEF TypeOK, Modes
  <1>2. Shape'
    BY DEF Shape, TypeOK
  <1>3. Purse'
    BY DEF Purse, TypeOK
  <1>4. OnTheWay'
    BY DEF OnTheWay
  <1>5. WaitInOrder'
    BY DEF WaitInOrder, InOrder
  <1>6. EntriesRight'
    BY DEF EntriesRight, Entry, OfCompleted, StillKeptBack, Sharing
  <1>7. Owed'
    BY DEF Owed, Entry, Final
  <1>8. RoundUnchanged'
    BY DEF RoundUnchanged
  <1>9. SettledTogether'
    BY DEF SettledTogether, Final
  <1>10. ReliesOnEnough'
    BY DEF ReliesOnEnough
  <1>11. StatsAddUp'
    BY DEF StatsAddUp
  <1> QED
    BY <1>1, <1>2, <1>3, <1>4, <1>5, <1>6, <1>7, <1>8, <1>9, <1>10, <1>11

\* Without another round, everything completed is settled.
LEMMA ReturnKeeps == Inv /\ Return => Inv'
  <1> SUFFICES ASSUME Inv, Return PROVE Inv'
    OBVIOUS
  <1> USE DEF Inv, Return, Paid, stratVars
  <1>1. TypeOK'
    BY DEF TypeOK, Modes, Purse
  <1>2. Shape'
    BY DEF Shape, TypeOK, Asked
  <1>3. Purse'
    BY BudgetsAssumption DEF Purse, TypeOK
  <1>4. OnTheWay'
    BY DEF OnTheWay
  <1>5. WaitInOrder'
    BY DEF WaitInOrder, InOrder
  <1>6. EntriesRight'
    BY DEF EntriesRight, Entry, OfCompleted, StillKeptBack, Sharing
  <1>7. Owed'
    BY DEF Owed, Entry, Final
  <1>8. RoundUnchanged'
    BY DEF RoundUnchanged
  <1>9. SettledTogether'
    <2>1. SUFFICES ASSUME ~failed, round < 3 \/ ~changed, NEW i \in DOMAIN done,
                          done[i].end = "completed", ~Final(done[i].to)
                   PROVE  \E j \in DOMAIN done \ {i} : done[j].to \in KeptBackBy[done[i].to]
      BY DEF SettledTogether, Final
    <2>2. PICK e \in Entries : Entry(e) /\ e.at = i
      BY <2>1 DEF Owed
    <2>3. Len(live) > 1 /\ queue = <<>> /\ DOMAIN queue = {}
      BY <2>1 DEF Owed, Shape
    <2>4. PICK k \in DOMAIN provisional : e = provisional[k]
      BY <2>2, <2>3 DEF Entry
    <2>5. provisional # <<>>
      BY <2>4
    <2>6. round > 0 /\ ~changed
      BY <2>1, <2>3, <2>5 DEF AnotherRound, TypeOK
    <2>7. e.seen = version
      BY <2>4, <2>6 DEF RoundUnchanged
    <2>8. Sharing(i)
      BY <2>2, <2>7 DEF EntriesRight, StillKeptBack
    <2>9. DOMAIN live = DOMAIN done
      BY <2>1, AskedIs DEF Shape, TypeOK
    <2> QED BY <2>8, <2>9 DEF Sharing, Shape
  <1>10. ReliesOnEnough'
    BY DEF ReliesOnEnough, Asked
  <1>11. StatsAddUp'
    BY DEF StatsAddUp, Asked
  <1> QED
    BY <1>1, <1>2, <1>3, <1>4, <1>5, <1>6, <1>7, <1>8, <1>9, <1>10, <1>11

-----------------------------------------------------------------------------
(* The theorems. *)

\* Nothing is asked for, done or waiting at the start.
LEMMA InvInit == Init => Inv
  <1> SUFFICES ASSUME Init PROVE Inv
    OBVIOUS
  <1>1. /\ DOMAIN done = {} /\ DOMAIN provisional = {} /\ DOMAIN queue = {} /\ DOMAIN live = {}
        /\ done = <<>> /\ live = <<>> /\ provisional = <<>> /\ queue = <<>> /\ batch = <<>>
        /\ Len(live) = 0 /\ Len(done) = 0 /\ mode = "idle"
    BY DEF Init
  <1>2. <<>> \in Seq(Forms) /\ <<>> \in Seq(Outcomes) /\ <<>> \in Seq(Entries)
    OBVIOUS
  <1>3. TypeOK
    <2>1. stats \in Counts(BOOLEAN)
      BY DEF Init, NoStats, Counts
    <2>2. allowance \in Nat /\ limit \in Nat /\ spent \in Nat /\ calls \in Nat /\ worked \in Nat
      BY BudgetsAssumption DEF Init
    <2>3. active \in Nat /\ version \in Nat /\ round \in Nat /\ changed \in BOOLEAN /\ rel = {}
          /\ late \in BOOLEAN /\ failed \in BOOLEAN
      BY DEF Init
    <2> QED BY <1>1, <1>2, <2>1, <2>2, <2>3 DEF TypeOK, Modes
  <1>4. Len(Asked) = 0
    <2>1. DOMAIN Distinct(<<>>) = {}
      <3> DEFINE firsts == {i \in DOMAIN <<>> : \A j \in 1 .. i - 1 : <<>>[j] # <<>>[i]}
                 At(k) == CHOOSE i \in firsts : Cardinality({j \in firsts : j <= i}) = k
      <3>1. firsts = {} /\ Cardinality({}) = 0
        BY FS_EmptySet
      <3>2. 1 .. Cardinality(firsts) = {}
        <4> HIDE DEF firsts
        <4> QED BY <3>1
      <3>3. Distinct(<<>>) = [k \in 1 .. Cardinality(firsts) |-> <<>>[At(k)]]
        BY DEF Distinct
      <3> HIDE DEF firsts, At
      <3> QED BY <3>2, <3>3
    <2>2. Distinct(<<>>) \in Seq(Forms)
      BY <1>2, DistinctRoots
    <2>3. Len(Distinct(<<>>)) = 0
      BY <2>1, <2>2
    <2> QED BY <1>1, <2>3 DEF Asked
  <1>5. Shape
    BY <1>1, <1>4 DEF Shape
  <1>6. Purse
    BY BudgetsAssumption DEF Init, Purse
  <1>7. StatsAddUp
    BY <1>1, NoneCounted DEF Init, StatsAddUp
  <1> QED
    BY <1>1, <1>3, <1>5, <1>6, <1>7 DEF Inv, OnTheWay, WaitInOrder, InOrder, EntriesRight, Entry, Owed,
       RoundUnchanged, SettledTogether, ReliesOnEnough

\* A step that changes nothing keeps the invariant.
LEMMA InvStutters == Inv /\ UNCHANGED vars => Inv'
  <1> SUFFICES ASSUME Inv, UNCHANGED vars PROVE Inv'
    OBVIOUS
  <1>1. Asked' = Asked
    BY DEF vars, callVars, Asked
  <1>2. TypeOK' /\ Shape' /\ Purse' /\ OnTheWay'
    BY <1>1 DEF vars, callVars, stratVars, Inv, TypeOK, Shape, Purse, OnTheWay
  <1>3. WaitInOrder' /\ EntriesRight' /\ Owed' /\ RoundUnchanged'
    BY DEF vars, callVars, stratVars, Inv, WaitInOrder, InOrder, EntriesRight, Entry, OfCompleted,
       StillKeptBack, Sharing, Owed, Final, RoundUnchanged
  <1>4. SettledTogether' /\ ReliesOnEnough' /\ StatsAddUp'
    BY <1>1 DEF vars, callVars, stratVars, Inv, SettledTogether, Final, ReliesOnEnough, StatsAddUp
  <1> QED BY <1>2, <1>3, <1>4 DEF Inv

\* The invariant holds in every reachable state.
LEMMA InvAlways == Spec => []Inv
  <1>1. Inv /\ [Next]_vars => Inv'
    <2> SUFFICES ASSUME Inv, [Next]_vars PROVE Inv'
      OBVIOUS
    <2>1. CASE UNCHANGED vars
      BY <2>1, InvStutters
    <2>2. CASE Next
      BY <2>2, CallKeeps, PassKeeps, TurnAwayKeeps, StartRootKeeps, StepKeeps, FinishRootKeeps, FailKeeps,
         RootsDoneKeeps, StartRoundKeeps, StillSettledKeeps, StartAgainKeeps, FinishAgainKeeps,
         EndRoundKeeps, ReturnKeeps DEF Next, Run
    <2> QED BY <2>1, <2>2
  <1> QED BY <1>1, InvInit, PTL DEF Spec

\* Types of the variables of a call on several roots.
THEOREM TypeCorrect == Spec => []TypeOK
  <1>1. Inv => TypeOK
    BY DEF Inv
  <1> QED BY <1>1, InvAlways, PTL

\* Every rewrite that only sharing kept back was looked at again among the results of the others
\* when a call ends because a round changed nothing, for any roots and rewrites.
THEOREM AlwaysSettledTogether == Spec => []SettledTogether
  <1>1. Inv => SettledTogether
    BY DEF Inv
  <1> QED BY <1>1, InvAlways, PTL

\* A result equals its root wherever the constraints reported with it hold, whichever of the
\* root's runs used them.
THEOREM AlwaysReliesOnEnough == Spec => []ReliesOnEnough
  <1>1. Inv => ReliesOnEnough
    BY DEF Inv
  <1> QED BY <1>1, InvAlways, PTL

\* The statistics count each distinct root once, however often it was done again.
THEOREM StatsAlwaysAddUp == Spec => []StatsAddUp
  <1>1. Inv => StatsAddUp
    BY DEF Inv
  <1> QED BY <1>1, InvAlways, PTL

\* Calls together rewrite no more than the allowance, which pays for all of it.
THEOREM AllowanceAlwaysPaysForAll == Spec => []AllowancePaysForAll
  <1>1. Inv => AllowancePaysForAll
    <2> SUFFICES ASSUME Inv PROVE AllowancePaysForAll
      OBVIOUS
    <2>1. /\ worked \in Nat /\ spent \in Nat /\ limit \in Nat /\ allowance \in Nat /\ Allowance \in Nat
          /\ Purse
      BY BudgetsAssumption DEF Inv, TypeOK
    <2> QED BY <2>1 DEF Purse, AllowancePaysForAll
  <1> QED BY <1>1, InvAlways, PTL
=============================================================================
