-------------------------- MODULE SimplifierProofs --------------------------
(***************************************************************************)
(* Proofs about Simplifier, for any nodes, phases, candidates and budgets. *)
(***************************************************************************)
EXTENDS Simplifier, FiniteSetTheorems, WellFoundedInduction, TLAPS

\* Partial maps from nodes into S, as a set.
Maps(S) == UNION {[D -> S] : D \in SUBSET Nodes}

Modes   == {"idle", "phase", "next", "walk", "try", "salvage"}
Finals  == [to : Nodes, rel : SUBSET Constraints]
Memos   == [key : Settings \cup {None}, result : [Phases -> Maps(Finals)]]
Partials == [Phases -> Maps(Results)]
Firsts  == [asked : BOOLEAN, fin : Fins]
Trials  == [node : Nodes \cup {None}, early : BOOLEAN, own : Fins, fin : Fins,
            left : Seq(Candidates), step : {"offered", "matched", "built"}]
Items   == [node : Nodes, expanded : BOOLEAN]
Spendings == [Counters -> Nat]

TypeContext == arena \subseteq Nodes /\ memo \in Memos /\ partial \in Partials
TypeCall ==
  /\ mode \in Modes
  /\ mode = "idle" <=> call = None
  /\ mode # "idle" => /\ call \in Calls /\ memo.key = call.setting
                      /\ cur \in Nodes /\ roundStart \in Nodes
  /\ phase \in Phases /\ round \in 1 .. MaxRounds /\ curFin \in Fins
TypeWalk ==
  /\ quarantined \subseteq Rewriters /\ rewritten \subseteq Nodes \X Nodes
  /\ stack \in Seq(Frames) /\ charged \in BOOLEAN
  /\ pending \in Maps(Nat \ {0}) /\ parent \in Maps(Nodes) /\ first \in Maps(Firsts)
TypeTry == trying \in Trials /\ (mode = "try" => trying.node \in Nodes)
TypeSalvage ==
  /\ work \in Seq(Items) /\ done \in Maps(Results) /\ open \subseteq Nodes
  /\ outcome # None => outcome.root \in Roots /\ outcome.to \in Nodes
Meter ==
  /\ spent \in Spendings
  /\ mode = "idle" => \A c \in Counters : spent[c] = 0
  /\ WithinBudget

\* The candidates still to be tried are among those the phase offers at the node.
Offers ==
  mode = "try" =>
    \A i \in DOMAIN trying.left :
      \E j \in DOMAIN Attempts(call.setting, phase, trying.node) :
        trying.left[i] = Attempts(call.setting, phase, trying.node)[j]

SoundMemo ==
  \A p \in Phases :
    /\ \A n \in DOMAIN memo.result[p] : Equal(n, memo.result[p][n].to, memo.result[p][n].rel)
    /\ \A n \in DOMAIN partial[p] : Agrees(n, partial[p][n])
Right(s) == \A i \in DOMAIN s : Equal(s[i].node, s[i].to, s[i].own.rel)
SoundStack == Right(stack)
SoundDone == \A n \in DOMAIN done : Agrees(n, done[n])
SoundCall ==
  /\ call # None => Equal(call.root, cur, curFin.rel)
  /\ outcome # None => Equal(outcome.root, outcome.to, outcome.rel)

Inv ==
  /\ TypeContext /\ TypeCall /\ TypeWalk /\ TypeTry /\ TypeSalvage
  /\ Meter /\ Offers
  /\ SoundMemo /\ SoundStack /\ SoundDone /\ SoundCall

-----------------------------------------------------------------------------
(* Operators. *)

\* Agreement is reflexive, chains, and is kept under more constraints.
LEMMA EqualChains ==
  /\ \A n, r : Equal(n, n, r)
  /\ \A l, m, n, r, s : Equal(l, m, r) /\ Equal(m, n, s) => Equal(l, n, r \cup s)
  /\ \A m, n, r, s : Equal(m, n, r) /\ r \subseteq s => Equal(m, n, s)
  BY DEF Equal

\* A partial map, and one more entry.
LEMMA MapIs ==
  ASSUME NEW S, NEW f \in Maps(S)
  PROVE  /\ DOMAIN f \subseteq Nodes /\ \A n \in DOMAIN f : f[n] \in S /\ n \in Nodes
         /\ IsPartial(f, S)
  BY DEF Maps, IsPartial

LEMMA PutIs ==
  ASSUME NEW S, NEW f \in Maps(S), NEW n \in Nodes, NEW v \in S
  PROVE  Put(f, n, v) \in Maps(S)
  <1>1. DOMAIN f \subseteq Nodes /\ \A m \in DOMAIN f : f[m] \in S
    BY MapIs
  <1>2. Put(f, n, v) \in [DOMAIN f \cup {n} -> S]
    BY <1>1 DEF Put
  <1>3. DOMAIN f \cup {n} \in SUBSET Nodes
    BY <1>1
  <1> QED BY <1>2, <1>3 DEF Maps

LEMMA EmptyIs ==
  /\ DOMAIN Empty = {} /\ \A S : Empty \in Maps(S)
  /\ NoResults \in Partials /\ NoResults \in [Phases -> Maps(Finals)]
  /\ \A p \in Phases : NoResults[p] = Empty
  <1>1. DOMAIN Empty = {}
    BY DEF Empty
  <1>2. ASSUME NEW S PROVE Empty \in Maps(S)
    <2>1. Empty \in [{} -> S] /\ {} \in SUBSET Nodes
      BY DEF Empty
    <2> QED BY <2>1 DEF Maps
  <1>3. \A p \in Phases : NoResults[p] = Empty
    BY DEF NoResults
  <1> QED BY <1>1, <1>2, <1>3 DEF NoResults, Partials

\* Finalities.
LEMMA FinsIs ==
  /\ FINAL \in Fins /\ PROVISIONAL \in Fins /\ CAPPED \in Fins
  /\ FINAL.done = TRUE /\ PROVISIONAL.done = FALSE /\ CAPPED.done = FALSE
  /\ FINAL.rel = {} /\ PROVISIONAL.rel = {} /\ CAPPED.rel = {}
  /\ \A rel \in SUBSET Constraints : Relying(rel) \in Fins /\ Relying(rel).rel = rel /\ Relying(rel).done = TRUE
  /\ \A f \in Fins : /\ WithoutRel(f) \in Fins /\ WithoutRel(f).rel = {} /\ WithoutRel(f).done = f.done
                     /\ f.done \in BOOLEAN /\ f.rel \in SUBSET Constraints
  /\ \A f, g \in Fins : /\ Both(f, g) \in Fins /\ Both(f, g).rel = f.rel \cup g.rel
                        /\ Both(f, g).done = (f.done /\ g.done)
  <1>1. /\ FINAL \in Fins /\ PROVISIONAL \in Fins /\ CAPPED \in Fins
        /\ FINAL.done = TRUE /\ PROVISIONAL.done = FALSE /\ CAPPED.done = FALSE
        /\ FINAL.rel = {} /\ PROVISIONAL.rel = {} /\ CAPPED.rel = {}
    BY DEF FINAL, PROVISIONAL, CAPPED, Fins
  <1>2. \A rel \in SUBSET Constraints :
          Relying(rel) \in Fins /\ Relying(rel).rel = rel /\ Relying(rel).done = TRUE
    BY DEF Relying, FINAL, Fins
  <1>3. \A f \in Fins : /\ WithoutRel(f) \in Fins /\ WithoutRel(f).rel = {} /\ WithoutRel(f).done = f.done
                        /\ f.done \in BOOLEAN /\ f.rel \in SUBSET Constraints
    BY DEF WithoutRel, Fins
  <1>4. \A f, g \in Fins : /\ Both(f, g) \in Fins /\ Both(f, g).rel = f.rel \cup g.rel
                           /\ Both(f, g).done = (f.done /\ g.done)
    BY DEF Both, Fins
  <1> QED BY <1>1, <1>2, <1>3, <1>4

LEMMA BothIs ==
  ASSUME NEW f \in Fins, NEW g \in Fins
  PROVE  /\ Both(f, g) \in Fins /\ Both(f, g).rel = f.rel \cup g.rel
         /\ Both(f, g).done = (f.done /\ g.done)
  BY FinsIs

LEMMA ResultIs ==
  /\ \A n \in Nodes, f \in Fins : /\ Result(n, f) \in Results
                                  /\ Result(n, f).to = n /\ Result(n, f).fin = f
  /\ \A r \in Results : r.to \in Nodes /\ r.fin \in Fins
  BY DEF Result, Results

\* The result known for a node, or the node itself.
LEMMA LookupIs ==
  ASSUME TypeContext, TypeCall, SoundMemo, NEW n \in Nodes, NEW f \in Fins
  PROVE  /\ Known(n) => Lookup(n) \in Results /\ Agrees(n, Lookup(n))
         /\ LookupOr(n, f) \in Results /\ Agrees(n, LookupOr(n, f))
  <1>1. phase \in Phases /\ memo.result[phase] \in Maps(Finals) /\ partial[phase] \in Maps(Results)
    BY DEF TypeContext, TypeCall, Memos, Partials
  <1>2. ASSUME n \in DOMAIN memo.result[phase]
        PROVE  Lookup(n) \in Results /\ Agrees(n, Lookup(n))
    <2> DEFINE known == memo.result[phase][n]
    <2>1. known \in Finals /\ Equal(n, known.to, known.rel)
      BY <1>1, <1>2, MapIs DEF SoundMemo
    <2>2. known.to \in Nodes /\ known.rel \in SUBSET Constraints
      BY <2>1 DEF Finals
    <2>3. Lookup(n) = Result(known.to, Relying(known.rel))
      BY <1>2 DEF Lookup
    <2> HIDE DEF known
    <2>4. Relying(known.rel) \in Fins /\ Relying(known.rel).rel = known.rel
      BY <2>2, FinsIs
    <2>5. Lookup(n) \in Results /\ Lookup(n).to = known.to /\ Lookup(n).fin = Relying(known.rel)
      BY <2>2, <2>3, <2>4, ResultIs
    <2> QED BY <2>1, <2>4, <2>5 DEF Agrees
  <1>3. ASSUME n \notin DOMAIN memo.result[phase], n \in DOMAIN partial[phase]
        PROVE  Lookup(n) \in Results /\ Agrees(n, Lookup(n))
    BY <1>1, <1>3, MapIs DEF SoundMemo, Lookup
  <1>4. Result(n, f) \in Results /\ Agrees(n, Result(n, f))
    BY ResultIs, EqualChains DEF Agrees
  <1> QED BY <1>2, <1>3, <1>4 DEF Known, LookupOr

\* What remembering a result changes.
LEMMA RememberIs ==
  ASSUME TypeContext, TypeCall, NEW n \in Nodes, NEW r \in Nodes, NEW f \in Fins, Remember(n, r, f)
  PROVE  /\ memo' \in Memos /\ partial' \in Partials /\ memo'.key = memo.key
         /\ \A p \in Phases :
              memo'.result[p] = IF p = phase /\ f.done THEN Put(memo.result[p], n, [to |-> r, rel |-> f.rel])
                                ELSE memo.result[p]
         /\ \A p \in Phases :
              partial'[p] = IF p = phase /\ ~f.done THEN Put(partial[p], n, Result(r, f)) ELSE partial[p]
  <1>1. phase \in Phases /\ memo \in Memos /\ partial \in Partials
    BY DEF TypeContext, TypeCall
  <1>2. memo.result \in [Phases -> Maps(Finals)] /\ memo.result[phase] \in Maps(Finals)
        /\ partial[phase] \in Maps(Results)
    BY <1>1 DEF Memos, Partials
  <1> DEFINE final == [to |-> r, rel |-> f.rel]
             kept == Put(memo.result[phase], n, final)
             some == Put(partial[phase], n, Result(r, f))
  <1>3. kept \in Maps(Finals)
    <2>1. final \in Finals
      BY FinsIs DEF Finals
    <2> HIDE DEF final
    <2> QED BY <1>2, <2>1, PutIs
  <1>4. some \in Maps(Results)
    BY <1>2, PutIs, ResultIs
  <1>5. CASE f.done
    <2>1. memo' = [memo EXCEPT !.result = [memo.result EXCEPT ![phase] = kept]] /\ partial' = partial
      BY <1>5 DEF Remember
    <2> HIDE DEF kept
    <2>2. [memo.result EXCEPT ![phase] = kept] \in [Phases -> Maps(Finals)]
      BY <1>2, <1>3
    <2>3. /\ memo' \in Memos /\ memo'.key = memo.key
          /\ memo'.result = [memo.result EXCEPT ![phase] = kept]
      BY <1>1, <2>1, <2>2 DEF Memos
    <2>4. \A p \in Phases : memo'.result[p] = IF p = phase THEN kept ELSE memo.result[p]
      BY <1>2, <2>3
    <2> QED BY <1>1, <1>5, <2>1, <2>3, <2>4 DEF kept
  <1>6. CASE ~f.done
    <2>1. partial' = [partial EXCEPT ![phase] = some] /\ memo' = memo
      BY <1>6 DEF Remember
    <2> HIDE DEF some
    <2>2. partial' \in Partials /\ \A p \in Phases : partial'[p] = IF p = phase THEN some ELSE partial[p]
      BY <1>1, <1>4, <2>1 DEF Partials
    <2> QED BY <1>1, <1>6, <2>1, <2>2 DEF some
  <1> QED BY <1>5, <1>6

\* A right result leaves what is remembered right.
LEMMA RememberSound ==
  ASSUME TypeContext, TypeCall, SoundMemo, NEW n \in Nodes, NEW r \in Nodes, NEW f \in Fins,
         Remember(n, r, f), Equal(n, r, f.rel)
  PROVE  SoundMemo'
  <1>1. Result(r, f).to = r /\ Result(r, f).fin = f
    BY ResultIs
  <1>2. ASSUME NEW p \in Phases, NEW m \in DOMAIN memo'.result[p]
        PROVE  Equal(m, memo'.result[p][m].to, memo'.result[p][m].rel)
    <2>1. CASE p = phase /\ f.done
      <3>1. memo'.result[p] = Put(memo.result[p], n, [to |-> r, rel |-> f.rel])
        BY <2>1, RememberIs
      <3> QED BY <1>2, <3>1 DEF Put, SoundMemo
    <2>2. CASE ~(p = phase /\ f.done)
      <3>1. memo'.result[p] = memo.result[p]
        BY <2>2, RememberIs
      <3> QED BY <1>2, <3>1 DEF SoundMemo
    <2> QED BY <2>1, <2>2
  <1>3. ASSUME NEW p \in Phases, NEW m \in DOMAIN partial'[p]
        PROVE  Agrees(m, partial'[p][m])
    <2>1. CASE p = phase /\ ~f.done
      <3>1. partial'[p] = Put(partial[p], n, Result(r, f))
        BY <2>1, RememberIs
      <3> QED BY <1>1, <1>3, <3>1 DEF Put, SoundMemo, Agrees
    <2>2. CASE ~(p = phase /\ ~f.done)
      <3>1. partial'[p] = partial[p]
        BY <2>2, RememberIs
      <3> QED BY <1>3, <3>1 DEF SoundMemo
    <2> QED BY <2>1, <2>2
  <1> QED BY <1>2, <1>3 DEF SoundMemo, Agrees

\* Meaning is kept over operands' results.
LEMMA RebuildIs ==
  ASSUME NEW n \in Nodes, NEW rs, DOMAIN rs = DOMAIN Kids(n),
         \A i \in DOMAIN Kids(n) : rs[i] \in Results /\ Agrees(Kids(n)[i], rs[i])
  PROVE  /\ KidsFin(rs) \in Fins /\ Rebuild(n, OverKids(rs)) \in Nodes
         /\ Equal(n, Rebuild(n, OverKids(rs)), KidsFin(rs).rel)
  <1>1. \A i \in DOMAIN rs : rs[i].to \in Nodes /\ rs[i].fin \in Fins
                             /\ rs[i].fin.rel \in SUBSET Constraints /\ rs[i].fin.done \in BOOLEAN
    BY ResultIs, FinsIs
  <1>2. KidsFin(rs) \in Fins /\ \A i \in DOMAIN rs : rs[i].fin.rel \subseteq KidsFin(rs).rel
    <2>1. UNION {rs[i].fin.rel : i \in DOMAIN rs} \in SUBSET Constraints
      BY <1>1
    <2> QED BY <2>1 DEF KidsFin, Fins
  <1>3. OverKids(rs) \in [DOMAIN Kids(n) -> Nodes]
    BY <1>1 DEF OverKids
  <1>4. ASSUME NEW w \in Worlds, \A k \in KidsFin(rs).rel : Holds(k, w)
        PROVE  Value(n, w) = Value(Rebuild(n, OverKids(rs)), w)
    <2>1. ASSUME NEW i \in DOMAIN Kids(n) PROVE Value(Kids(n)[i], w) = Value(OverKids(rs)[i], w)
      <3>1. Equal(Kids(n)[i], rs[i].to, rs[i].fin.rel)
        BY DEF Agrees
      <3>2. \A k \in rs[i].fin.rel : Holds(k, w)
        BY <1>2, <1>4
      <3> QED BY <3>1, <3>2 DEF Equal, OverKids
    <2> QED BY <1>3, <2>1, RebuildAssumption
  <1> QED BY <1>2, <1>3, <1>4, RebuildAssumption DEF Equal

LEMMA RebuiltIs ==
  ASSUME TypeContext, TypeCall, SoundMemo, NEW n \in Nodes, KidsKnown(n)
  PROVE  /\ KidsFin(KidResults(n)) \in Fins /\ Rebuilt(n) \in Nodes
         /\ Equal(n, Rebuilt(n), KidsFin(KidResults(n)).rel)
  <1> DEFINE rs == KidResults(n)
  <1>1. DOMAIN rs = DOMAIN Kids(n) /\ \A i \in DOMAIN Kids(n) : rs[i] = Lookup(Kids(n)[i])
    BY DEF KidResults
  <1>2. \A i \in DOMAIN Kids(n) : Kids(n)[i] \in Nodes
    BY NodesAssumption
  <1>3. \A i \in DOMAIN Kids(n) : rs[i] \in Results /\ Agrees(Kids(n)[i], rs[i])
    BY <1>1, <1>2, LookupIs, FinsIs DEF KidsKnown
  <1> HIDE DEF rs
  <1>4. /\ KidsFin(rs) \in Fins /\ Rebuild(n, OverKids(rs)) \in Nodes
        /\ Equal(n, Rebuild(n, OverKids(rs)), KidsFin(rs).rel)
    BY <1>1, <1>3, RebuildIs
  <1> QED BY <1>4, EqualChains DEF Rebuilt, rs

\* What building costs.
LEMMA MissingIs ==
  ASSUME NEW n \in Nodes
  PROVE  Below(n) \subseteq Nodes /\ IsFiniteSet(Missing(n)) /\ Cardinality(Missing(n)) \in Nat
  <1>1. IsFiniteSet(Below(n)) /\ Below(n) \subseteq Nodes /\ Missing(n) \in SUBSET Below(n)
    BY NodesAssumption DEF Missing
  <1>2. IsFiniteSet(Missing(n))
    BY <1>1, FS_Subset
  <1> QED BY <1>1, <1>2, FS_CardinalityType

\* A call's limits.
LEMMA CallIs ==
  ASSUME NEW c \in Calls
  PROVE  /\ c.setting \in Settings /\ c.root \in Roots /\ c.root \in Nodes /\ c.deadline \in BOOLEAN
         /\ c.limit \in [Counters -> Nat] /\ \A k \in Counters : c.limit[k] \in Nat
         /\ c # None /\ c.setting # None
  BY LimitsAssumption, NodesAssumption DEF Calls

\* A charge stays within the limits.
LEMMA ChargeKeeps ==
  ASSUME TypeCall, Meter, mode # "idle", NEW c \in Counters, NEW k \in Nat, Charge(c, k), call' = call
  PROVE  spent' \in Spendings /\ WithinBudget'
  <1>1. call \in Calls /\ call # None
    BY DEF TypeCall
  <1>2. \A d \in Counters : call.limit[d] \in Nat
    BY <1>1, CallIs
  <1>3. spent \in Spendings /\ \A d \in Counters : spent[d] \in Nat /\ spent[d] <= call.limit[d]
    BY <1>1 DEF Meter, WithinBudget, Spendings
  <1>4. \A d \in Counters : spent'[d] = IF d = c THEN spent[d] + k ELSE spent[d]
    BY <1>3 DEF Charge, Spendings
  <1>5. spent' \in Spendings
    BY <1>3 DEF Charge, Spendings
  <1>6. spent[c] + k <= call.limit[c]
    BY DEF Charge, Affords
  <1> QED BY <1>2, <1>3, <1>4, <1>5, <1>6 DEF WithinBudget

\* Nodes built for what is left of the budget.
LEMMA PartlyKeeps ==
  ASSUME TypeContext, TypeCall, Meter, mode # "idle", NEW n \in Nodes, Partly(n), call' = call
  PROVE  arena' \subseteq Nodes /\ spent' \in Spendings /\ WithinBudget'
  <1>1. call \in Calls /\ "new_nodes" \in Counters
    BY DEF TypeCall, Counters
  <1>2. \A d \in Counters : call.limit[d] \in Nat
    BY <1>1, CallIs
  <1>3. spent \in Spendings /\ \A d \in Counters : spent[d] \in Nat /\ spent[d] <= call.limit[d]
    BY <1>1, CallIs DEF Meter, WithinBudget, Spendings
  <1>4. spent' = [spent EXCEPT !["new_nodes"] = call.limit["new_nodes"]]
    BY DEF Partly
  <1>5. arena' \subseteq Nodes
    BY MissingIs DEF Partly, TypeContext, Missing
  <1>6. spent' \in Spendings /\ \A d \in Counters : spent'[d] <= call.limit[d]
    BY <1>1, <1>2, <1>3, <1>4 DEF Spendings
  <1> QED BY <1>5, <1>6 DEF WithinBudget

\* Positions in descending order are a sequence of them.
LEMMA DescendingIs ==
  ASSUME NEW m \in Nat, NEW S \in SUBSET (1 .. m), NEW order \in Descending(S)
  PROVE  order \in Seq(S) /\ DOMAIN order = 1 .. Cardinality(S) /\ Cardinality(S) \in Nat
  <1>1. IsFiniteSet(1 .. m)
    BY FS_Interval
  <1>2. IsFiniteSet(S)
    BY <1>1, FS_Subset
  <1>3. Cardinality(S) \in Nat
    BY <1>2, FS_CardinalityType
  <1>4. order \in [1 .. Cardinality(S) -> S]
    BY DEF Descending
  <1> QED BY <1>3, <1>4

LEMMA SeqIs ==
  ASSUME NEW S, NEW k \in Nat, NEW f \in [1 .. k -> S]
  PROVE  f \in Seq(S)
  OBVIOUS

\* What is on top of a sequence, and below.
LEMMA HeadTail ==
  ASSUME NEW S, NEW s \in Seq(S), s # <<>>
  PROVE  /\ Head(s) \in S /\ Head(s) = s[1] /\ 1 \in DOMAIN s /\ Tail(s) \in Seq(S)
         /\ Len(s) \in Nat /\ DOMAIN s = 1 .. Len(s) /\ DOMAIN Tail(s) = 1 .. Len(s) - 1
         /\ \A i \in DOMAIN Tail(s) : Tail(s)[i] = s[i + 1] /\ i + 1 \in DOMAIN s
  OBVIOUS

\* Frames on top of others.
LEMMA Pushed ==
  ASSUME NEW S, NEW s \in Seq(S), NEW t \in Seq(S)
  PROVE  /\ s \o t \in Seq(S) /\ Len(s) \in Nat /\ Len(t) \in Nat /\ Len(s \o t) = Len(s) + Len(t)
         /\ DOMAIN (s \o t) = 1 .. Len(s) + Len(t)
         /\ \A i \in DOMAIN (s \o t) :
              \/ i \in DOMAIN s /\ (s \o t)[i] = s[i]
              \/ i - Len(s) \in DOMAIN t /\ (s \o t)[i] = t[i - Len(s)]
         /\ \A i \in DOMAIN s : i \in DOMAIN (s \o t) /\ (s \o t)[i] = s[i]
         /\ \A i \in DOMAIN t : i + Len(s) \in DOMAIN (s \o t) /\ (s \o t)[i + Len(s)] = t[i]
         /\ \A i \in 1 .. Len(s) : (s \o t)[i] = s[i]
         /\ \A i \in 1 .. Len(t) : (s \o t)[i + Len(s)] = t[i]
  OBVIOUS

LEMMA FrameIs ==
  /\ \A n \in Nodes : Visit(n) \in Frames /\ Visit(n).kind = "visit" /\ Visit(n).node = n /\ Visit(n).to = n
  /\ \A n, t \in Nodes, f \in Fins : /\ FinishWith(n, t, f) \in Frames /\ FinishWith(n, t, f).kind = "finish"
                                     /\ FinishWith(n, t, f).node = n /\ FinishWith(n, t, f).to = t
                                     /\ FinishWith(n, t, f).own = f
  /\ \A x \in Frames : /\ x.kind \in {"visit", "finish"} /\ x.node \in Nodes /\ x.to \in Nodes /\ x.own \in Fins
  /\ \A n, t \in Nodes, f \in Fins : /\ Await(n, t, f) \in Seq(Frames) /\ Len(Await(n, t, f)) = 2
                                     /\ Await(n, t, f)[1] = Visit(t) /\ Await(n, t, f)[2] = FinishWith(n, t, f)
  <1>1. \A n \in Nodes : Visit(n) \in Frames /\ Visit(n).kind = "visit" /\ Visit(n).node = n /\ Visit(n).to = n
    BY FinsIs DEF Visit, Frames
  <1>2. \A n, t \in Nodes, f \in Fins : /\ FinishWith(n, t, f) \in Frames /\ FinishWith(n, t, f).kind = "finish"
                                        /\ FinishWith(n, t, f).node = n /\ FinishWith(n, t, f).to = t
                                        /\ FinishWith(n, t, f).own = f
    BY DEF FinishWith, Frames
  <1>3. \A x \in Frames : /\ x.kind \in {"visit", "finish"} /\ x.node \in Nodes /\ x.to \in Nodes /\ x.own \in Fins
    BY DEF Frames
  <1>4. \A n, t \in Nodes, f \in Fins : /\ Await(n, t, f) \in Seq(Frames) /\ Len(Await(n, t, f)) = 2
                                        /\ Await(n, t, f)[1] = Visit(t) /\ Await(n, t, f)[2] = FinishWith(n, t, f)
    BY <1>1, <1>2 DEF Await
  <1> QED BY <1>1, <1>2, <1>3, <1>4

\* Frames that are right, taken off and put on top.
LEMMA RightIs ==
  /\ \A s \in Seq(Frames) : s # <<>> /\ Right(s) => Right(Tail(s)) /\ Equal(Head(s).node, Head(s).to, Head(s).own.rel)
  /\ \A s, t \in Seq(Frames) : Right(s) /\ Right(t) => Right(s \o t)
  /\ \A n, t \in Nodes, f \in Fins : Equal(n, t, f.rel) => Right(Await(n, t, f))
  /\ Right(<<>>)
  /\ \A n \in Nodes : Right(<<Visit(n)>>)
  <1>1. ASSUME NEW s \in Seq(Frames), s # <<>>, Right(s)
        PROVE  Right(Tail(s)) /\ Equal(Head(s).node, Head(s).to, Head(s).own.rel)
    BY <1>1, HeadTail DEF Right
  <1>2. ASSUME NEW s \in Seq(Frames), NEW t \in Seq(Frames), Right(s), Right(t)
        PROVE  Right(s \o t)
    <2> SUFFICES ASSUME NEW i \in DOMAIN (s \o t)
                 PROVE  Equal((s \o t)[i].node, (s \o t)[i].to, (s \o t)[i].own.rel)
      BY DEF Right
    <2>1. \/ i \in DOMAIN s /\ (s \o t)[i] = s[i]
          \/ i - Len(s) \in DOMAIN t /\ (s \o t)[i] = t[i - Len(s)]
      BY Pushed
    <2> QED BY <1>2, <2>1 DEF Right
  <1>3. ASSUME NEW n \in Nodes, NEW t \in Nodes, NEW f \in Fins, Equal(n, t, f.rel)
        PROVE  Right(Await(n, t, f))
    <2>1. DOMAIN Await(n, t, f) = {1, 2}
      BY DEF Await
    <2> QED BY <1>3, <2>1, FrameIs, EqualChains DEF Right
  <1>4. Right(<<>>)
    BY DEF Right
  <1>5. ASSUME NEW n \in Nodes PROVE Right(<<Visit(n)>>)
    BY FrameIs, EqualChains DEF Right
  <1> QED BY <1>1, <1>2, <1>3, <1>4, <1>5

\* Every non-empty set of natural numbers has a least.
LEMMA LeastNat ==
  ASSUME NEW S \in SUBSET Nat, S # {}
  PROVE  \E n \in S : \A m \in S : n <= m
  <1> DEFINE R == {s \in Nat \X Nat : s[1] < s[2]}
  <1>1. IsWellFoundedOn(OpToRel(<, Nat), Nat)
    BY NatLessThanWellFounded
  <1>2. OpToRel(<, Nat) = R
    BY DEF OpToRel
  <1>3. IsWellFoundedOn(R, Nat)
    BY <1>1, <1>2
  <1>4. \E x \in S : \A y \in S : ~ (<<y, x>> \in R)
    BY <1>3, WFMin
  <1>5. PICK n \in S : \A m \in S : <<m, n>> \notin R
    BY <1>4
  <1>6. ASSUME NEW m \in S PROVE n <= m
    <2>1. <<m, n>> \in Nat \X Nat /\ <<m, n>>[1] = m /\ <<m, n>>[2] = n
      OBVIOUS
    <2>2. ~ (m < n)
      BY <1>5, <2>1
    <2> QED BY <2>2
  <1> QED BY <1>6

\* The rewrite that waits deepest is one of the frames.
LEMMA DeepestIs ==
  ASSUME stack \in Seq(Frames), NEW n \in Nodes, Rewrote(n)
  PROVE  \E i \in DOMAIN stack : Deepest(n) = stack[i] /\ stack[i].node = n
  <1> DEFINE F == FinishesOf(n)
             S == {Len(stack) - i : i \in F}
  <1>1. F # {} /\ F \subseteq 1 .. Len(stack) /\ Len(stack) \in Nat
    BY DEF Rewrote, FinishesOf
  <1>2. S \in SUBSET Nat /\ S # {}
    BY <1>1
  <1>3. PICK k \in S : \A m \in S : k <= m
    <2> HIDE DEF S
    <2> QED BY <1>2, LeastNat
  <1>4. PICK i \in F : k = Len(stack) - i
    BY <1>3
  <1>5. \A j \in F : j <= i
    <2> TAKE j \in F
    <2>1. k <= Len(stack) - j
      BY <1>3
    <2> QED BY <1>1, <1>4, <2>1
  <1>6. \E d \in F : /\ d = CHOOSE x \in FinishesOf(n) : \A j \in FinishesOf(n) : j <= x
    BY <1>5
  <1>7. PICK d \in F : d = CHOOSE x \in FinishesOf(n) : \A j \in FinishesOf(n) : j <= x
    BY <1>6
  <1>8. Deepest(n) = stack[d]
    BY <1>7 DEF Deepest
  <1> QED BY <1>8 DEF FinishesOf

\* What stands on the stack while a node is tried.
LEMMA TriedIs ==
  ASSUME Inv, mode = "try"
  PROVE  /\ call \in Calls /\ call # None /\ memo.key = call.setting /\ phase \in Phases
         /\ trying \in Trials /\ trying.node \in Nodes /\ trying.left \in Seq(Candidates)
         /\ trying.own \in Fins /\ trying.fin \in Fins /\ trying.early \in BOOLEAN
         /\ Base \in Seq(Frames) /\ Right(Base)
         /\ trying.left # <<>> =>
              /\ Offer \in Candidates /\ Offer.to \in Nodes /\ Offer.rel \in SUBSET Constraints /\ Offer.by \in Rewriters
              /\ Offer.check = "ok" => Equal(trying.node, Offer.to, Offer.rel)
  <1> USE DEF Inv
  <1>1. call \in Calls /\ memo.key = call.setting /\ phase \in Phases
    BY DEF TypeCall
  <1>2. trying \in Trials /\ trying.node \in Nodes
    BY DEF TypeTry
  <1>3. /\ trying.left \in Seq(Candidates) /\ trying.own \in Fins /\ trying.fin \in Fins
        /\ trying.early \in BOOLEAN
    BY <1>2 DEF Trials
  <1>4. stack \in Seq(Frames) /\ Right(stack)
    BY DEF TypeWalk, SoundStack
  <1>5. Tail(stack) \in Seq(Frames) /\ Right(Tail(stack))
    <2>1. CASE stack = <<>>
      <3>1. Tail(stack) = <<>>
        BY <2>1
      <3>2. <<>> \in Seq(Frames)
        OBVIOUS
      <3> QED BY <3>1, <3>2, RightIs
    <2>2. CASE stack # <<>>
      BY <1>4, <2>2, RightIs
    <2> QED BY <2>1, <2>2
  <1>6. ASSUME trying.left # <<>>
        PROVE  /\ Offer \in Candidates /\ Offer.to \in Nodes /\ Offer.rel \in SUBSET Constraints /\ Offer.by \in Rewriters
               /\ Offer.check = "ok" => Equal(trying.node, Offer.to, Offer.rel)
    <2>1. Offer \in Candidates /\ Offer = trying.left[1] /\ 1 \in DOMAIN trying.left
      BY <1>3, <1>6, HeadTail DEF Offer
    <2>2. PICK j \in DOMAIN Attempts(call.setting, phase, trying.node) :
            Offer = Attempts(call.setting, phase, trying.node)[j]
      BY <2>1 DEF Offers
    <2>3. call.setting \in Settings
      BY <1>1, CallIs
    <2>4. Offer.check = "ok" => Equal(trying.node, Offer.to, Offer.rel)
      BY <1>1, <1>2, <2>2, <2>3, AttemptsAssumption
    <2> QED BY <2>1, <2>4 DEF Candidates
  <1> QED BY <1>1, <1>2, <1>3, <1>4, <1>5, <1>6, CallIs DEF Base

\* The next candidate, and the next step of one.
LEMMA PassOverIs ==
  ASSUME Inv, mode = "try", trying.left # <<>>, NEW f \in Fins, PassOver(f),
         mode' = mode, call' = call, phase' = phase
  PROVE  /\ TypeTry' /\ Offers'
         /\ trying'.node = trying.node /\ trying'.early = trying.early /\ trying'.own = trying.own
         /\ trying'.fin = Both(trying.fin, f) /\ trying'.left = Tail(trying.left)
         /\ trying'.step = "offered"
  <1>1. trying \in Trials /\ trying.left \in Seq(Candidates) /\ trying.fin \in Fins /\ trying.node \in Nodes
    BY TriedIs
  <1>2. Tail(trying.left) \in Seq(Candidates) /\ Both(trying.fin, f) \in Fins
    BY <1>1, HeadTail, FinsIs
  <1>3. trying' = [trying EXCEPT !.left = Tail(trying.left), !.fin = Both(trying.fin, f), !.step = "offered"]
    BY DEF PassOver
  <1>4. /\ trying' \in Trials
        /\ trying'.node = trying.node /\ trying'.early = trying.early /\ trying'.own = trying.own
        /\ trying'.fin = Both(trying.fin, f) /\ trying'.left = Tail(trying.left)
        /\ trying'.step = "offered"
    BY <1>1, <1>2, <1>3 DEF Trials
  <1>5. Offers'
    <2> SUFFICES ASSUME NEW i \in DOMAIN Tail(trying.left)
                 PROVE  \E j \in DOMAIN Attempts(call.setting, phase, trying.node) :
                          Tail(trying.left)[i] = Attempts(call.setting, phase, trying.node)[j]
      BY <1>4 DEF Offers
    <2>1. Tail(trying.left)[i] = trying.left[i + 1] /\ i + 1 \in DOMAIN trying.left
      BY <1>1, HeadTail
    <2> QED BY <2>1 DEF Inv, Offers
  <1> QED BY <1>1, <1>4, <1>5 DEF TypeTry

LEMMA AdvanceIs ==
  ASSUME Inv, mode = "try", NEW step \in {"offered", "matched", "built"}, Advance(step),
         mode' = mode, call' = call, phase' = phase
  PROVE  /\ TypeTry' /\ Offers'
         /\ trying'.node = trying.node /\ trying'.early = trying.early /\ trying'.own = trying.own
         /\ trying'.fin = trying.fin /\ trying'.left = trying.left /\ trying'.step = step
  <1>1. trying \in Trials /\ trying.node \in Nodes
    BY TriedIs
  <1>2. /\ trying' \in Trials
        /\ trying'.node = trying.node /\ trying'.early = trying.early /\ trying'.own = trying.own
        /\ trying'.fin = trying.fin /\ trying'.left = trying.left /\ trying'.step = step
    BY <1>1 DEF Trials, Advance
  <1> QED BY <1>1, <1>2 DEF Inv, Offers, TypeTry

LEMMA NotTryingIs == NotTrying \in Trials /\ NotTrying.left = <<>>
  <1>1. <<>> \in Seq(Candidates)
    OBVIOUS
  <1> QED BY <1>1, FinsIs DEF NotTrying, Trials

\* A node starts to be tried.
LEMMA TryIs ==
  ASSUME NEW n \in Nodes, NEW early \in BOOLEAN, NEW own \in Fins, NEW left \in Seq(Candidates),
         NEW t, t = [NotTrying EXCEPT !.node = n, !.early = early, !.own = own, !.left = left]
  PROVE  /\ t \in Trials /\ t.node = n /\ t.early = early /\ t.own = own /\ t.left = left
         /\ t.fin = FINAL /\ t.step = "offered"
  BY FinsIs DEF NotTrying, Trials

\* The counts of waiting results.
LEMMA WaitIs ==
  ASSUME TypeWalk, NEW n \in Nodes, Wait(n)
  PROVE  pending' \in Maps(Nat \ {0})
  <1>1. Waiting(n) => pending[n] \in Nat \ {0}
    BY MapIs DEF TypeWalk, Waiting
  <1>2. (IF Waiting(n) THEN pending[n] + 1 ELSE 1) \in Nat \ {0}
    BY <1>1
  <1> QED BY <1>2, PutIs DEF Wait, TypeWalk

LEMMA UnwaitIs ==
  ASSUME TypeWalk, NEW n \in Nodes, Unwait(n)
  PROVE  pending' \in Maps(Nat \ {0})
  <1>1. DOMAIN pending \subseteq Nodes /\ \A m \in DOMAIN pending : pending[m] \in Nat \ {0}
    BY MapIs DEF TypeWalk
  <1>2. pending \in [DOMAIN pending -> Nat \ {0}]
    BY DEF TypeWalk, Maps
  <1>3. CASE Waiting(n) /\ pending[n] = 1
    <2>1. pending' \in [DOMAIN pending \ {n} -> Nat \ {0}]
      BY <1>1, <1>3 DEF Unwait
    <2>2. DOMAIN pending \ {n} \in SUBSET Nodes
      BY <1>1
    <2> QED BY <2>1, <2>2 DEF Maps
  <1>4. CASE Waiting(n) /\ pending[n] # 1
    <2>1. pending' \in [DOMAIN pending -> Nat \ {0}]
      BY <1>1, <1>2, <1>4 DEF Unwait, Waiting
    <2> QED BY <1>1, <2>1 DEF Maps
  <1>5. CASE ~Waiting(n)
    BY <1>5 DEF Unwait, TypeWalk
  <1> QED BY <1>3, <1>4, <1>5

LEMMA InheritIs ==
  ASSUME TypeWalk, NEW n \in Nodes, NEW r \in Nodes, Inherit(n, r)
  PROVE  parent' \in Maps(Nodes)
  <1>1. n \in DOMAIN parent => parent[n] \in Nodes
    BY MapIs DEF TypeWalk
  <1> QED BY <1>1, PutIs DEF Inherit, TypeWalk

-----------------------------------------------------------------------------
(* How a call ends, or stops. *)

\* A call returns what its root equals.
LEMMA ReturnKeeps ==
  ASSUME Inv, mode # "idle", NEW r \in Nodes, NEW f \in Fins, Equal(call.root, r, f.rel), NEW end,
         Return(r, f, end)
  PROVE  Inv'
  <1> USE DEF Inv, Return, contextVars
  <1>a. call \in Calls /\ call.root \in Roots /\ call.root \in Nodes
    BY CallIs DEF TypeCall
  <1>1. TypeContext'
    BY EmptyIs DEF TypeContext
  <1>2. TypeCall'
    BY PhasesAssumption, FinsIs DEF TypeCall, Phases, Modes
  <1>3. TypeWalk'
    <2>1. <<>> \in Seq(Frames)
      OBVIOUS
    <2> QED BY <2>1, EmptyIs DEF TypeWalk
  <1>4. TypeTry'
    BY NotTryingIs DEF TypeTry
  <1>5. TypeSalvage'
    <2>1. <<>> \in Seq(Items)
      OBVIOUS
    <2> QED BY <1>a, <2>1, EmptyIs DEF TypeSalvage
  <1>6. Meter'
    <2>1. spent' \in Spendings
      BY DEF Spendings
    <2> QED BY <2>1 DEF Meter, WithinBudget
  <1>7. Offers'
    BY DEF Offers
  <1>8. SoundMemo'
    BY EmptyIs DEF SoundMemo
  <1>9. SoundStack'
    BY RightIs DEF SoundStack
  <1>10. SoundDone'
    BY EmptyIs DEF SoundDone
  <1>11. SoundCall'
    <2>1. Equal(outcome'.root, outcome'.to, outcome'.rel)
      BY EqualChains
    <2> QED BY <2>1 DEF SoundCall
  <1> QED BY <1>1, <1>2, <1>3, <1>4, <1>5, <1>6, <1>7, <1>8, <1>9, <1>10, <1>11

\* A phase stops, whatever was built for it.
LEMMA SalvagedKeeps ==
  ASSUME Inv, mode # "idle", Salvaged, arena' \subseteq Nodes, spent' \in Spendings, WithinBudget'
  PROVE  Inv'
  <1> USE DEF Inv, Salvaged, strategyVars, walkVars
  <1>1. TypeContext'
    BY DEF TypeContext
  <1>2. TypeCall'
    BY DEF TypeCall, Modes
  <1>3. TypeWalk'
    BY DEF TypeWalk
  <1>4. TypeTry'
    BY DEF TypeTry
  <1>5. TypeSalvage'
    <2>1. [node |-> cur, expanded |-> FALSE] \in Items
      BY DEF TypeCall, Items
    <2>2. work' \in Seq(Items)
      BY <2>1
    <2> QED BY <2>2, EmptyIs DEF TypeSalvage
  <1>6. Meter'
    BY DEF Meter
  <1>7. Offers'
    BY DEF Offers
  <1>8. SoundMemo'
    BY DEF SoundMemo
  <1>9. SoundStack'
    BY DEF SoundStack
  <1>10. SoundDone'
    BY EmptyIs DEF SoundDone
  <1>11. SoundCall'
    BY DEF SoundCall
  <1> QED BY <1>1, <1>2, <1>3, <1>4, <1>5, <1>6, <1>7, <1>8, <1>9, <1>10, <1>11

\* The item at the top of the salvage's work, and what is settled for it.
LEMMA SettleKeeps ==
  ASSUME Inv, NEW n \in Nodes, Salvaging(n), NEW r \in Results, Agrees(n, r), Settle(n, r),
         arena' \subseteq Nodes, spent' \in Spendings, WithinBudget'
  PROVE  Inv'
  <1> USE DEF Inv, Salvaging, Settle, salvageKeeps, strategyVars, walkVars
  <1>1. TypeContext'
    BY DEF TypeContext
  <1>2. TypeCall'
    BY DEF TypeCall
  <1>3. TypeWalk'
    BY DEF TypeWalk
  <1>4. TypeTry'
    BY DEF TypeTry
  <1>5. TypeSalvage'
    BY HeadTail, PutIs DEF TypeSalvage
  <1>6. Meter'
    BY DEF Meter
  <1>7. Offers'
    BY DEF Offers
  <1>8. SoundMemo'
    BY DEF SoundMemo
  <1>9. SoundStack'
    BY DEF SoundStack
  <1>10. SoundDone'
    <2> SUFFICES ASSUME NEW m \in DOMAIN Put(done, n, r) PROVE Agrees(m, Put(done, n, r)[m])
      BY DEF SoundDone, Agrees
    <2> QED BY DEF SoundDone, Put
  <1>11. SoundCall'
    BY DEF SoundCall
  <1> QED BY <1>1, <1>2, <1>3, <1>4, <1>5, <1>6, <1>7, <1>8, <1>9, <1>10, <1>11

\* What is salvaged for a node, or the node itself.
LEMMA ValueOrIs ==
  ASSUME Inv, NEW n \in Nodes
  PROVE  ValueOr(n) \in Results /\ Agrees(n, ValueOr(n))
  <1>1. CASE Met(n)
    BY <1>1, MapIs DEF Inv, TypeSalvage, SoundDone, ValueOr, Met
  <1>2. CASE ~Met(n)
    <2>1. /\ Result(n, FINAL) \in Results
          /\ Result(n, FINAL).to = n /\ Result(n, FINAL).fin = FINAL
      BY ResultIs, FinsIs
    <2> QED BY <1>2, <2>1, EqualChains DEF ValueOr, Agrees
  <1> QED BY <1>1, <1>2


-----------------------------------------------------------------------------
(* The steps keep the types, the budget and the meaning. *)

\* A call starts from its root.
LEMMA BeginCallKeeps ==
  ASSUME Inv, NEW s \in Settings, NEW root \in Roots, NEW l \in Limits, NEW d \in BOOLEAN, BeginCall(s, root, l, d)
  PROVE  Inv'
  <1> USE DEF Inv, BeginCall, strategyVars, walkVars, salvageVars
  <1>a. /\ call' \in Calls /\ call' # None /\ call'.root = root /\ call'.setting = s
        /\ \A c \in Counters : call'.limit[c] \in Nat
    <2>1. call' \in Calls
      BY DEF Calls
    <2> QED BY <2>1, CallIs
  <1>b. root \in Nodes /\ Below(root) \subseteq Nodes
    BY NodesAssumption
  <1>c. [key |-> s, result |-> NoResults] \in Memos
    BY EmptyIs DEF Memos
  <1>1. TypeContext'
    BY <1>b, <1>c DEF TypeContext
  <1>2. TypeCall'
    BY <1>a, <1>b DEF TypeCall, Modes
  <1>3. TypeWalk'
    BY DEF TypeWalk
  <1>4. TypeTry'
    BY DEF TypeTry
  <1>5. TypeSalvage'
    BY DEF TypeSalvage
  <1>6. Meter'
    BY <1>a DEF Meter, WithinBudget
  <1>7. Offers'
    BY DEF Offers
  <1>8. SoundMemo'
    <2>1. CASE memo.key = s
      BY <2>1 DEF SoundMemo
    <2>2. CASE memo.key # s
      BY <2>2, EmptyIs DEF SoundMemo
    <2> QED BY <2>1, <2>2
  <1>9. SoundStack'
    BY DEF SoundStack
  <1>10. SoundDone'
    BY DEF SoundDone
  <1>11. SoundCall'
    BY <1>a, EqualChains DEF SoundCall
  <1> QED BY <1>1, <1>2, <1>3, <1>4, <1>5, <1>6, <1>7, <1>8, <1>9, <1>10, <1>11

\* A node that has a final result becomes it.
LEMMA RootKnownKeeps ==
  ASSUME Inv, RootKnown
  PROVE  Inv'
  <1> USE DEF Inv, RootKnown, contextVars, walkVars, salvageVars
  <1>a. call \in Calls /\ call # None /\ cur \in Nodes /\ phase \in Phases
    BY CallIs DEF TypeCall, Visiting
  <1>b. Known(cur) /\ Lookup(cur) \in Results /\ Agrees(cur, Lookup(cur))
    BY <1>a, LookupIs, FinsIs DEF Known
  <1>c. cur' \in Nodes /\ curFin' \in Fins /\ curFin'.rel = curFin.rel \cup Lookup(cur).fin.rel
    <2>1. Lookup(cur).to \in Nodes /\ Lookup(cur).fin \in Fins /\ curFin \in Fins
      BY <1>b, ResultIs DEF TypeCall
    <2> QED BY <2>1, BothIs
  <1>1. TypeContext'
    BY DEF TypeContext
  <1>2. TypeCall'
    BY <1>a, <1>c DEF TypeCall, Modes
  <1>3. TypeWalk'
    BY DEF TypeWalk
  <1>4. TypeTry'
    BY DEF TypeTry
  <1>5. TypeSalvage'
    BY DEF TypeSalvage
  <1>6. Meter'
    BY DEF Meter, WithinBudget, TypeCall
  <1>7. Offers'
    BY DEF Offers
  <1>8. SoundMemo'
    BY DEF SoundMemo
  <1>9. SoundStack'
    BY DEF SoundStack
  <1>10. SoundDone'
    BY DEF SoundDone
  <1>11. SoundCall'
    BY <1>a, <1>b, <1>c, EqualChains DEF SoundCall, Agrees
  <1> QED BY <1>1, <1>2, <1>3, <1>4, <1>5, <1>6, <1>7, <1>8, <1>9, <1>10, <1>11

\* A walk starts from the node reached.
LEMMA EnterWalkKeeps ==
  ASSUME Inv, EnterWalk
  PROVE  Inv'
  <1> USE DEF Inv, EnterWalk, contextVars, strategyVars, salvageVars
  <1>a. call \in Calls /\ call # None /\ cur \in Nodes /\ phase \in Phases
    BY CallIs DEF TypeCall, Visiting
  <1>b. partial' \in Partials /\ \A p \in Phases : partial'[p] = partial[p] \/ partial'[p] = Empty
    BY <1>a, EmptyIs DEF TypeContext, Partials
  <1>c. stack' \in Seq(Frames) /\ Right(stack')
    <2>1. Visit(cur) \in Frames
      BY <1>a, FrameIs
    <2> QED BY <1>a, <2>1, RightIs
  <1>1. TypeContext'
    BY <1>b DEF TypeContext
  <1>2. TypeCall'
    BY <1>a DEF TypeCall, Modes
  <1>3. TypeWalk'
    BY <1>c, EmptyIs DEF TypeWalk
  <1>4. TypeTry'
    BY NotTryingIs DEF TypeTry
  <1>5. TypeSalvage'
    BY DEF TypeSalvage
  <1>6. Meter'
    BY DEF Meter, WithinBudget, TypeCall
  <1>7. Offers'
    BY DEF Offers
  <1>8. SoundMemo'
    BY <1>b, EmptyIs DEF SoundMemo, Agrees
  <1>9. SoundStack'
    BY <1>c DEF SoundStack
  <1>10. SoundDone'
    BY DEF SoundDone
  <1>11. SoundCall'
    BY DEF SoundCall
  <1> QED BY <1>1, <1>2, <1>3, <1>4, <1>5, <1>6, <1>7, <1>8, <1>9, <1>10, <1>11

\* A walk leaves with the result of the node it started from.
LEMMA LeaveWalkKeeps ==
  ASSUME Inv, LeaveWalk
  PROVE  Inv'
  <1> USE DEF Inv, LeaveWalk, contextVars, walkVars, salvageVars
  <1>a. call \in Calls /\ call # None /\ cur \in Nodes /\ phase \in Phases
    BY CallIs DEF TypeCall, Visiting
  <1> DEFINE r == LookupOr(cur, PROVISIONAL)
  <1>b. r \in Results /\ Agrees(cur, r)
    BY <1>a, LookupIs, FinsIs
  <1>c. cur' \in Nodes /\ curFin' \in Fins /\ curFin'.rel = curFin.rel \cup r.fin.rel
    <2>1. r.to \in Nodes /\ r.fin \in Fins /\ curFin \in Fins
      BY <1>b, ResultIs DEF TypeCall
    <2>2. cur' = r.to /\ curFin' = Both(curFin, r.fin)
      OBVIOUS
    <2> HIDE DEF r
    <2> QED BY <2>1, <2>2, BothIs
  <1>1. TypeContext'
    BY DEF TypeContext
  <1>2. TypeCall'
    BY <1>a, <1>c DEF TypeCall, Modes
  <1>3. TypeWalk'
    BY DEF TypeWalk
  <1>4. TypeTry'
    BY DEF TypeTry
  <1>5. TypeSalvage'
    BY DEF TypeSalvage
  <1>6. Meter'
    BY DEF Meter, WithinBudget, TypeCall
  <1>7. Offers'
    BY DEF Offers
  <1>8. SoundMemo'
    BY DEF SoundMemo
  <1>9. SoundStack'
    BY DEF SoundStack
  <1>10. SoundDone'
    BY DEF SoundDone
  <1>11. SoundCall'
    BY <1>a, <1>b, <1>c, EqualChains DEF SoundCall, Agrees
  <1> QED BY <1>1, <1>2, <1>3, <1>4, <1>5, <1>6, <1>7, <1>8, <1>9, <1>10, <1>11

\* The next phase starts from the node the last one reached.
LEMMA NextPhaseKeeps ==
  ASSUME Inv, NextPhase
  PROVE  Inv'
  <1> USE DEF Inv, NextPhase, contextVars, walkVars, salvageVars
  <1>1. TypeContext'
    BY DEF TypeContext
  <1>2. TypeCall'
    BY PhasesAssumption DEF TypeCall, Modes, Phases
  <1>3. TypeWalk'
    BY DEF TypeWalk
  <1>4. TypeTry'
    BY DEF TypeTry
  <1>5. TypeSalvage'
    BY DEF TypeSalvage
  <1>6. Meter'
    BY DEF Meter, WithinBudget, TypeCall
  <1>7. Offers'
    BY DEF Offers
  <1>8. SoundMemo'
    BY DEF SoundMemo
  <1>9. SoundStack'
    BY DEF SoundStack
  <1>10. SoundDone'
    BY DEF SoundDone
  <1>11. SoundCall'
    BY DEF SoundCall
  <1> QED BY <1>1, <1>2, <1>3, <1>4, <1>5, <1>6, <1>7, <1>8, <1>9, <1>10, <1>11

\* A result that waited is the one it waited for.
LEMMA FinishKeeps ==
  ASSUME Inv, Finish
  PROVE  Inv'
  <1> USE DEF Inv, Finish, contextVars, strategyVars, salvageVars
  <1>a. call \in Calls /\ call # None /\ cur \in Nodes /\ phase \in Phases
    BY CallIs DEF TypeCall, Visiting
  <1>b. stack \in Seq(Frames) /\ Top \in Frames /\ Tail(stack) \in Seq(Frames)
    BY HeadTail DEF TypeWalk, Top
  <1>c. Top.node \in Nodes /\ Top.to \in Nodes /\ Top.own \in Fins
    BY <1>b, FrameIs
  <1>d. Equal(Top.node, Top.to, Top.own.rel) /\ Right(Tail(stack))
    BY <1>b, RightIs DEF SoundStack, Top
  <1> DEFINE x == LookupOr(Top.to, PROVISIONAL)
             f == Both(Top.own, x.fin)
  <1>e. x \in Results /\ Agrees(Top.to, x)
    BY <1>c, LookupIs, FinsIs
  <1>f. x.to \in Nodes /\ f \in Fins /\ f.rel = Top.own.rel \cup x.fin.rel
    <2>1. x.to \in Nodes /\ x.fin \in Fins
      BY <1>e, ResultIs
    <2> HIDE DEF x
    <2> QED BY <1>c, <2>1, BothIs
  <1>g. Equal(Top.node, x.to, f.rel)
    BY <1>d, <1>e, <1>f, EqualChains DEF Agrees
  <1>h. Remember(Top.node, x.to, f)
    OBVIOUS
  <1> HIDE DEF x, f
  <1>1. TypeContext'
    BY <1>c, <1>f, <1>h, RememberIs DEF TypeContext
  <1>2. TypeCall'
    BY <1>a, <1>c, <1>f, <1>h, RememberIs DEF TypeCall
  <1>3. TypeWalk'
    BY <1>b, <1>c, UnwaitIs DEF TypeWalk
  <1>4. TypeTry'
    BY DEF TypeTry
  <1>5. TypeSalvage'
    BY DEF TypeSalvage
  <1>6. Meter'
    BY DEF Meter, WithinBudget, TypeCall
  <1>7. Offers'
    BY DEF Offers
  <1>8. SoundMemo'
    BY <1>c, <1>f, <1>g, <1>h, RememberSound
  <1>9. SoundStack'
    BY <1>d DEF SoundStack
  <1>10. SoundDone'
    BY DEF SoundDone
  <1>11. SoundCall'
    BY DEF SoundCall
  <1> QED BY <1>1, <1>2, <1>3, <1>4, <1>5, <1>6, <1>7, <1>8, <1>9, <1>10, <1>11

\* A node that has a result is passed over.
LEMMA VisitKnownKeeps ==
  ASSUME Inv, NEW n \in Nodes, VisitKnown(n)
  PROVE  Inv'
  <1> USE DEF Inv, VisitKnown, contextVars, strategyVars, salvageVars
  <1>b. stack \in Seq(Frames) /\ Tail(stack) \in Seq(Frames) /\ Right(Tail(stack))
    BY HeadTail, RightIs DEF TypeWalk, SoundStack, Visiting
  <1>1. TypeContext'
    BY DEF TypeContext
  <1>2. TypeCall'
    BY DEF TypeCall
  <1>3. TypeWalk'
    BY <1>b DEF TypeWalk
  <1>4. TypeTry'
    BY DEF TypeTry
  <1>5. TypeSalvage'
    BY DEF TypeSalvage
  <1>6. Meter'
    BY DEF Meter, WithinBudget, TypeCall
  <1>7. Offers'
    BY DEF Offers
  <1>8. SoundMemo'
    BY DEF SoundMemo
  <1>9. SoundStack'
    BY <1>b DEF SoundStack
  <1>10. SoundDone'
    BY DEF SoundDone
  <1>11. SoundCall'
    BY DEF SoundCall
  <1> QED BY <1>1, <1>2, <1>3, <1>4, <1>5, <1>6, <1>7, <1>8, <1>9, <1>10, <1>11

\* A visit is charged.
LEMMA VisitChargedKeeps ==
  ASSUME Inv, NEW n \in Nodes, VisitCharged(n)
  PROVE  Inv'
  <1> USE DEF Inv, VisitCharged, Visiting, contextVars, strategyVars, salvageVars
  <1>a. spent' \in Spendings /\ WithinBudget'
    BY ChargeKeeps DEF Counters
  <1>1. TypeContext'
    BY DEF TypeContext
  <1>2. TypeCall'
    BY DEF TypeCall
  <1>3. TypeWalk'
    BY DEF TypeWalk
  <1>4. TypeTry'
    BY DEF TypeTry
  <1>5. TypeSalvage'
    BY DEF TypeSalvage
  <1>6. Meter'
    BY <1>a DEF Meter
  <1>7. Offers'
    BY DEF Offers
  <1>8. SoundMemo'
    BY DEF SoundMemo
  <1>9. SoundStack'
    BY DEF SoundStack
  <1>10. SoundDone'
    BY DEF SoundDone
  <1>11. SoundCall'
    BY DEF SoundCall
  <1> QED BY <1>1, <1>2, <1>3, <1>4, <1>5, <1>6, <1>7, <1>8, <1>9, <1>10, <1>11

\* An atom is its own result.
LEMMA VisitOpaqueKeeps ==
  ASSUME Inv, NEW n \in Nodes, VisitOpaque(n)
  PROVE  Inv'
  <1> USE DEF Inv, VisitOpaque, strategyVars, salvageVars
  <1>b. stack \in Seq(Frames) /\ Tail(stack) \in Seq(Frames) /\ Right(Tail(stack))
    BY HeadTail, RightIs DEF TypeWalk, SoundStack, Visiting
  <1>c. /\ FINAL \in Fins /\ Equal(n, n, FINAL.rel) /\ Remember(n, n, FINAL)
    BY FinsIs, EqualChains
  <1>1. TypeContext'
    BY <1>c, RememberIs DEF TypeContext
  <1>2. TypeCall'
    BY <1>c, RememberIs DEF TypeCall
  <1>3. TypeWalk'
    BY <1>b DEF TypeWalk
  <1>4. TypeTry'
    BY DEF TypeTry
  <1>5. TypeSalvage'
    BY DEF TypeSalvage
  <1>6. Meter'
    BY DEF Meter, WithinBudget, TypeCall
  <1>7. Offers'
    BY DEF Offers
  <1>8. SoundMemo'
    BY <1>c, RememberSound
  <1>9. SoundStack'
    BY <1>b DEF SoundStack
  <1>10. SoundDone'
    BY DEF SoundDone
  <1>11. SoundCall'
    BY DEF SoundCall
  <1> QED BY <1>1, <1>2, <1>3, <1>4, <1>5, <1>6, <1>7, <1>8, <1>9, <1>10, <1>11

\* A question may be asked before the operands.
LEMMA VisitFirstKeeps ==
  ASSUME Inv, NEW n \in Nodes, VisitFirst(n)
  PROVE  Inv'
  <1> USE DEF Inv, VisitFirst, Visiting, contextVars, strategyVars, salvageVars
  <1>a. call \in Calls /\ call # None /\ cur \in Nodes /\ phase \in Phases
    BY CallIs DEF TypeCall, Visiting
  <1>b. [asked |-> FALSE, fin |-> FINAL] \in Firsts
    BY FinsIs DEF Firsts
  <1>c. Put(first, n, [asked |-> FALSE, fin |-> FINAL]) \in Maps(Firsts)
    BY <1>b, PutIs DEF TypeWalk
  <1>d. call.setting \in Settings /\ Attempts(call.setting, phase, n) \in Seq(Candidates)
    BY <1>a, CallIs, AttemptsAssumption
  <1>e. ASSUME TopQuestion(n)
        PROVE  /\ trying' \in Trials /\ trying'.node = n /\ trying'.left = Attempts(call.setting, phase, n)
    <2>1. trying' = [NotTrying EXCEPT !.node = n, !.early = TRUE, !.left = Attempts(call.setting, phase, n)]
      BY <1>e
    <2> QED BY <1>d, <2>1, FinsIs DEF NotTrying, Trials
  <1>1. TypeContext'
    BY DEF TypeContext
  <1>2. TypeCall'
    BY DEF TypeCall, Modes
  <1>3. TypeWalk'
    BY <1>c DEF TypeWalk
  <1>4. TypeTry'
    BY <1>e DEF TypeTry
  <1>5. TypeSalvage'
    BY DEF TypeSalvage
  <1>6. Meter'
    BY DEF Meter, WithinBudget, TypeCall
  <1>7. Offers'
    BY <1>e DEF Offers
  <1>8. SoundMemo'
    BY DEF SoundMemo
  <1>9. SoundStack'
    BY DEF SoundStack
  <1>10. SoundDone'
    BY DEF SoundDone
  <1>11. SoundCall'
    BY DEF SoundCall
  <1> QED BY <1>1, <1>2, <1>3, <1>4, <1>5, <1>6, <1>7, <1>8, <1>9, <1>10, <1>11

\* The operands without a result are walked first.
LEMMA VisitDescendKeeps ==
  ASSUME Inv, NEW n \in Nodes, VisitDescend(n)
  PROVE  Inv'
  <1> USE DEF Inv, VisitDescend, Ready, Visiting, contextVars, strategyVars, salvageVars
  <1>a. Kids(n) \in Seq(Nodes) /\ \A i \in DOMAIN Kids(n) : Kids(n)[i] \in Nodes
    BY NodesAssumption
  <1>b. PICK order \in Descending({i \in DOMAIN Kids(n) : ~Known(Kids(n)[i])}) :
          stack' = [i \in DOMAIN order |-> Visit(Kids(n)[order[i]])] \o stack
    OBVIOUS
  <1> DEFINE unknown == {i \in DOMAIN Kids(n) : ~Known(Kids(n)[i])}
             above == [i \in DOMAIN order |-> Visit(Kids(n)[order[i]])]
  <1>c. Len(Kids(n)) \in Nat /\ unknown \in SUBSET (1 .. Len(Kids(n)))
    BY <1>a
  <1>d. order \in Seq(unknown) /\ DOMAIN order = 1 .. Cardinality(unknown) /\ Cardinality(unknown) \in Nat
    BY <1>b, <1>c, DescendingIs
  <1>e. \A i \in DOMAIN order : order[i] \in DOMAIN Kids(n)
    BY <1>d
  <1>f. /\ above \in Seq(Frames) /\ DOMAIN above = DOMAIN order
        /\ \A i \in DOMAIN above : Equal(above[i].node, above[i].to, above[i].own.rel)
    <2>1. \A i \in DOMAIN order : Visit(Kids(n)[order[i]]) \in Frames
      BY <1>a, <1>e, FrameIs
    <2>2. above \in Seq(Frames)
      <3>1. above \in [1 .. Cardinality(unknown) -> Frames]
        <4> HIDE DEF unknown
        <4> QED BY <1>d, <2>1
      <3> HIDE DEF above, unknown
      <3> QED BY <1>d, <3>1, SeqIs
    <2> QED BY <1>a, <1>e, <2>2, FrameIs, EqualChains
  <1>g. stack' \in Seq(Frames) /\ Right(stack')
    <2> HIDE DEF above
    <2> QED BY <1>b, <1>f, Pushed, RightIs DEF TypeWalk, SoundStack, Right, above
  <1>h. parent' \in Maps(Nodes)
    <2>1. DOMAIN parent \subseteq Nodes /\ \A m \in DOMAIN parent : parent[m] \in Nodes
      BY MapIs DEF TypeWalk
    <2> DEFINE D == DOMAIN parent \cup {Kids(n)[i] : i \in DOMAIN Kids(n)}
    <2>2. CASE phase \in MbaPhases
      <3>1. parent' = [k \in D |-> IF k \in DOMAIN parent THEN parent[k] ELSE n]
        BY <2>2
      <3>2. D \in SUBSET Nodes
        BY <1>a, <2>1
      <3> HIDE DEF D
      <3>3. parent' \in [D -> Nodes]
        BY <2>1, <3>1
      <3> QED BY <3>2, <3>3 DEF Maps
    <2> QED BY <2>2 DEF TypeWalk
  <1>1. TypeContext'
    BY DEF TypeContext
  <1>2. TypeCall'
    BY DEF TypeCall
  <1>3. TypeWalk'
    BY <1>g, <1>h DEF TypeWalk
  <1>4. TypeTry'
    BY DEF TypeTry
  <1>5. TypeSalvage'
    BY DEF TypeSalvage
  <1>6. Meter'
    BY DEF Meter, WithinBudget, TypeCall
  <1>7. Offers'
    BY DEF Offers
  <1>8. SoundMemo'
    BY DEF SoundMemo
  <1>9. SoundStack'
    BY <1>g DEF SoundStack
  <1>10. SoundDone'
    BY DEF SoundDone
  <1>11. SoundCall'
    BY DEF SoundCall
  <1> QED BY <1>1, <1>2, <1>3, <1>4, <1>5, <1>6, <1>7, <1>8, <1>9, <1>10, <1>11

\* A node over changed operands becomes the rebuilt one.
LEMMA VisitRebuildKeeps ==
  ASSUME Inv, NEW n \in Nodes, VisitRebuild(n)
  PROVE  Inv'
  <1> USE DEF Inv, VisitRebuild, Ready, strategyVars, salvageVars
  <1>a. call \in Calls /\ call # None /\ cur \in Nodes /\ phase \in Phases
    BY CallIs DEF TypeCall, Visiting

  <1>b. stack \in Seq(Frames) /\ Tail(stack) \in Seq(Frames) /\ Right(Tail(stack)) /\ mode = "walk"
    BY HeadTail, RightIs DEF TypeWalk, SoundStack, Visiting
  <1> DEFINE m == Rebuilt(n)
             own == KidsFin(KidResults(n))
  <1>c. own \in Fins /\ m \in Nodes /\ Equal(n, m, own.rel)
    BY RebuiltIs
  <1>d. /\ Charge("new_nodes", Cardinality(Missing(m)))
        /\ arena' = arena \cup Below(m)
        /\ \/ /\ Remember(n, n, Both(own, PROVISIONAL))
              /\ stack' = Tail(stack) /\ UNCHANGED <<pending, parent>>
           \/ /\ Wait(n) /\ Inherit(n, m)
              /\ stack' = Await(n, m, own) \o Tail(stack) /\ UNCHANGED <<memo, partial>>
    OBVIOUS
  <1> HIDE DEF m, own
  <1>e. Both(own, PROVISIONAL) \in Fins /\ Equal(n, n, Both(own, PROVISIONAL).rel)
    BY <1>c, FinsIs, EqualChains
  <1>f. /\ Await(n, m, own) \o Tail(stack) \in Seq(Frames) /\ Right(Await(n, m, own) \o Tail(stack))
    BY <1>b, <1>c, FrameIs, RightIs, Pushed
  <1>g. arena' \subseteq Nodes /\ spent' \in Spendings /\ WithinBudget'
    <2>1. Cardinality(Missing(m)) \in Nat /\ Below(m) \subseteq Nodes
      BY <1>c, MissingIs
    <2>2. spent' \in Spendings /\ WithinBudget'
      BY <1>b, <1>d, <2>1, ChargeKeeps DEF Counters
    <2> QED BY <1>d, <2>1, <2>2 DEF TypeContext
  <1>1. TypeContext'
    BY <1>d, <1>e, <1>g, RememberIs DEF TypeContext
  <1>2. TypeCall'
    BY <1>d, <1>e, RememberIs DEF TypeCall
  <1>3. TypeWalk'
    BY <1>b, <1>c, <1>d, <1>f, WaitIs, InheritIs DEF TypeWalk
  <1>4. TypeTry'
    BY DEF TypeTry
  <1>5. TypeSalvage'
    BY DEF TypeSalvage
  <1>6. Meter'
    BY <1>b, <1>g DEF Meter
  <1>7. Offers'
    BY <1>b DEF Offers
  <1>8. SoundMemo'
    <2>1. CASE Remember(n, n, Both(own, PROVISIONAL))
      BY <1>e, <2>1, RememberSound
    <2>2. CASE UNCHANGED <<memo, partial>>
      BY <2>2 DEF SoundMemo
    <2> QED BY <1>d, <2>1, <2>2
  <1>9. SoundStack'
    BY <1>b, <1>d, <1>f DEF SoundStack
  <1>10. SoundDone'
    BY DEF SoundDone
  <1>11. SoundCall'
    BY DEF SoundCall
  <1> QED BY <1>1, <1>2, <1>3, <1>4, <1>5, <1>6, <1>7, <1>8, <1>9, <1>10, <1>11

\* The candidates at a node over its results are tried.
LEMMA VisitTryKeeps ==
  ASSUME Inv, NEW n \in Nodes, VisitTry(n)
  PROVE  Inv'
  <1> USE DEF Inv, VisitTry, Ready, Visiting, contextVars, strategyVars, salvageVars
  <1>a. call \in Calls /\ call # None /\ cur \in Nodes /\ phase \in Phases
    BY CallIs DEF TypeCall, Visiting
  <1>b. stack \in Seq(Frames) /\ Tail(stack) \in Seq(Frames) /\ Right(Tail(stack))
    BY HeadTail, RightIs DEF TypeWalk, SoundStack
  <1>c. call.setting \in Settings /\ Attempts(call.setting, phase, n) \in Seq(Candidates)
    BY <1>a, CallIs, AttemptsAssumption
  <1>d. /\ trying' \in Trials /\ trying'.node = n /\ trying'.left = Attempts(call.setting, phase, n)
    <2>1. KidsFin(KidResults(n)) \in Fins
      BY RebuiltIs
    <2> QED BY <1>c, <2>1, FinsIs DEF NotTrying, Trials
  <1>1. TypeContext'
    BY DEF TypeContext
  <1>2. TypeCall'
    BY DEF TypeCall, Modes
  <1>3. TypeWalk'
    BY <1>b DEF TypeWalk
  <1>4. TypeTry'
    BY <1>d DEF TypeTry
  <1>5. TypeSalvage'
    BY DEF TypeSalvage
  <1>6. Meter'
    BY DEF Meter, WithinBudget, TypeCall
  <1>7. Offers'
    BY <1>d DEF Offers
  <1>8. SoundMemo'
    BY DEF SoundMemo
  <1>9. SoundStack'
    BY <1>b DEF SoundStack
  <1>10. SoundDone'
    BY DEF SoundDone
  <1>11. SoundCall'
    BY DEF SoundCall
  <1> QED BY <1>1, <1>2, <1>3, <1>4, <1>5, <1>6, <1>7, <1>8, <1>9, <1>10, <1>11

\* A node whose question is not asked is its own result.
LEMMA VisitUnaskedKeeps ==
  ASSUME Inv, NEW n \in Nodes, VisitUnasked(n)
  PROVE  Inv'
  <1> USE DEF Inv, VisitUnasked, Ready, strategyVars, salvageVars
  <1>a. call \in Calls /\ call # None /\ cur \in Nodes /\ phase \in Phases
    BY CallIs DEF TypeCall, Visiting
  <1>b. stack \in Seq(Frames) /\ Tail(stack) \in Seq(Frames) /\ Right(Tail(stack))
    BY HeadTail, RightIs DEF TypeWalk, SoundStack, Visiting

  <1> DEFINE left == IF first[n].asked /\ ~MbaQuarantined THEN WithoutRel(first[n].fin) ELSE PROVISIONAL
             f == Both(KidsFin(KidResults(n)), left)
  <1>c. KidsFin(KidResults(n)) \in Fins
    BY RebuiltIs
  <1>d. left \in Fins
    <2>1. first[n].fin \in Fins
      <3>1. first[n] \in Firsts
        BY MapIs DEF TypeWalk
      <3> QED BY <3>1 DEF Firsts
    <2> QED BY <2>1, FinsIs
  <1>e. Remember(n, n, f)
    OBVIOUS
  <1>f. f \in Fins /\ Equal(n, n, f.rel)
    <2> HIDE DEF left
    <2> QED BY <1>c, <1>d, FinsIs, EqualChains
  <1> HIDE DEF f, left
  <1>1. TypeContext'
    BY <1>e, <1>f, RememberIs DEF TypeContext
  <1>2. TypeCall'
    BY <1>e, <1>f, RememberIs DEF TypeCall
  <1>3. TypeWalk'
    BY <1>b DEF TypeWalk
  <1>4. TypeTry'
    BY DEF TypeTry
  <1>5. TypeSalvage'
    BY DEF TypeSalvage
  <1>6. Meter'
    BY DEF Meter, WithinBudget, TypeCall
  <1>7. Offers'
    BY DEF Offers
  <1>8. SoundMemo'
    BY <1>e, <1>f, RememberSound
  <1>9. SoundStack'
    BY <1>b DEF SoundStack
  <1>10. SoundDone'
    BY DEF SoundDone
  <1>11. SoundCall'
    BY DEF SoundCall
  <1> QED BY <1>1, <1>2, <1>3, <1>4, <1>5, <1>6, <1>7, <1>8, <1>9, <1>10, <1>11

\* A rewriter quarantined is passed over.
LEMMA SkipQuarantinedKeeps ==
  ASSUME Inv, SkipQuarantined
  PROVE  Inv'
  <1> USE DEF Inv, SkipQuarantined, Trying, contextVars, strategyVars, salvageVars
  <1>a. TypeTry' /\ Offers' /\ phase' = phase
    BY PassOverIs, FinsIs
  <1>1. TypeContext'
    BY DEF TypeContext
  <1>2. TypeCall'
    BY DEF TypeCall
  <1>3. TypeWalk'
    BY DEF TypeWalk
  <1>4. TypeTry'
    BY <1>a
  <1>5. TypeSalvage'
    BY DEF TypeSalvage
  <1>6. Meter'
    BY DEF Meter, WithinBudget, TypeCall
  <1>7. Offers'
    BY <1>a
  <1>8. SoundMemo'
    BY DEF SoundMemo
  <1>9. SoundStack'
    BY DEF SoundStack
  <1>10. SoundDone'
    BY DEF SoundDone
  <1>11. SoundCall'
    BY DEF SoundCall
  <1> QED BY <1>1, <1>2, <1>3, <1>4, <1>5, <1>6, <1>7, <1>8, <1>9, <1>10, <1>11

\* One that is declined is passed over.
LEMMA DeclineKeeps ==
  ASSUME Inv, Decline
  PROVE  Inv'
  <1> USE DEF Inv, Decline, Trying, contextVars, strategyVars, salvageVars
  <1>a. TypeTry' /\ Offers' /\ phase' = phase
    BY PassOverIs, FinsIs
  <1>1. TypeContext'
    BY DEF TypeContext
  <1>2. TypeCall'
    BY DEF TypeCall
  <1>3. TypeWalk'
    BY DEF TypeWalk
  <1>4. TypeTry'
    BY <1>a
  <1>5. TypeSalvage'
    BY DEF TypeSalvage
  <1>6. Meter'
    BY DEF Meter, WithinBudget, TypeCall
  <1>7. Offers'
    BY <1>a
  <1>8. SoundMemo'
    BY DEF SoundMemo
  <1>9. SoundStack'
    BY DEF SoundStack
  <1>10. SoundDone'
    BY DEF SoundDone
  <1>11. SoundCall'
    BY DEF SoundCall
  <1> QED BY <1>1, <1>2, <1>3, <1>4, <1>5, <1>6, <1>7, <1>8, <1>9, <1>10, <1>11

\* One that changes nothing is passed over.
LEMMA NoChangeKeeps ==
  ASSUME Inv, NoChange
  PROVE  Inv'
  <1> USE DEF Inv, NoChange, Trying, contextVars, strategyVars, salvageVars
  <1>a. TypeTry' /\ Offers' /\ phase' = phase
    BY PassOverIs, FinsIs
  <1>1. TypeContext'
    BY DEF TypeContext
  <1>2. TypeCall'
    BY DEF TypeCall
  <1>3. TypeWalk'
    BY DEF TypeWalk
  <1>4. TypeTry'
    BY <1>a
  <1>5. TypeSalvage'
    BY DEF TypeSalvage
  <1>6. Meter'
    BY DEF Meter, WithinBudget, TypeCall
  <1>7. Offers'
    BY <1>a
  <1>8. SoundMemo'
    BY DEF SoundMemo
  <1>9. SoundStack'
    BY DEF SoundStack
  <1>10. SoundDone'
    BY DEF SoundDone
  <1>11. SoundCall'
    BY DEF SoundCall
  <1> QED BY <1>1, <1>2, <1>3, <1>4, <1>5, <1>6, <1>7, <1>8, <1>9, <1>10, <1>11

\* One that is refused is passed over.
LEMMA RejectKeeps ==
  ASSUME Inv, Reject
  PROVE  Inv'
  <1> USE DEF Inv, Reject, Trying, contextVars, strategyVars, salvageVars
  <1>a. TypeTry' /\ Offers' /\ phase' = phase
    BY PassOverIs, FinsIs
  <1>1. TypeContext'
    BY DEF TypeContext
  <1>2. TypeCall'
    BY DEF TypeCall
  <1>3. TypeWalk'
    <2>1. Offer.by \in Rewriters
      BY TriedIs
    <2> QED BY <2>1 DEF TypeWalk
  <1>4. TypeTry'
    BY <1>a
  <1>5. TypeSalvage'
    BY DEF TypeSalvage
  <1>6. Meter'
    BY DEF Meter, WithinBudget, TypeCall
  <1>7. Offers'
    BY <1>a
  <1>8. SoundMemo'
    BY DEF SoundMemo
  <1>9. SoundStack'
    BY DEF SoundStack
  <1>10. SoundDone'
    BY DEF SoundDone
  <1>11. SoundCall'
    BY DEF SoundCall
  <1> QED BY <1>1, <1>2, <1>3, <1>4, <1>5, <1>6, <1>7, <1>8, <1>9, <1>10, <1>11

\* One that the host vetoes is passed over.
LEMMA VetoKeeps ==
  ASSUME Inv, Veto
  PROVE  Inv'
  <1> USE DEF Inv, Veto, Trying, contextVars, strategyVars, salvageVars
  <1>a. TypeTry' /\ Offers' /\ phase' = phase
    BY PassOverIs, FinsIs
  <1>1. TypeContext'
    BY DEF TypeContext
  <1>2. TypeCall'
    BY DEF TypeCall
  <1>3. TypeWalk'
    BY DEF TypeWalk
  <1>4. TypeTry'
    BY <1>a
  <1>5. TypeSalvage'
    BY DEF TypeSalvage
  <1>6. Meter'
    BY DEF Meter, WithinBudget, TypeCall
  <1>7. Offers'
    BY <1>a
  <1>8. SoundMemo'
    BY DEF SoundMemo
  <1>9. SoundStack'
    BY DEF SoundStack
  <1>10. SoundDone'
    BY DEF SoundDone
  <1>11. SoundCall'
    BY DEF SoundCall
  <1> QED BY <1>1, <1>2, <1>3, <1>4, <1>5, <1>6, <1>7, <1>8, <1>9, <1>10, <1>11

\* A candidate is charged.
LEMMA ChargeCandidateKeeps ==
  ASSUME Inv, ChargeCandidate
  PROVE  Inv'
  <1> USE DEF Inv, ChargeCandidate, Trying, contextVars, strategyVars, salvageVars
  <1>a. TypeTry' /\ Offers'
    BY AdvanceIs
  <1>b. spent' \in Spendings /\ WithinBudget'
    BY ChargeKeeps DEF Counters
  <1>1. TypeContext'
    BY DEF TypeContext
  <1>2. TypeCall'
    BY DEF TypeCall
  <1>3. TypeWalk'
    BY DEF TypeWalk
  <1>4. TypeTry'
    BY <1>a
  <1>5. TypeSalvage'
    BY DEF TypeSalvage
  <1>6. Meter'
    BY <1>b DEF Meter
  <1>7. Offers'
    BY <1>a
  <1>8. SoundMemo'
    BY DEF SoundMemo
  <1>9. SoundStack'
    BY DEF SoundStack
  <1>10. SoundDone'
    BY DEF SoundDone
  <1>11. SoundCall'
    BY DEF SoundCall
  <1> QED BY <1>1, <1>2, <1>3, <1>4, <1>5, <1>6, <1>7, <1>8, <1>9, <1>10, <1>11

\* What a candidate offers is built.
LEMMA BuildKeeps ==
  ASSUME Inv, Build
  PROVE  Inv'
  <1> USE DEF Inv, Build, Trying, strategyVars, salvageVars
  <1>a. TypeTry' /\ Offers'
    BY AdvanceIs
  <1>b. Cardinality(Missing(Offer.to)) \in Nat /\ Below(Offer.to) \subseteq Nodes
    BY TriedIs, MissingIs
  <1>c. spent' \in Spendings /\ WithinBudget'
    BY <1>b, ChargeKeeps DEF Counters
  <1>1. TypeContext'
    BY <1>b DEF TypeContext
  <1>2. TypeCall'
    BY DEF TypeCall
  <1>3. TypeWalk'
    BY DEF TypeWalk
  <1>4. TypeTry'
    BY <1>a
  <1>5. TypeSalvage'
    BY DEF TypeSalvage
  <1>6. Meter'
    BY <1>c DEF Meter
  <1>7. Offers'
    BY <1>a
  <1>8. SoundMemo'
    BY DEF SoundMemo
  <1>9. SoundStack'
    BY DEF SoundStack
  <1>10. SoundDone'
    BY DEF SoundDone
  <1>11. SoundCall'
    BY DEF SoundCall
  <1> QED BY <1>1, <1>2, <1>3, <1>4, <1>5, <1>6, <1>7, <1>8, <1>9, <1>10, <1>11

\* A node is rewritten into one that equals it.
LEMMA AcceptKeeps ==
  ASSUME Inv, Accept
  PROVE  Inv'
  <1> USE DEF Inv, Accept, Admitted, Trying, BackToWalk, strategyVars, salvageVars
  <1> DEFINE n == trying.node
             t == Offer.to
             f == Both(trying.own, Both(trying.fin, Relying(Offer.rel)))
  <1>a. n \in Nodes /\ t \in Nodes /\ Base \in Seq(Frames) /\ Right(Base) /\ Equal(n, t, Offer.rel)
        /\ trying.own \in Fins /\ trying.fin \in Fins /\ Offer.rel \in SUBSET Constraints
    BY TriedIs
  <1>b. f \in Fins /\ Both(f, PROVISIONAL) \in Fins /\ Offer.rel \subseteq f.rel /\ f.rel \subseteq Both(f, PROVISIONAL).rel
    <2>1. Relying(Offer.rel) \in Fins /\ Relying(Offer.rel).rel = Offer.rel
      BY <1>a, FinsIs
    <2>2. Both(trying.fin, Relying(Offer.rel)) \in Fins /\ Offer.rel \subseteq Both(trying.fin, Relying(Offer.rel)).rel
      BY <1>a, <2>1, BothIs
    <2>3. f \in Fins /\ Offer.rel \subseteq f.rel
      BY <1>a, <2>2, BothIs
    <2> HIDE DEF f
    <2>4. PROVISIONAL \in Fins
      BY FinsIs
    <2>5. Both(f, PROVISIONAL) \in Fins /\ Both(f, PROVISIONAL).rel = f.rel \cup PROVISIONAL.rel
      BY <2>3, <2>4, BothIs
    <2> QED BY <2>3, <2>5
  <1>c. /\ mode = "try" /\ Charge("rewrites", 1)
        /\ \/ /\ Remember(n, t, Both(f, PROVISIONAL))
              /\ stack' = Base /\ UNCHANGED <<pending, parent, rewritten>>
           \/ /\ rewritten' = IF Local THEN rewritten ELSE rewritten \cup {<<n, t>>}
              /\ Wait(n) /\ Inherit(n, t)
              /\ stack' = Await(n, t, f) \o Base /\ UNCHANGED <<memo, partial>>
    OBVIOUS
  <1> HIDE DEF n, t, f
  <1>d. Equal(n, t, f.rel) /\ Equal(n, t, Both(f, PROVISIONAL).rel)
    BY <1>a, <1>b, EqualChains
  <1>e. /\ Await(n, t, f) \o Base \in Seq(Frames) /\ Right(Await(n, t, f) \o Base)
    BY <1>a, <1>b, <1>d, FrameIs, RightIs, Pushed
  <1>f. spent' \in Spendings /\ WithinBudget'
    BY <1>c, ChargeKeeps DEF Counters
  <1>g. first' \in Maps(Firsts)
    <2>1. [asked |-> FALSE, fin |-> FINAL] \in Firsts
      BY FinsIs DEF Firsts
    <2> QED BY <1>a, <2>1, PutIs DEF TypeWalk, Taken, n
  <1>1. TypeContext'
    <2>1. CASE Remember(n, t, Both(f, PROVISIONAL))
      BY <1>a, <1>b, <2>1, RememberIs DEF TypeContext
    <2>2. CASE UNCHANGED <<memo, partial>>
      BY <2>2 DEF TypeContext
    <2> QED BY <1>c, <2>1, <2>2
  <1>2. TypeCall'
    <2>1. CASE Remember(n, t, Both(f, PROVISIONAL))
      BY <1>a, <1>b, <1>c, <2>1, RememberIs DEF TypeCall, Modes
    <2>2. CASE UNCHANGED <<memo, partial>>
      BY <1>c, <2>2 DEF TypeCall, Modes
    <2> QED BY <1>c, <2>1, <2>2
  <1>3. TypeWalk'
    <2>1. stack' \in Seq(Frames) /\ charged' \in BOOLEAN /\ quarantined' \subseteq Rewriters
      BY <1>a, <1>c, <1>e DEF TypeWalk
    <2>2. rewritten' \subseteq Nodes \X Nodes
      BY <1>a, <1>c DEF TypeWalk
    <2>3. pending' \in Maps(Nat \ {0}) /\ parent' \in Maps(Nodes)
      BY <1>a, <1>c, WaitIs, InheritIs DEF TypeWalk
    <2> QED BY <1>g, <2>1, <2>2, <2>3 DEF TypeWalk
  <1>4. TypeTry'
    BY NotTryingIs DEF TypeTry
  <1>5. TypeSalvage'
    BY DEF TypeSalvage
  <1>6. Meter'
    BY <1>f DEF Meter
  <1>7. Offers'
    BY DEF Offers
  <1>8. SoundMemo'
    <2>1. CASE Remember(n, t, Both(f, PROVISIONAL))
      BY <1>a, <1>b, <1>d, <2>1, RememberSound
    <2>2. CASE UNCHANGED <<memo, partial>>
      BY <2>2 DEF SoundMemo
    <2> QED BY <1>c, <2>1, <2>2
  <1>9. SoundStack'
    BY <1>a, <1>c, <1>e DEF SoundStack
  <1>10. SoundDone'
    BY DEF SoundDone
  <1>11. SoundCall'
    BY DEF SoundCall
  <1> QED BY <1>1, <1>2, <1>3, <1>4, <1>5, <1>6, <1>7, <1>8, <1>9, <1>10, <1>11

\* A node no candidate applies to is its own result.
LEMMA AllTriedKeeps ==
  ASSUME Inv, AllTried
  PROVE  Inv'
  <1> USE DEF Inv, AllTried, BackToWalk, strategyVars, salvageVars
  <1> DEFINE n == trying.node
             f == Both(trying.own, WithoutRel(trying.fin))
  <1>a. n \in Nodes /\ trying.own \in Fins /\ trying.fin \in Fins
    BY TriedIs
  <1>b. f \in Fins /\ Equal(n, n, f.rel)
    <2>1. WithoutRel(trying.fin) \in Fins
      BY <1>a, FinsIs
    <2> QED BY <1>a, <2>1, BothIs, EqualChains
  <1>c. Remember(n, n, f)
    OBVIOUS
  <1> HIDE DEF n, f
  <1>1. TypeContext'
    BY <1>a, <1>b, <1>c, RememberIs DEF TypeContext
  <1>2. TypeCall'
    BY <1>a, <1>b, <1>c, RememberIs DEF TypeCall, Modes
  <1>3. TypeWalk'
    BY DEF TypeWalk
  <1>4. TypeTry'
    BY NotTryingIs DEF TypeTry
  <1>5. TypeSalvage'
    BY DEF TypeSalvage
  <1>6. Meter'
    BY DEF Meter, WithinBudget, TypeCall
  <1>7. Offers'
    BY DEF Offers
  <1>8. SoundMemo'
    BY <1>a, <1>b, <1>c, RememberSound
  <1>9. SoundStack'
    BY DEF SoundStack
  <1>10. SoundDone'
    BY DEF SoundDone
  <1>11. SoundCall'
    BY DEF SoundCall
  <1> QED BY <1>1, <1>2, <1>3, <1>4, <1>5, <1>6, <1>7, <1>8, <1>9, <1>10, <1>11

\* The operands are walked after the question.
LEMMA AskedEarlyKeeps ==
  ASSUME Inv, AskedEarly
  PROVE  Inv'
  <1> USE DEF Inv, AskedEarly, contextVars, strategyVars, salvageVars
  <1>a. first' \in Maps(Firsts)
    <2>1. trying.node \in Nodes /\ trying.fin \in Fins
      BY TriedIs
    <2>2. [asked |-> TRUE, fin |-> trying.fin] \in Firsts
      BY <2>1 DEF Firsts
    <2> QED BY <2>1, <2>2, PutIs DEF TypeWalk
  <1>1. TypeContext'
    BY DEF TypeContext
  <1>2. TypeCall'
    BY DEF TypeCall, Modes
  <1>3. TypeWalk'
    BY <1>a DEF TypeWalk
  <1>4. TypeTry'
    BY NotTryingIs DEF TypeTry
  <1>5. TypeSalvage'
    BY DEF TypeSalvage
  <1>6. Meter'
    BY DEF Meter, WithinBudget, TypeCall
  <1>7. Offers'
    BY DEF Offers
  <1>8. SoundMemo'
    BY DEF SoundMemo
  <1>9. SoundStack'
    BY DEF SoundStack
  <1>10. SoundDone'
    BY DEF SoundDone
  <1>11. SoundCall'
    BY DEF SoundCall
  <1> QED BY <1>1, <1>2, <1>3, <1>4, <1>5, <1>6, <1>7, <1>8, <1>9, <1>10, <1>11

\* What is worked out is passed over.
LEMMA SalvageMetKeeps ==
  ASSUME Inv, NEW n \in Nodes, SalvageMet(n)
  PROVE  Inv'
  <1> USE DEF Inv, SalvageMet, Salvaging, salvageKeeps, strategyVars, walkVars
  <1>1. TypeContext'
    BY DEF TypeContext
  <1>2. TypeCall'
    BY DEF TypeCall
  <1>3. TypeWalk'
    BY DEF TypeWalk
  <1>4. TypeTry'
    BY DEF TypeTry
  <1>5. TypeSalvage'
    BY HeadTail DEF TypeSalvage
  <1>6. Meter'
    BY DEF Meter, WithinBudget, TypeCall
  <1>7. Offers'
    BY DEF Offers
  <1>8. SoundMemo'
    BY DEF SoundMemo
  <1>9. SoundStack'
    BY DEF SoundStack
  <1>10. SoundDone'
    BY DEF SoundDone
  <1>11. SoundCall'
    BY DEF SoundCall
  <1> QED BY <1>1, <1>2, <1>3, <1>4, <1>5, <1>6, <1>7, <1>8, <1>9, <1>10, <1>11

\* What a value is worked out from comes first.
LEMMA SalvageExpandKeeps ==
  ASSUME Inv, NEW n \in Nodes, SalvageExpand(n)
  PROVE  Inv'
  <1> USE DEF Inv, SalvageExpand, Unsettled, Salvaging, salvageKeeps, strategyVars, walkVars
  <1>a. /\ Sources(n) \in Seq(Nodes)
    <2>1. CASE Rewrote(n)
      <3>1. PICK i \in DOMAIN stack : Deepest(n) = stack[i]
        BY <2>1, DeepestIs DEF TypeWalk
      <3>2. Deepest(n).to \in Nodes
        BY <3>1, FrameIs DEF TypeWalk
      <3> QED BY <2>1, <3>2 DEF Sources
    <2>2. CASE ~Rewrote(n)
      BY <2>2, NodesAssumption DEF Sources
    <2> QED BY <2>1, <2>2
  <1> DEFINE S == {i \in DOMAIN Sources(n) : ~Met(Sources(n)[i]) /\ Sources(n)[i] \notin open \cup {n}}
  <1>b. PICK order \in Descending(S) :
       work' = [i \in DOMAIN order |-> [node |-> Sources(n)[order[i]], expanded |-> FALSE]]
               \o <<[node |-> n, expanded |-> TRUE]>> \o Tail(work)
    OBVIOUS
  <1> DEFINE above == [i \in DOMAIN order |-> [node |-> Sources(n)[order[i]], expanded |-> FALSE]]
  <1>c. Len(Sources(n)) \in Nat /\ S \in SUBSET (1 .. Len(Sources(n)))
    BY <1>a
  <1>d. order \in Seq(S) /\ DOMAIN order = 1 .. Cardinality(S) /\ Cardinality(S) \in Nat
    BY <1>b, <1>c, DescendingIs
  <1>e. \A i \in DOMAIN order : order[i] \in DOMAIN Sources(n)
    BY <1>d
  <1>f. above \in Seq(Items)
    <2>1. \A i \in DOMAIN order : [node |-> Sources(n)[order[i]], expanded |-> FALSE] \in Items
      BY <1>a, <1>e DEF Items
    <2>2. above \in [1 .. Cardinality(S) -> Items]
      <3> HIDE DEF S
      <3> QED BY <1>d, <2>1
    <2> HIDE DEF above, S
    <2> QED BY <1>d, <2>2, SeqIs
  <1>g. work' \in Seq(Items)
    <2>1. <<[node |-> n, expanded |-> TRUE]>> \in Seq(Items)
      BY DEF Items
    <2>2. Tail(work) \in Seq(Items)
      BY HeadTail DEF TypeSalvage
    <2>3. work' = above \o <<[node |-> n, expanded |-> TRUE]>> \o Tail(work)
      BY <1>b
    <2>4. above \o <<[node |-> n, expanded |-> TRUE]>> \in Seq(Items)
      <3> HIDE DEF above
      <3> QED BY <1>f, <2>1, Pushed
    <2> HIDE DEF above
    <2> QED BY <2>2, <2>3, <2>4, Pushed
  <1> HIDE DEF S, above
  <1>1. TypeContext'
    BY DEF TypeContext
  <1>2. TypeCall'
    BY DEF TypeCall
  <1>3. TypeWalk'
    BY DEF TypeWalk
  <1>4. TypeTry'
    BY DEF TypeTry
  <1>5. TypeSalvage'
    BY <1>g DEF TypeSalvage
  <1>6. Meter'
    BY DEF Meter, WithinBudget, TypeCall
  <1>7. Offers'
    BY DEF Offers
  <1>8. SoundMemo'
    BY DEF SoundMemo
  <1>9. SoundStack'
    BY DEF SoundStack
  <1>10. SoundDone'
    BY DEF SoundDone
  <1>11. SoundCall'
    BY DEF SoundCall
  <1> QED BY <1>1, <1>2, <1>3, <1>4, <1>5, <1>6, <1>7, <1>8, <1>9, <1>10, <1>11
\* A value known is kept.
LEMMA SalvageKnownKeeps ==
  ASSUME Inv, NEW n \in Nodes, SalvageKnown(n)
  PROVE  Inv'
  <1> USE DEF Inv, SalvageKnown, Salvaging, salvageKeeps, strategyVars, walkVars
  <1>a. Lookup(n) \in Results /\ Agrees(n, Lookup(n))
    BY LookupIs, FinsIs
  <1>1. TypeContext' /\ TypeCall' /\ TypeWalk' /\ TypeTry'
    BY DEF TypeContext, TypeCall, TypeWalk, TypeTry
  <1>2. TypeSalvage'
    BY <1>a, HeadTail, PutIs DEF TypeSalvage
  <1>3. Meter' /\ Offers'
    BY DEF Meter, WithinBudget, Offers
  <1>4. SoundMemo' /\ SoundStack' /\ SoundCall'
    BY DEF SoundMemo, SoundStack, SoundCall
  <1>5. SoundDone'
    <2> DEFINE r == Lookup(n)
    <2>1. done' = Put(done, n, r) /\ Agrees(n, r)
      BY <1>a
    <2> HIDE DEF r
    <2> QED BY <2>1 DEF SoundDone, Put, Agrees
  <1> QED BY <1>1, <1>2, <1>3, <1>4, <1>5

\* A node that waits becomes what its rewrite has become.
LEMMA SalvageFinishKeeps ==
  ASSUME Inv, NEW n \in Nodes, SalvageFinish(n)
  PROVE  Inv'
  <1> DEFINE d == Deepest(n)
             v == ValueOr(d.to)
             r == Result(v.to, Both(d.own, v.fin))
  <1>1. PICK i \in DOMAIN stack : d = stack[i] /\ stack[i].node = n
    BY DeepestIs DEF SalvageFinish, Inv, TypeWalk
  <1>2. d \in Frames /\ d.node = n /\ Equal(n, d.to, d.own.rel)
    BY <1>1 DEF Inv, TypeWalk, SoundStack, Right
  <1>3. d.to \in Nodes /\ d.own \in Fins
    BY <1>2, FrameIs
  <1>4. Salvaging(n) /\ Settle(n, r) /\ UNCHANGED <<arena, spent, call>>
    BY DEF SalvageFinish, Unsettled, Settle, salvageKeeps
  <1> HIDE DEF d
  <1>5. v \in Results /\ Agrees(d.to, v)
    BY <1>3, ValueOrIs
  <1>6. v.to \in Nodes /\ v.fin \in Fins
    BY <1>5, ResultIs
  <1> HIDE DEF v
  <1>7. Both(d.own, v.fin) \in Fins /\ Both(d.own, v.fin).rel = d.own.rel \cup v.fin.rel
    BY <1>3, <1>6, BothIs
  <1>8. r \in Results /\ r.to = v.to /\ r.fin = Both(d.own, v.fin)
    BY <1>6, <1>7, ResultIs
  <1>9. Agrees(n, r)
    BY <1>2, <1>5, <1>7, <1>8, EqualChains DEF Agrees
  <1> HIDE DEF r
  <1>10. arena' \subseteq Nodes /\ spent' \in Spendings /\ WithinBudget'
    BY <1>4 DEF Inv, TypeContext, Meter, WithinBudget
  <1> QED BY <1>4, <1>8, <1>9, <1>10, SettleKeeps

\* A node rebuilt over what its operands have become equals it.
LEMMA SalvageRebuildKeeps ==
  ASSUME Inv, NEW n \in Nodes, SalvageRebuild(n)
  PROVE  Inv'
  <1> DEFINE values == [i \in DOMAIN Kids(n) |-> ValueOr(Kids(n)[i])]
             m == Rebuild(n, OverKids(values))
             own == KidsFin(values)
  <1>1. DOMAIN values = DOMAIN Kids(n) /\ \A i \in DOMAIN Kids(n) : values[i] = ValueOr(Kids(n)[i])
    OBVIOUS
  <1>2. \A i \in DOMAIN Kids(n) : values[i] \in Results /\ Agrees(Kids(n)[i], values[i])
    <2>1. \A i \in DOMAIN Kids(n) : Kids(n)[i] \in Nodes
      BY NodesAssumption
    <2> HIDE DEF values
    <2> QED BY <1>1, <2>1, ValueOrIs
  <1>3. Salvaging(n) /\ mode # "idle" /\ call' = call
    BY DEF SalvageRebuild, Unsettled, Salvaging, Settle, salvageKeeps
  <1>4. \/ Settle(n, Result(n, FINAL)) /\ UNCHANGED <<arena, spent>>
        \/ /\ Charge("new_nodes", Cardinality(Missing(m))) /\ arena' = arena \cup Below(m)
           /\ Settle(n, Result(m, own))
        \/ Partly(m) /\ Settle(n, Result(n, FINAL))
    BY DEF SalvageRebuild
  <1> HIDE DEF values
  <1>5. own \in Fins /\ m \in Nodes /\ Equal(n, m, own.rel)
    BY <1>1, <1>2, RebuildIs
  <1> HIDE DEF m, own
  <1>6. Result(m, own) \in Results /\ Agrees(n, Result(m, own))
    BY <1>5, ResultIs DEF Agrees
  <1>7. Result(n, FINAL) \in Results /\ Agrees(n, Result(n, FINAL))
    <2>1. /\ Result(n, FINAL) \in Results
          /\ Result(n, FINAL).to = n /\ Result(n, FINAL).fin = FINAL
      BY ResultIs, FinsIs
    <2> QED BY <2>1, EqualChains DEF Agrees
  <1>8. CASE Settle(n, Result(n, FINAL)) /\ UNCHANGED <<arena, spent>>
    <2>1. arena' \subseteq Nodes /\ spent' \in Spendings /\ WithinBudget'
      BY <1>3, <1>8 DEF Inv, TypeContext, Meter, WithinBudget
    <2> QED BY <1>3, <1>7, <1>8, <2>1, SettleKeeps
  <1>9. CASE Charge("new_nodes", Cardinality(Missing(m))) /\ arena' = arena \cup Below(m) /\ Settle(n, Result(m, own))
    <2>1. Cardinality(Missing(m)) \in Nat /\ Below(m) \subseteq Nodes
      BY <1>5, MissingIs
    <2>2. arena' \subseteq Nodes /\ spent' \in Spendings /\ WithinBudget'
      BY <1>3, <1>9, <2>1, ChargeKeeps DEF Inv, TypeContext, Counters
    <2> QED BY <1>3, <1>6, <1>9, <2>2, SettleKeeps
  <1>10. CASE Partly(m) /\ Settle(n, Result(n, FINAL))
    <2>1. arena' \subseteq Nodes /\ spent' \in Spendings /\ WithinBudget'
      BY <1>3, <1>5, <1>10, PartlyKeeps DEF Inv
    <2> QED BY <1>3, <1>7, <1>10, <2>1, SettleKeeps
  <1> QED BY <1>4, <1>8, <1>9, <1>10

\* Whichever budget runs out, the phase stops and what it did is salvaged.
LEMMA RunOutKeeps ==
  ASSUME Inv, RunOut
  PROVE  Inv'
  <1>1. ASSUME OutOfVisits \/ OutOfCandidates \/ OutOfRewrites
        PROVE  Inv'
    <2>1. mode # "idle" /\ Salvaged /\ UNCHANGED <<arena, spent, call>>
      BY <1>1 DEF OutOfVisits, OutOfCandidates, OutOfRewrites, VisitDue, Trying, Admitted, Salvaged
    <2>2. arena' \subseteq Nodes /\ spent' \in Spendings /\ WithinBudget'
      BY <2>1 DEF Inv, TypeContext, Meter, WithinBudget
    <2> QED BY <2>1, <2>2, SalvagedKeeps
  <1>2. ASSUME OutOfNodes
        PROVE  Inv'
    <2>1. PICK m \in Nodes : mode # "idle" /\ Partly(m)
      <3>1. CASE \E n \in Nodes : Ready(n) /\ KidsKnown(n) /\ Partly(Rebuilt(n))
        BY <3>1, RebuiltIs DEF Inv, Ready, Visiting
      <3>2. CASE Trying("matched") /\ Partly(Offer.to)
        BY <3>2, TriedIs DEF Trying
      <3> QED BY <1>2, <3>1, <3>2 DEF OutOfNodes
    <2>2. Salvaged /\ call' = call
      BY <1>2 DEF OutOfNodes, Salvaged
    <2>3. arena' \subseteq Nodes /\ spent' \in Spendings /\ WithinBudget'
      BY <2>1, <2>2, PartlyKeeps DEF Inv
    <2> QED BY <2>1, <2>2, <2>3, SalvagedKeeps
  <1>3. ASSUME OutOfTime
        PROVE  Inv'
    <2>1. mode # "idle" /\ Return(cur, curFin, "terminated")
      BY <1>3 DEF OutOfTime, VisitDue, Trying, Admitted
    <2>2. cur \in Nodes /\ curFin \in Fins /\ Equal(call.root, cur, curFin.rel)
      BY <2>1 DEF Inv, TypeCall, SoundCall
    <2> QED BY <2>1, <2>2, ReturnKeeps
  <1> QED BY <1>1, <1>2, <1>3 DEF RunOut

\* A call that completes, and one that ends after a salvage.
LEMMA CompleteKeeps ==
  ASSUME Inv, Complete
  PROVE  Inv'
  <1>1. mode # "idle" /\ Return(cur, curFin, IF curFin.capped /\ ~curFin.done THEN "terminated" ELSE "completed")
    BY DEF Complete
  <1>2. cur \in Nodes /\ curFin \in Fins /\ Equal(call.root, cur, curFin.rel)
    BY <1>1 DEF Inv, TypeCall, SoundCall
  <1> QED BY <1>1, <1>2, ReturnKeeps

LEMMA SalvageEndKeeps ==
  ASSUME Inv, SalvageEnd
  PROVE  Inv'
  <1> DEFINE r == ValueOr(cur)
             less == Both(r.fin, PROVISIONAL)
             f == IF r.to = cur THEN curFin ELSE Both(curFin, less)
  <1>1. mode # "idle" /\ Return(r.to, f, "terminated")
    BY DEF SalvageEnd
  <1>2. cur \in Nodes /\ curFin \in Fins /\ Equal(call.root, cur, curFin.rel)
    BY <1>1 DEF Inv, TypeCall, SoundCall
  <1>3. r \in Results /\ Agrees(cur, r)
    BY <1>2, ValueOrIs
  <1>4. r.to \in Nodes /\ r.fin \in Fins /\ PROVISIONAL \in Fins
    BY <1>3, ResultIs, FinsIs
  <1> HIDE DEF r
  <1>5. less \in Fins /\ less.rel = r.fin.rel \cup PROVISIONAL.rel
    BY <1>4, BothIs
  <1> HIDE DEF less
  <1>6. Both(curFin, less) \in Fins /\ Both(curFin, less).rel = curFin.rel \cup less.rel
    BY <1>2, <1>5, BothIs
  <1>7. f \in Fins
    BY <1>2, <1>6
  <1>8. Equal(call.root, r.to, f.rel)
    <2>1. CASE r.to = cur
      BY <1>2, <2>1
    <2>2. CASE r.to # cur
      <3>1. Equal(call.root, r.to, curFin.rel \cup r.fin.rel)
        BY <1>2, <1>3, EqualChains DEF Agrees
      <3> QED BY <1>5, <1>6, <2>2, <3>1, EqualChains
    <2> QED BY <2>1, <2>2
  <1> HIDE DEF f
  <1> QED BY <1>1, <1>4, <1>7, <1>8, ReturnKeeps

-----------------------------------------------------------------------------
(* The invariant. *)

LEMMA InitInv == Init => Inv
  <1> SUFFICES ASSUME Init PROVE Inv
    OBVIOUS
  <1> USE DEF Init
  <1>1. TypeContext
    BY EmptyIs DEF TypeContext, Memos
  <1>2. TypeCall
    BY PhasesAssumption, FinsIs DEF TypeCall, Modes, Phases
  <1>3. TypeWalk
    <2>1. <<>> \in Seq(Frames)
      OBVIOUS
    <2> QED BY <2>1, EmptyIs DEF TypeWalk
  <1>4. TypeTry
    BY NotTryingIs DEF TypeTry
  <1>5. TypeSalvage
    <2>1. <<>> \in Seq(Items)
      OBVIOUS
    <2> QED BY <2>1, EmptyIs DEF TypeSalvage
  <1>6. Meter
    BY DEF Meter, WithinBudget, Spendings
  <1>7. Offers /\ SoundCall
    BY DEF Offers, SoundCall
  <1>8. SoundMemo /\ SoundDone
    BY EmptyIs DEF SoundMemo, SoundDone
  <1>9. SoundStack
    BY RightIs DEF SoundStack
  <1> QED BY <1>1, <1>2, <1>3, <1>4, <1>5, <1>6, <1>7, <1>8, <1>9 DEF Inv

LEMMA StrategyKeeps ==
  ASSUME Inv, Strategy
  PROVE  Inv'
  BY RootKnownKeeps, EnterWalkKeeps, LeaveWalkKeeps, NextPhaseKeeps, CompleteKeeps DEF Strategy

LEMMA WalkKeeps ==
  ASSUME Inv, Walk
  PROVE  Inv'
  BY FinishKeeps, VisitKnownKeeps, VisitChargedKeeps, VisitOpaqueKeeps, VisitFirstKeeps,
     VisitDescendKeeps, VisitRebuildKeeps, VisitTryKeeps, VisitUnaskedKeeps DEF Walk

LEMMA TryKeeps ==
  ASSUME Inv, Try
  PROVE  Inv'
  BY SkipQuarantinedKeeps, ChargeCandidateKeeps, DeclineKeeps, BuildKeeps, NoChangeKeeps,
     RejectKeeps, VetoKeeps, AcceptKeeps, AllTriedKeeps, AskedEarlyKeeps DEF Try

LEMMA SalvageKeeps ==
  ASSUME Inv, Salvage
  PROVE  Inv'
  BY SalvageMetKeeps, SalvageKnownKeeps, SalvageExpandKeeps, SalvageFinishKeeps,
     SalvageRebuildKeeps, SalvageEndKeeps DEF Salvage

LEMMA StutterKeeps ==
  ASSUME Inv, UNCHANGED vars
  PROVE  Inv'
  <1> USE DEF vars, contextVars, strategyVars, walkVars, salvageVars
  <1>1. TypeContext' /\ TypeCall' /\ TypeWalk' /\ TypeTry' /\ TypeSalvage'
    BY DEF Inv, TypeContext, TypeCall, TypeWalk, TypeTry, TypeSalvage
  <1>2. Meter' /\ Offers' /\ SoundCall'
    BY DEF Inv, Meter, WithinBudget, Offers, SoundCall
  <1>3. SoundMemo' /\ SoundStack' /\ SoundDone'
    BY DEF Inv, SoundMemo, SoundStack, SoundDone
  <1> QED BY <1>1, <1>2, <1>3 DEF Inv

LEMMA NextInv == Inv /\ [Next]_vars => Inv'
  BY BeginCallKeeps, StrategyKeeps, WalkKeeps, TryKeeps, RunOutKeeps, SalvageKeeps, StutterKeeps
     DEF Next, Begin, Work

LEMMA InvHolds == Spec => []Inv
  BY InitInv, NextInv, PTL DEF Spec

-----------------------------------------------------------------------------
(* What a result that waits waits for. *)

Opened == DOMAIN memo.result[phase] \cup DOMAIN partial[phase]

\* The frames s, over nodes known and ones being tried: every frame that waits,
\* and the walk itself below them all, has its result, or the frame just above
\* is there to give it.
Linked(known, s, tried, start) ==
  \A i \in 1 .. Len(s) + 1 :
    LET wanted == IF i > Len(s) THEN start ELSE s[i].to
    IN  i > Len(s) \/ s[i].kind = "finish" =>
          wanted \in known \/ IF i = 1 THEN wanted \in tried ELSE wanted = s[i - 1].node

Tried == IF mode = "try" /\ ~trying.early THEN {trying.node} ELSE {}
Linking ==
  mode \in {"walk", "try"} =>
    /\ Linked(Opened, stack, Tried, cur)
    /\ mode = "try" /\ trying.early => stack # <<>> /\ Top.kind = "visit" /\ Top.node = trying.node

\* What is kept for the call only is not final.
OpenPartials == \A p \in Phases : \A n \in DOMAIN partial[p] : ~partial[p][n].fin.done

-----------------------------------------------------------------------------
(* How the memo leads from a round's first node to the one reached. *)

Path(results, q, a, b) ==
  \E path \in [0 .. q -> Nodes] :
    /\ path[0] = a /\ path[q] = b
    /\ \A p \in 1 .. q : path[p - 1] \in DOMAIN results[p] /\ results[p][path[p - 1]].to = path[p]

Walked == IF mode = "next" THEN phase ELSE phase - 1
Leading ==
  /\ mode = "idle" => phase = 1
  /\ mode # "idle" /\ curFin.done => Path(memo.result, Walked, roundStart, cur)


Links2 == Linking /\ OpenPartials /\ Leading

-----------------------------------------------------------------------------
(* Links and paths. *)

\* What is known may grow, and what is tried become known.
LEMMA LinkedGrows ==
  ASSUME NEW known, NEW more, NEW tried, NEW trying2, NEW s, NEW start,
         known \subseteq more, tried \subseteq more \cup trying2, Linked(known, s, tried, start)
  PROVE  Linked(more, s, trying2, start)
  BY DEF Linked

\* The frame taken off is tried.
LEMMA LinkedPop ==
  ASSUME NEW known, NEW tried, NEW s \in Seq(Frames), s # <<>>, NEW start, Linked(known, s, tried, start)
  PROVE  Linked(known, Tail(s), {Head(s).node}, start)
  <1>1. /\ Head(s) = s[1] /\ Len(s) \in Nat /\ Len(s) >= 1 /\ Len(Tail(s)) = Len(s) - 1
        /\ \A i \in 1 .. Len(s) - 1 : Tail(s)[i] = s[i + 1]
    OBVIOUS
  <1> DEFINE t == Tail(s)
  <1> HIDE DEF t
  <1> SUFFICES ASSUME NEW i \in 1 .. Len(t) + 1
               PROVE  LET wanted == IF i > Len(t) THEN start ELSE t[i].to
                      IN  i > Len(t) \/ t[i].kind = "finish" =>
                            wanted \in known \/ IF i = 1 THEN wanted \in {Head(s).node} ELSE wanted = t[i - 1].node
    BY DEF Linked, t
  <1> USE DEF t
  <1>2. i \in 1 .. Len(s) /\ i + 1 \in 1 .. Len(s) + 1 /\ (i + 1 > Len(s) <=> i > Len(t)) /\ i + 1 # 1 /\ i + 1 - 1 = i
    BY <1>1
  <1>3. i # 1 => i - 1 \in 1 .. Len(s) - 1 /\ Tail(s)[i - 1] = s[i]
    BY <1>1
  <1>4. i <= Len(t) => Tail(s)[i] = s[i + 1]
    BY <1>1
  <1>5. LET wanted == IF i + 1 > Len(s) THEN start ELSE s[i + 1].to
        IN  i + 1 > Len(s) \/ s[i + 1].kind = "finish" =>
              wanted \in known \/ wanted = s[i].node
    BY <1>2 DEF Linked
  <1>6. CASE i = 1
    <2> HIDE DEF t
    <2> QED BY <1>1, <1>2, <1>4, <1>5, <1>6 DEF t
  <1>7. CASE i # 1
    BY <1>1, <1>2, <1>3, <1>4, <1>5, <1>7
  <1> QED BY <1>6, <1>7

\* A node that was tried waits on its replacement.
LEMMA Positions ==
  ASSUME NEW S, NEW s \in Seq(S), NEW u \in Seq(S)
  PROVE  /\ Len(s) \in Nat /\ Len(u) \in Nat /\ Len(u \o s) = Len(u) + Len(s)
         /\ \A i \in 1 .. Len(u) : (u \o s)[i] = u[i]
         /\ \A i \in 1 .. Len(s) : (u \o s)[i + Len(u)] = s[i]
  OBVIOUS

\* u visits what n waits for.
VisitFor(u, n) == Len(u) = 2 /\ u[1].kind = "visit" /\ u[2].to = u[1].node /\ u[2].node = n

LEMMA LinkedPair ==
  ASSUME NEW known, NEW s \in Seq(Frames), NEW u \in Seq(Frames), NEW n, NEW start,
         VisitFor(u, n),
         Linked(known, s, {n}, start)
  PROVE  Linked(known, u \o s, {}, start)
  <1>1. /\ Len(s) \in Nat /\ Len(u \o s) = 2 + Len(s)
        /\ (u \o s)[1] = u[1] /\ (u \o s)[2] = u[2]
        /\ \A i \in 1 .. Len(s) : (u \o s)[i + 2] = s[i]
    <2>1. /\ Len(s) \in Nat /\ Len(u \o s) = Len(u) + Len(s)
          /\ \A i \in 1 .. Len(u) : (u \o s)[i] = u[i]
          /\ \A i \in 1 .. Len(s) : (u \o s)[i + Len(u)] = s[i]
      BY Positions
    <2>2. Len(u) = 2
      BY DEF VisitFor
    <2> QED BY <2>1, <2>2
  <1>0. u[1].kind = "visit" /\ u[2].to = u[1].node /\ u[2].node = n
    BY DEF VisitFor
  <1> SUFFICES ASSUME NEW i \in 1 .. 2 + Len(s) + 1
               PROVE  LET wanted == IF i > 2 + Len(s) THEN start ELSE (u \o s)[i].to
                      IN  i > 2 + Len(s) \/ (u \o s)[i].kind = "finish" =>
                            wanted \in known \/ IF i = 1 THEN wanted \in {} ELSE wanted = (u \o s)[i - 1].node
    BY <1>1 DEF Linked
  <1>2. CASE i = 1
    BY <1>0, <1>1, <1>2
  <1>3. CASE i = 2
    BY <1>0, <1>1, <1>3
  <1>4. CASE i >= 3
    <2> DEFINE j == i - 2
    <2>1. j \in 1 .. Len(s) + 1 /\ i = j + 2 /\ (i > 2 + Len(s) <=> j > Len(s)) /\ i # 1
      BY <1>1, <1>4
    <2>2. j <= Len(s) => (u \o s)[i] = s[j]
      BY <1>1, <2>1
    <2>3. j = 1 => (u \o s)[i - 1].node = n
      BY <1>0, <1>1, <2>1
    <2>4. j # 1 => (u \o s)[i - 1] = s[j - 1]
      <3> SUFFICES ASSUME j # 1 PROVE (u \o s)[i - 1] = s[j - 1]
        OBVIOUS
      <3>1. j - 1 \in 1 .. Len(s) /\ (j - 1) + 2 = i - 1
        BY <1>1, <2>1
      <3> HIDE DEF j
      <3> QED BY <1>1, <3>1
    <2> HIDE DEF j
    <2>5. LET wanted == IF j > Len(s) THEN start ELSE s[j].to
          IN  j > Len(s) \/ s[j].kind = "finish" =>
                wanted \in known \/ IF j = 1 THEN wanted = n ELSE wanted = s[j - 1].node
      BY <2>1 DEF Linked
    <2>6. CASE j = 1
      BY <1>1, <2>1, <2>2, <2>3, <2>5, <2>6
    <2>7. CASE j # 1
      BY <1>1, <2>1, <2>2, <2>4, <2>5, <2>7
    <2> QED BY <2>6, <2>7
  <1> QED BY <1>1, <1>2, <1>3, <1>4

LEMMA LinkedAwait ==
  ASSUME NEW known, NEW s \in Seq(Frames), NEW n \in Nodes, NEW t \in Nodes, NEW f \in Fins, NEW start,
         Linked(known, s, {n}, start)
  PROVE  Linked(known, Await(n, t, f) \o s, {}, start)
  <1> DEFINE u == Await(n, t, f)
  <1>1. /\ u \in Seq(Frames) /\ Len(u) = 2 /\ u[1] = Visit(t) /\ u[2] = FinishWith(n, t, f)
    BY FrameIs
  <1>2. /\ Visit(t).kind = "visit" /\ Visit(t).node = t /\ FinishWith(n, t, f).node = n /\ FinishWith(n, t, f).to = t
    BY FrameIs
  <1> HIDE DEF u
  <1>3. Linked(known, u \o s, {}, start)
    BY <1>1, <1>2, LinkedPair DEF VisitFor
  <1> QED BY <1>3 DEF u

\* Visits go on top of a visit.
LEMMA LinkedAbove ==
  ASSUME NEW known, NEW s \in Seq(Frames), NEW u \in Seq(Frames), NEW start, s # <<>>, s[1].kind = "visit",
         \A i \in 1 .. Len(u) : u[i].kind = "visit", Linked(known, s, {}, start)
  PROVE  Linked(known, u \o s, {}, start)
  <1>1. /\ Len(s) \in Nat /\ Len(s) >= 1 /\ Len(u) \in Nat /\ Len(u \o s) = Len(u) + Len(s)
        /\ \A i \in 1 .. Len(u) : (u \o s)[i] = u[i]
        /\ \A i \in 1 .. Len(s) : (u \o s)[i + Len(u)] = s[i]
    OBVIOUS
  <1> SUFFICES ASSUME NEW i \in 1 .. Len(u) + Len(s) + 1
               PROVE  LET wanted == IF i > Len(u) + Len(s) THEN start ELSE (u \o s)[i].to
                      IN  i > Len(u) + Len(s) \/ (u \o s)[i].kind = "finish" =>
                            wanted \in known \/ IF i = 1 THEN wanted \in {} ELSE wanted = (u \o s)[i - 1].node
    BY <1>1 DEF Linked
  <1>2. CASE i <= Len(u)
    BY <1>1, <1>2
  <1>3. CASE i = Len(u) + 1
    <2>1. 1 \in 1 .. Len(s) /\ (u \o s)[1 + Len(u)] = s[1] /\ 1 + Len(u) = i
      BY <1>1, <1>3
    <2> QED BY <1>1, <1>3, <2>1
  <1>4. CASE i > Len(u) + 1
    <2> DEFINE j == i - Len(u)
    <2>1. j \in 1 .. Len(s) + 1 /\ i = j + Len(u) /\ (i > Len(u) + Len(s) <=> j > Len(s)) /\ i # 1 /\ j # 1
      BY <1>1, <1>4
    <2>2. j <= Len(s) => (u \o s)[i] = s[j]
      BY <1>1, <2>1
    <2>3. (u \o s)[i - 1] = s[j - 1]
      <3>1. j - 1 \in 1 .. Len(s) /\ (j - 1) + Len(u) = i - 1
        BY <1>1, <2>1
      <3> HIDE DEF j
      <3> QED BY <1>1, <3>1
    <2> HIDE DEF j
    <2> QED BY <2>1, <2>2, <2>3 DEF Linked
  <1> QED BY <1>1, <1>2, <1>3, <1>4

LEMMA LinkedStart ==
  ASSUME NEW known, NEW n \in Nodes
  PROVE  Linked(known, <<Visit(n)>>, {}, n)
  BY FrameIs DEF Linked

\* Paths start, keep and go on.
LEMMA PathStarts ==
  ASSUME NEW results, NEW a \in Nodes
  PROVE  Path(results, 0, a, a)
  <1>1. [p \in 0 .. 0 |-> a] \in [0 .. 0 -> Nodes] /\ [p \in 0 .. 0 |-> a][0] = a /\ 1 .. 0 = {}
    OBVIOUS
  <1> QED BY <1>1 DEF Path

LEMMA PathKept ==
  ASSUME NEW results, NEW later, NEW q \in Nat, NEW a, NEW b, Path(results, q, a, b),
         \A p \in 1 .. q : later[p] = results[p]
  PROVE  Path(later, q, a, b)
  BY DEF Path

LEMMA PathGoesOn ==
  ASSUME NEW results, NEW q \in Nat, NEW a, NEW b, NEW c \in Nodes, Path(results, q, a, b),
         b \in DOMAIN results[q + 1], results[q + 1][b].to = c
  PROVE  Path(results, q + 1, a, c)
  <1>1. PICK path \in [0 .. q -> Nodes] :
          /\ path[0] = a /\ path[q] = b
          /\ \A p \in 1 .. q : path[p - 1] \in DOMAIN results[p] /\ results[p][path[p - 1]].to = path[p]
    BY DEF Path
  <1> DEFINE longer == [p \in 0 .. q + 1 |-> IF p = q + 1 THEN c ELSE path[p]]
  <1>2. longer \in [0 .. q + 1 -> Nodes] /\ longer[0] = a /\ longer[q + 1] = c
    BY <1>1
  <1>3. ASSUME NEW p \in 1 .. q + 1
        PROVE  longer[p - 1] \in DOMAIN results[p] /\ results[p][longer[p - 1]].to = longer[p]
    <2>1. CASE p = q + 1
      <3>1. longer[p - 1] = b /\ longer[p] = c
        BY <1>1, <2>1
      <3> HIDE DEF longer
      <3> QED BY <2>1, <3>1
    <2>2. CASE p # q + 1
      <3>1. p \in 1 .. q /\ longer[p - 1] = path[p - 1] /\ longer[p] = path[p]
        BY <2>2
      <3> HIDE DEF longer
      <3> QED BY <1>1, <3>1
    <2> QED BY <2>1, <2>2
  <1> HIDE DEF longer
  <1> QED BY <1>2, <1>3 DEF Path

\* What remembering a result makes known.
LEMMA RememberOpens ==
  ASSUME Inv, OpenPartials, NEW n \in Nodes, NEW r \in Nodes, NEW f \in Fins, Remember(n, r, f), phase' = phase
  PROVE  /\ OpenPartials' /\ Opened' = Opened \cup {n}
         /\ \A p \in Phases \ {phase} : memo'.result[p] = memo.result[p]
  <1>1. TypeContext /\ TypeCall /\ phase \in Phases /\ f.done \in BOOLEAN /\ Result(r, f).fin = f
    <2>1. f.done \in BOOLEAN
      BY DEF Fins
    <2>2. Result(r, f).fin = f
      BY ResultIs
    <2> QED BY <2>1, <2>2 DEF Inv, TypeCall
  <1>2. /\ \A p \in Phases :
              memo'.result[p] = IF p = phase /\ f.done THEN Put(memo.result[p], n, [to |-> r, rel |-> f.rel])
                                ELSE memo.result[p]
        /\ \A p \in Phases :
             partial'[p] = IF p = phase /\ ~f.done THEN Put(partial[p], n, Result(r, f)) ELSE partial[p]
    BY <1>1, RememberIs
  <1>3. OpenPartials'
    <2> SUFFICES ASSUME NEW p \in Phases, NEW m \in DOMAIN partial'[p] PROVE ~partial'[p][m].fin.done
      BY DEF OpenPartials
    <2>1. CASE p = phase /\ ~f.done
      <3>1. partial'[p] = Put(partial[p], n, Result(r, f))
        BY <1>2, <2>1
      <3>2. m = n \/ m \in DOMAIN partial[p]
        BY <3>1 DEF Put
      <3>3. partial'[p][m] = IF m = n THEN Result(r, f) ELSE partial[p][m]
        BY <3>1 DEF Put
      <3> QED BY <1>1, <2>1, <3>2, <3>3 DEF OpenPartials
    <2>2. CASE ~(p = phase /\ ~f.done)
      BY <1>2, <2>2 DEF OpenPartials
    <2> QED BY <2>1, <2>2
  <1>4. Opened' = Opened \cup {n}
    <2>1. CASE f.done
      <3>1. memo'.result[phase] = Put(memo.result[phase], n, [to |-> r, rel |-> f.rel]) /\ partial'[phase] = partial[phase]
        BY <1>1, <1>2, <2>1
      <3> QED BY <3>1 DEF Opened, Put
    <2>2. CASE ~f.done
      <3>1. memo'.result[phase] = memo.result[phase] /\ partial'[phase] = Put(partial[phase], n, Result(r, f))
        BY <1>1, <1>2, <2>2
      <3> QED BY <3>1 DEF Opened, Put
    <2> QED BY <1>1, <2>1, <2>2
  <1> QED BY <1>2, <1>3, <1>4

\* A step within a phase leaves the path to it.
LEMMA LeadingKept ==
  ASSUME Inv, Leading, mode \in {"walk", "try", "salvage", "phase"}, mode' \in {"walk", "try", "salvage"},
         UNCHANGED strategyVars, \A p \in Phases \ {phase} : memo'.result[p] = memo.result[p]
  PROVE  Leading'
  <1>1. /\ phase \in Phases /\ phase' = phase /\ roundStart' = roundStart /\ cur' = cur /\ curFin' = curFin
        /\ Walked = phase - 1 /\ Walked' = phase - 1
    BY DEF Inv, TypeCall, strategyVars, Walked
  <1>2. phase - 1 \in Nat /\ \A p \in 1 .. phase - 1 : p \in Phases \ {phase}
    BY <1>1, PhasesAssumption DEF Phases
  <1>3. SUFFICES ASSUME curFin.done PROVE Path(memo'.result, phase - 1, roundStart, cur)
    BY <1>1 DEF Leading
  <1>4. Path(memo.result, phase - 1, roundStart, cur)
    BY <1>1, <1>3 DEF Leading
  <1>5. \A p \in 1 .. phase - 1 : memo'.result[p] = memo.result[p]
    BY <1>2
  <1> QED BY <1>2, <1>4, <1>5, PathKept

\* Steps that remember nothing, and steps that do.
LEMMA QuietStep ==
  ASSUME Inv, Links2, mode \in {"walk", "try"}, mode' \in {"walk", "try"}, UNCHANGED <<strategyVars, memo, partial>>,
         Linked(Opened, stack', Tried', cur),
         mode' = "try" /\ trying'.early => stack' # <<>> /\ Top'.kind = "visit" /\ Top'.node = trying'.node
  PROVE  Links2'
  <1>1. cur' = cur /\ Opened' = Opened
    BY DEF strategyVars, Opened
  <1>2. Linking'
    BY <1>1 DEF Linking
  <1>3. OpenPartials'
    BY DEF Links2, OpenPartials
  <1>4. Leading'
    BY LeadingKept DEF Links2
  <1> QED BY <1>2, <1>3, <1>4 DEF Links2

LEMMA RememberStep ==
  ASSUME Inv, Links2, mode \in {"walk", "try"}, mode' = "walk", UNCHANGED strategyVars,
         NEW n \in Nodes, NEW r \in Nodes, NEW f \in Fins, Remember(n, r, f),
         Linked(Opened \cup {n}, stack', {}, cur)
  PROVE  Links2'
  <1>1. cur' = cur /\ phase' = phase /\ Tried' = {}
    BY DEF strategyVars, Tried
  <1>2. /\ OpenPartials' /\ Opened' = Opened \cup {n}
        /\ \A p \in Phases \ {phase} : memo'.result[p] = memo.result[p]
    BY <1>1, RememberOpens DEF Links2
  <1>3. Linking'
    BY <1>1, <1>2 DEF Linking
  <1>4. Leading'
    BY <1>2, LeadingKept DEF Links2
  <1> QED BY <1>2, <1>3, <1>4 DEF Links2

\* A result known to be final is in the memo.
LEMMA LookupDone ==
  ASSUME Inv, OpenPartials, NEW n \in Nodes, Known(n), Lookup(n).fin.done
  PROVE  /\ n \in DOMAIN memo.result[phase]
         /\ Lookup(n).to = memo.result[phase][n].to /\ Lookup(n).fin.rel = memo.result[phase][n].rel
  <1>1. phase \in Phases /\ memo.result[phase] \in Maps(Finals)
    BY DEF Inv, TypeCall, TypeContext, Memos
  <1>2. n \in DOMAIN memo.result[phase]
    BY <1>1 DEF Known, Lookup, OpenPartials
  <1> DEFINE known == memo.result[phase][n]
  <1>3. known.to \in Nodes /\ known.rel \in SUBSET Constraints
    <2>1. known \in Finals
      BY <1>1, <1>2, MapIs
    <2> QED BY <2>1 DEF Finals
  <1>4. Lookup(n) = Result(known.to, Relying(known.rel))
    BY <1>2 DEF Lookup
  <1> HIDE DEF known
  <1>5. Relying(known.rel) \in Fins /\ Relying(known.rel).rel = known.rel
    BY <1>3, FinsIs
  <1>6. Lookup(n).to = known.to /\ Lookup(n).fin = Relying(known.rel)
    BY <1>3, <1>4, <1>5, ResultIs
  <1> QED BY <1>2, <1>5, <1>6 DEF known

LEMMA LookupOrDone ==
  ASSUME Inv, OpenPartials, NEW n \in Nodes, LookupOr(n, PROVISIONAL).fin.done
  PROVE  /\ n \in DOMAIN memo.result[phase]
         /\ LookupOr(n, PROVISIONAL).to = memo.result[phase][n].to
         /\ LookupOr(n, PROVISIONAL).fin.rel = memo.result[phase][n].rel
  <1>1. Known(n)
    <2> SUFFICES ASSUME ~Known(n) PROVE FALSE
      OBVIOUS
    <2>1. LookupOr(n, PROVISIONAL) = Result(n, PROVISIONAL)
      BY DEF LookupOr
    <2>2. Result(n, PROVISIONAL).fin = PROVISIONAL
      BY FinsIs, ResultIs
    <2> QED BY <2>1, <2>2, FinsIs
  <1>2. LookupOr(n, PROVISIONAL) = Lookup(n)
    BY <1>1 DEF LookupOr
  <1> QED BY <1>1, <1>2, LookupDone

\* The links at a visit, and while a node is tried.
LEMMA VisitLinks ==
  ASSUME Inv, Links2, NEW n \in Nodes, Visiting(n)
  PROVE  /\ mode = "walk" /\ Tried = {} /\ stack # <<>> /\ stack[1].kind = "visit"
         /\ stack \in Seq(Frames) /\ Tail(stack) \in Seq(Frames)
         /\ Linked(Opened, stack, {}, cur) /\ Linked(Opened, Tail(stack), {n}, cur)
         /\ Linked(Opened \cup {n}, Tail(stack), {}, cur)
  <1>1. mode = "walk" /\ Tried = {} /\ stack # <<>> /\ stack \in Seq(Frames)
    BY DEF Visiting, Tried, Inv, TypeWalk
  <1>2. Head(stack) = stack[1] /\ Tail(stack) \in Seq(Frames)
    BY <1>1, HeadTail
  <1>3. stack[1].kind = "visit" /\ Head(stack).node = n
    BY <1>2 DEF Visiting, Top
  <1>4. Linked(Opened, stack, {}, cur)
    BY <1>1 DEF Links2, Linking
  <1>5. Linked(Opened, Tail(stack), {n}, cur)
    BY <1>1, <1>3, <1>4, LinkedPop
  <1>6. Linked(Opened \cup {n}, Tail(stack), {}, cur)
    BY <1>5, LinkedGrows
  <1> QED BY <1>1, <1>2, <1>3, <1>4, <1>5, <1>6

LEMMA TriedLinks ==
  ASSUME Inv, Links2, mode = "try"
  PROVE  /\ Linked(Opened, Base, {trying.node}, cur) /\ Linked(Opened \cup {trying.node}, Base, {}, cur)
         /\ Linked(Opened, stack, Tried, cur)
         /\ trying.early => /\ stack # <<>> /\ Top.kind = "visit" /\ Top.node = trying.node
                            /\ Tried = {}
         /\ ~trying.early => Base = stack
  <1>1. Linked(Opened, stack, Tried, cur) /\ stack \in Seq(Frames)
    BY DEF Links2, Linking, Inv, TypeWalk
  <1>2. trying.early => stack # <<>> /\ Top.kind = "visit" /\ Top.node = trying.node
    BY DEF Links2, Linking
  <1>3. Linked(Opened, Base, {trying.node}, cur)
    <2>1. CASE trying.early
      BY <1>1, <1>2, <2>1, LinkedPop DEF Base, Top
    <2>2. CASE ~trying.early
      BY <1>1, <2>2 DEF Base, Tried
    <2> QED BY <2>1, <2>2
  <1>4. Linked(Opened \cup {trying.node}, Base, {}, cur)
    BY <1>3, LinkedGrows
  <1> QED BY <1>1, <1>2, <1>3, <1>4 DEF Base, Tried

-----------------------------------------------------------------------------
(* The steps keep links and paths. *)

LEMMA BeginCallLinks ==
  ASSUME Inv, Links2, NEW s \in Settings, NEW root \in Roots, NEW l \in Limits, NEW d \in BOOLEAN,
         BeginCall(s, root, l, d)
  PROVE  Links2'
  <1>1. root \in Nodes
    BY NodesAssumption
  <1>2. Linking' /\ OpenPartials'
    BY DEF BeginCall, Linking, OpenPartials, Links2
  <1>3. Leading'
    BY <1>1, PathStarts DEF BeginCall, Leading, Links2, Walked
  <1> QED BY <1>2, <1>3 DEF Links2

LEMMA ReturnLinks ==
  ASSUME Inv, NEW r, NEW f, NEW end, Return(r, f, end)
  PROVE  Links2'
  <1>1. Linking' /\ Leading'
    BY DEF Return, Linking, Leading
  <1>2. OpenPartials'
    BY EmptyIs DEF Return, OpenPartials
  <1> QED BY <1>1, <1>2 DEF Links2

LEMMA RootKnownLinks ==
  ASSUME Inv, Links2, RootKnown
  PROVE  Links2'
  <1> USE DEF RootKnown, contextVars, walkVars
  <1>1. cur \in Nodes /\ phase \in Phases /\ curFin \in Fins /\ Known(cur)
    BY DEF Inv, TypeCall, Known
  <1>2. Lookup(cur) \in Results
    BY <1>1, LookupIs, FinsIs DEF Inv
  <1>3. Lookup(cur).to \in Nodes /\ Lookup(cur).fin \in Fins
    BY <1>2, ResultIs
  <1>4. Linking' /\ OpenPartials'
    BY DEF Linking, OpenPartials, Links2
  <1>5. Leading'
    <2> SUFFICES ASSUME curFin'.done PROVE Path(memo.result, phase, roundStart, cur')
      BY DEF Leading, Walked
    <2>1. curFin.done /\ Lookup(cur).fin.done
      BY <1>1, <1>3, BothIs
    <2>2. cur' = memo.result[phase][cur].to
      BY <1>1, <2>1, LookupDone DEF Links2
    <2>3. Path(memo.result, phase - 1, roundStart, cur) /\ phase - 1 \in Nat /\ phase - 1 + 1 = phase
      BY <1>1, <2>1, PhasesAssumption DEF Links2, Leading, Walked, Phases
    <2> DEFINE q == phase - 1
               c == cur'
    <2>4. c \in Nodes /\ cur \in DOMAIN memo.result[q + 1] /\ memo.result[q + 1][cur].to = c
      BY <1>3, <2>2, <2>3
    <2> HIDE DEF q, c
    <2>5. Path(memo.result, q + 1, roundStart, c)
      BY <2>3, <2>4, PathGoesOn DEF q
    <2> QED BY <2>3, <2>5 DEF q, c
  <1> QED BY <1>4, <1>5 DEF Links2

LEMMA EnterWalkLinks ==
  ASSUME Inv, Links2, EnterWalk
  PROVE  Links2'
  <1> USE DEF EnterWalk, contextVars, strategyVars
  <1>1. cur \in Nodes /\ phase \in Phases /\ partial \in Partials
    BY DEF Inv, TypeCall, TypeContext
  <1>2. Linking'
    BY <1>1, LinkedStart DEF Linking, Tried
  <1>3. OpenPartials'
    <2>1. \A p \in Phases : partial'[p] = partial[p] \/ partial'[p] = Empty
      BY <1>1 DEF Partials
    <2> QED BY <2>1, EmptyIs DEF OpenPartials, Links2
  <1>4. Leading'
    BY LeadingKept DEF Links2
  <1> QED BY <1>2, <1>3, <1>4 DEF Links2

LEMMA LeaveWalkLinks ==
  ASSUME Inv, Links2, LeaveWalk
  PROVE  Links2'
  <1> USE DEF LeaveWalk, contextVars, walkVars
  <1> DEFINE x == LookupOr(cur, PROVISIONAL)
  <1>1. cur \in Nodes /\ phase \in Phases /\ curFin \in Fins
    BY DEF Inv, TypeCall
  <1>2. x \in Results
    BY <1>1, LookupIs, FinsIs DEF Inv
  <1>3. x.to \in Nodes /\ x.fin \in Fins
    BY <1>2, ResultIs
  <1>4. Linking' /\ OpenPartials'
    BY DEF Linking, OpenPartials, Links2
  <1>5. Leading'
    <2> SUFFICES ASSUME curFin'.done PROVE Path(memo.result, phase, roundStart, cur')
      BY DEF Leading, Walked
    <2>1. curFin.done /\ x.fin.done
      <3>1. curFin' = Both(curFin, x.fin)
        OBVIOUS
      <3> HIDE DEF x
      <3>2. Both(curFin, x.fin).done = (curFin.done /\ x.fin.done)
        BY <1>1, <1>3, BothIs
      <3>3. curFin'.done
        OBVIOUS
      <3> HIDE DEF LeaveWalk
      <3> QED BY <3>1, <3>2, <3>3
    <2>2. cur' = memo.result[phase][cur].to /\ cur \in DOMAIN memo.result[phase]
      BY <1>1, <2>1, LookupOrDone DEF Links2
    <2>3. Path(memo.result, phase - 1, roundStart, cur) /\ phase - 1 \in Nat /\ phase - 1 + 1 = phase
      BY <1>1, <2>1, PhasesAssumption DEF Links2, Leading, Walked, Phases
    <2> DEFINE q == phase - 1
               c == cur'
    <2>4. c \in Nodes /\ cur \in DOMAIN memo.result[q + 1] /\ memo.result[q + 1][cur].to = c
      BY <1>3, <2>2, <2>3
    <2> HIDE DEF q, c
    <2>5. Path(memo.result, q + 1, roundStart, c)
      BY <2>3, <2>4, PathGoesOn DEF q
    <2> QED BY <2>3, <2>5 DEF q, c
  <1> QED BY <1>4, <1>5 DEF Links2

LEMMA NextPhaseLinks ==
  ASSUME Inv, Links2, NextPhase
  PROVE  Links2'
  <1> USE DEF NextPhase, contextVars, walkVars
  <1>1. cur \in Nodes /\ phase \in Phases
    BY DEF Inv, TypeCall
  <1>2. Linking' /\ OpenPartials'
    BY DEF Linking, OpenPartials, Links2
  <1>3. Leading'
    <2>1. CASE phase < NumPhases
      <3>1. Walked = phase /\ Walked' = phase + 1 - 1 /\ phase + 1 - 1 = phase
        BY <1>1, <2>1 DEF Walked, Phases
      <3> QED BY <2>1, <3>1 DEF Leading, Links2
    <2>2. CASE ~(phase < NumPhases)
      BY <1>1, <2>2, PathStarts DEF Leading, Walked
    <2> QED BY <2>1, <2>2
  <1> QED BY <1>2, <1>3 DEF Links2

LEMMA FinishLinks ==
  ASSUME Inv, Links2, Finish
  PROVE  Links2'
  <1> DEFINE x == LookupOr(Top.to, PROVISIONAL)
             f == Both(Top.own, x.fin)
             n == Top.node
  <1>1. stack \in Seq(Frames) /\ stack # <<>> /\ Top \in Frames /\ mode = "walk" /\ Tried = {}
    BY HeadTail DEF Inv, TypeWalk, Top, Finish, Tried
  <1>2. n \in Nodes /\ Top.to \in Nodes /\ Top.own \in Fins
    BY <1>1, FrameIs
  <1>3. x \in Results
    BY <1>2, LookupIs, FinsIs DEF Inv
  <1>4. x.to \in Nodes /\ f \in Fins
    <2>1. x.to \in Nodes /\ x.fin \in Fins
      BY <1>3, ResultIs
    <2> HIDE DEF x
    <2> QED BY <1>2, <2>1, BothIs
  <1>5. Remember(n, x.to, f) /\ stack' = Tail(stack) /\ mode' = "walk" /\ UNCHANGED strategyVars
    BY <1>1 DEF Finish
  <1>6. Linked(Opened \cup {n}, Tail(stack), {}, cur)
    <2>1. Linked(Opened, Tail(stack), {n}, cur)
      BY <1>1, LinkedPop DEF Links2, Linking, Top
    <2> QED BY <2>1, LinkedGrows
  <1> HIDE DEF n, f, x
  <1> QED BY <1>1, <1>2, <1>4, <1>5, <1>6, RememberStep

\* The operands put on top to be visited.
LEMMA DescendIs ==
  ASSUME Inv, NEW n \in Nodes, VisitDescend(n)
  PROVE  \E u \in Seq(Frames) : (\A i \in 1 .. Len(u) : u[i].kind = "visit") /\ stack' = u \o stack
  <1> DEFINE unknown == {i \in DOMAIN Kids(n) : ~Known(Kids(n)[i])}
  <1>1. PICK order \in Descending(unknown) : stack' = [i \in DOMAIN order |-> Visit(Kids(n)[order[i]])] \o stack
    BY DEF VisitDescend
  <1> DEFINE above == [i \in DOMAIN order |-> Visit(Kids(n)[order[i]])]
  <1>2. Kids(n) \in Seq(Nodes) /\ Len(Kids(n)) \in Nat /\ unknown \in SUBSET (1 .. Len(Kids(n)))
    BY NodesAssumption
  <1>3. /\ order \in Seq(unknown) /\ DOMAIN order = 1 .. Cardinality(unknown) /\ Cardinality(unknown) \in Nat
        /\ \A i \in DOMAIN order : order[i] \in DOMAIN Kids(n)
    <2>1. order \in Seq(unknown) /\ DOMAIN order = 1 .. Cardinality(unknown) /\ Cardinality(unknown) \in Nat
      <3> HIDE DEF unknown
      <3> QED BY <1>1, <1>2, DescendingIs
    <2>2. \A i \in DOMAIN order : order[i] \in unknown
      <3> HIDE DEF unknown
      <3> QED BY <2>1
    <2> QED BY <2>1, <2>2
  <1>4. \A i \in DOMAIN order : Visit(Kids(n)[order[i]]) \in Frames /\ Visit(Kids(n)[order[i]]).kind = "visit"
    BY <1>2, <1>3, FrameIs
  <1>5. above \in Seq(Frames) /\ \A i \in 1 .. Len(above) : above[i].kind = "visit"
    <2>1. above \in [1 .. Cardinality(unknown) -> Frames]
      <3> HIDE DEF unknown
      <3> QED BY <1>3, <1>4
    <2>2. \A i \in DOMAIN above : above[i].kind = "visit"
      BY <1>4
    <2> HIDE DEF above, unknown
    <2>3. above \in Seq(Frames) /\ DOMAIN above = 1 .. Len(above)
      BY <1>3, <2>1, SeqIs
    <2> QED BY <2>2, <2>3
  <1>6. stack' = above \o stack
    BY <1>1
  <1> HIDE DEF above
  <1> QED BY <1>5, <1>6

\* Visits.
LEMMA VisitsLink ==
  ASSUME Inv, Links2, NEW n \in Nodes,
         VisitKnown(n) \/ VisitCharged(n) \/ VisitOpaque(n) \/ VisitFirst(n) \/ VisitDescend(n) \/ VisitTry(n)
  PROVE  Links2'
  <1>1. Visiting(n)
    BY DEF VisitKnown, VisitCharged, VisitOpaque, VisitFirst, VisitDescend, VisitTry, Ready
  <1>2. /\ mode = "walk" /\ Tried = {} /\ stack # <<>> /\ stack[1].kind = "visit"
        /\ stack \in Seq(Frames) /\ Tail(stack) \in Seq(Frames)
        /\ Linked(Opened, stack, {}, cur) /\ Linked(Opened, Tail(stack), {n}, cur)
        /\ Linked(Opened \cup {n}, Tail(stack), {}, cur)
    BY <1>1, VisitLinks
  <1>3. ASSUME VisitKnown(n) PROVE Links2'
    <2>1. /\ UNCHANGED <<strategyVars, memo, partial>> /\ stack' = Tail(stack) /\ mode' = "walk" /\ Tried' = {}
      BY <1>2, <1>3 DEF VisitKnown, contextVars, Tried
    <2>2. Linked(Opened, Tail(stack), {}, cur)
      <3>1. n \in Opened
        BY <1>3 DEF VisitKnown, Known, Opened
      <3> QED BY <1>2, <3>1, LinkedGrows
    <2> QED BY <1>2, <2>1, <2>2, QuietStep
  <1>4. ASSUME VisitCharged(n) PROVE Links2'
    <2>1. /\ UNCHANGED <<strategyVars, memo, partial>> /\ stack' = stack /\ mode' = "walk" /\ Tried' = {}
      BY <1>2, <1>4 DEF VisitCharged, contextVars, Tried
    <2> QED BY <1>2, <2>1, QuietStep
  <1>5. ASSUME VisitOpaque(n) PROVE Links2'
    <2>1. /\ UNCHANGED strategyVars /\ stack' = Tail(stack) /\ mode' = "walk" /\ Remember(n, n, FINAL)
      BY <1>2, <1>5 DEF VisitOpaque
    <2>2. FINAL \in Fins
      BY FinsIs
    <2> QED BY <1>2, <2>1, <2>2, RememberStep
  <1>6. ASSUME VisitFirst(n) PROVE Links2'
    <2>1. /\ UNCHANGED <<strategyVars, memo, partial>> /\ stack' = stack
      BY <1>6 DEF VisitFirst, contextVars
    <2>2. /\ mode' \in {"walk", "try"} /\ Tried' = {}
          /\ mode' = "try" => trying'.node = n
      BY <1>2, <1>6 DEF VisitFirst, NotTrying, Tried
    <2>3. Top' = Top /\ Top.kind = "visit" /\ Top.node = n
      BY <1>1, <2>1 DEF Top, Visiting
    <2> QED BY <1>2, <2>1, <2>2, <2>3, QuietStep
  <1>7. ASSUME VisitDescend(n) PROVE Links2'
    <2>1. /\ UNCHANGED <<strategyVars, memo, partial>> /\ mode' = "walk" /\ Tried' = {}
      BY <1>2, <1>7 DEF VisitDescend, contextVars, Tried
    <2>2. \E u \in Seq(Frames) : (\A i \in 1 .. Len(u) : u[i].kind = "visit") /\ stack' = u \o stack
      BY <1>7, DescendIs
    <2>3. Linked(Opened, stack', {}, cur)
      BY <1>2, <2>2, LinkedAbove
    <2> QED BY <1>2, <2>1, <2>3, QuietStep
  <1>8. ASSUME VisitTry(n) PROVE Links2'
    <2>1. /\ UNCHANGED <<strategyVars, memo, partial>> /\ stack' = Tail(stack) /\ mode' = "try"
      BY <1>8 DEF VisitTry, contextVars
    <2>2. trying'.node = n /\ trying'.early = FALSE
      BY <1>8 DEF VisitTry, NotTrying
    <2>3. Tried' = {n}
      BY <2>1, <2>2 DEF Tried
    <2> QED BY <1>2, <2>1, <2>2, <2>3, QuietStep
  <1> QED BY <1>3, <1>4, <1>5, <1>6, <1>7, <1>8

LEMMA VisitRebuildLinks ==
  ASSUME Inv, Links2, NEW n \in Nodes, VisitRebuild(n)
  PROVE  Links2'
  <1> DEFINE m == Rebuilt(n)
             own == KidsFin(KidResults(n))
  <1>1. Visiting(n) /\ KidsKnown(n)
    BY DEF VisitRebuild, Ready
  <1>2. /\ mode = "walk" /\ Tail(stack) \in Seq(Frames)
        /\ Linked(Opened, Tail(stack), {n}, cur) /\ Linked(Opened \cup {n}, Tail(stack), {}, cur)
    BY <1>1, VisitLinks
  <1>3. own \in Fins /\ m \in Nodes
    BY <1>1, RebuiltIs DEF Inv
  <1>4. /\ UNCHANGED strategyVars /\ mode' = "walk" /\ Tried' = {}
        /\ \/ Remember(n, n, Both(own, PROVISIONAL)) /\ stack' = Tail(stack)
           \/ stack' = Await(n, m, own) \o Tail(stack) /\ UNCHANGED <<memo, partial>>
    BY <1>2 DEF VisitRebuild, Tried
  <1> HIDE DEF m, own
  <1>5. CASE Remember(n, n, Both(own, PROVISIONAL)) /\ stack' = Tail(stack)
    <2>1. Both(own, PROVISIONAL) \in Fins
      BY <1>3, FinsIs, BothIs
    <2> QED BY <1>2, <1>4, <1>5, <2>1, RememberStep
  <1>6. CASE stack' = Await(n, m, own) \o Tail(stack) /\ UNCHANGED <<memo, partial>>
    <2>1. Linked(Opened, stack', {}, cur)
      BY <1>2, <1>3, <1>6, LinkedAwait
    <2> QED BY <1>2, <1>4, <1>6, <2>1, QuietStep
  <1> QED BY <1>4, <1>5, <1>6

LEMMA VisitUnaskedLinks ==
  ASSUME Inv, Links2, NEW n \in Nodes, VisitUnasked(n)
  PROVE  Links2'
  <1>1. Visiting(n) /\ KidsKnown(n) /\ phase \in MbaPhases => n \in DOMAIN first
    BY DEF VisitUnasked, Ready
  <1>2. /\ mode = "walk" /\ Linked(Opened \cup {n}, Tail(stack), {}, cur)
    BY <1>1, VisitLinks DEF VisitUnasked, Ready
  <1>3. PICK f \in Fins : Remember(n, n, f)
    <2> DEFINE left == IF first[n].asked /\ ~MbaQuarantined THEN WithoutRel(first[n].fin) ELSE PROVISIONAL
               own == KidsFin(KidResults(n))
    <2>1. own \in Fins
      BY RebuiltIs DEF Inv, VisitUnasked
    <2>2. left \in Fins
      <3>1. first[n] \in Firsts
        BY MapIs DEF VisitUnasked, Ready, Inv, TypeWalk
      <3>2. first[n].fin \in Fins
        BY <3>1 DEF Firsts
      <3> QED BY <3>2, FinsIs
    <2>3. Remember(n, n, Both(own, left))
      BY DEF VisitUnasked
    <2> HIDE DEF own, left
    <2> QED BY <2>1, <2>2, <2>3, BothIs
  <1>4. UNCHANGED strategyVars /\ mode' = "walk" /\ stack' = Tail(stack)
    BY <1>2 DEF VisitUnasked
  <1> QED BY <1>2, <1>3, <1>4, RememberStep

\* Candidates passed over, charged or built.
LEMMA CandidatesLink ==
  ASSUME Inv, Links2, SkipQuarantined \/ ChargeCandidate \/ Decline \/ Build \/ NoChange \/ Reject \/ Veto
  PROVE  Links2'
  <1> USE DEF SkipQuarantined, ChargeCandidate, Decline, Build, NoChange, Reject, Veto, Trying, contextVars
  <1>1. /\ mode = "try" /\ mode' = "try" /\ UNCHANGED <<strategyVars, memo, partial, stack>>
        /\ trying.left # <<>> /\ call' = call /\ phase' = phase
    BY DEF strategyVars
  <1>2. (\E f \in Fins : PassOver(f)) \/ Advance("matched") \/ Advance("built")
    BY FinsIs
  <1>3. trying'.node = trying.node /\ trying'.early = trying.early
    BY <1>1, <1>2, PassOverIs, AdvanceIs
  <1>4. Tried' = Tried /\ Top' = Top
    BY <1>1, <1>3 DEF Tried, Top
  <1> QED BY <1>1, <1>3, <1>4, TriedLinks, QuietStep

LEMMA AcceptLinks ==
  ASSUME Inv, Links2, Accept
  PROVE  Links2'
  <1> DEFINE n == trying.node
             t == Offer.to
             g == Both(trying.fin, Relying(Offer.rel))
             f == Both(trying.own, g)
  <1>1. mode = "try" /\ trying.left # <<>>
    BY DEF Accept, Admitted, Trying
  <1>2. n \in Nodes /\ t \in Nodes /\ Base \in Seq(Frames) /\ trying.own \in Fins /\ trying.fin \in Fins /\ Offer.rel \in SUBSET Constraints
    BY <1>1, TriedIs
  <1>3. f \in Fins /\ Both(f, PROVISIONAL) \in Fins
    <2>1. Relying(Offer.rel) \in Fins /\ PROVISIONAL \in Fins
      BY <1>2, FinsIs
    <2>2. g \in Fins
      BY <1>2, <2>1, BothIs
    <2> HIDE DEF g
    <2>3. f \in Fins
      BY <1>2, <2>2, BothIs
    <2> HIDE DEF f
    <2> QED BY <2>1, <2>3, BothIs
  <1>4. /\ UNCHANGED strategyVars /\ mode' = "walk" /\ Tried' = {}
        /\ \/ Remember(n, t, Both(f, PROVISIONAL)) /\ stack' = Base
           \/ stack' = Await(n, t, f) \o Base /\ UNCHANGED <<memo, partial>>
    BY DEF Accept, BackToWalk, Tried
  <1>5. Linked(Opened, Base, {n}, cur) /\ Linked(Opened \cup {n}, Base, {}, cur)
    BY <1>1, TriedLinks
  <1> HIDE DEF n, t, g, f
  <1>6. CASE Remember(n, t, Both(f, PROVISIONAL)) /\ stack' = Base
    BY <1>1, <1>2, <1>3, <1>4, <1>5, <1>6, RememberStep
  <1>7. CASE stack' = Await(n, t, f) \o Base /\ UNCHANGED <<memo, partial>>
    <2>1. Linked(Opened, stack', {}, cur)
      BY <1>2, <1>3, <1>5, <1>7, LinkedAwait
    <2> QED BY <1>1, <1>4, <1>7, <2>1, QuietStep
  <1> QED BY <1>4, <1>6, <1>7

LEMMA AllTriedLinks ==
  ASSUME Inv, Links2, AllTried
  PROVE  Links2'
  <1> DEFINE n == trying.node
             f == Both(trying.own, WithoutRel(trying.fin))
  <1>1. mode = "try" /\ ~trying.early
    BY DEF AllTried
  <1>2. n \in Nodes /\ trying.own \in Fins /\ trying.fin \in Fins
    BY <1>1, TriedIs
  <1>3. f \in Fins
    <2>1. WithoutRel(trying.fin) \in Fins
      BY <1>2, FinsIs
    <2> QED BY <1>2, <2>1, BothIs
  <1>4. /\ UNCHANGED strategyVars /\ mode' = "walk" /\ stack' = stack /\ Remember(n, n, f)
    BY DEF AllTried, BackToWalk
  <1>5. Linked(Opened \cup {n}, stack, {}, cur)
    BY <1>1, TriedLinks
  <1> HIDE DEF n, f
  <1> QED BY <1>1, <1>2, <1>3, <1>4, <1>5, RememberStep

LEMMA AskedEarlyLinks ==
  ASSUME Inv, Links2, AskedEarly
  PROVE  Links2'
  <1>1. mode = "try" /\ trying.early /\ mode' = "walk" /\ Tried' = {} /\ stack' = stack
        /\ UNCHANGED <<strategyVars, memo, partial>>
    BY DEF AskedEarly, contextVars, Tried
  <1>2. Linked(Opened, stack, {}, cur)
    BY <1>1, TriedLinks
  <1> QED BY <1>1, <1>2, QuietStep

\* Steps out of the walk.
LEMMA OthersLink ==
  ASSUME Inv, Links2, RunOut \/ Salvage \/ Complete \/ UNCHANGED vars
  PROVE  Links2'
  <1>1. ASSUME mode # "idle", mode' = "salvage", UNCHANGED <<memo, partial, strategyVars>>, mode \in {"walk", "try", "salvage"}
        PROVE  Links2'
    <2>1. Linking' /\ OpenPartials'
      BY <1>1 DEF Linking, OpenPartials, Links2
    <2>2. Leading'
      BY <1>1, LeadingKept DEF Links2
    <2> QED BY <2>1, <2>2 DEF Links2
  <1>2. ASSUME OutOfVisits \/ OutOfCandidates \/ OutOfRewrites \/ OutOfNodes
        PROVE  Links2'
    <2>1. mode \in {"walk", "try"}
      BY <1>2 DEF OutOfVisits, OutOfCandidates, OutOfRewrites, OutOfNodes, VisitDue, Trying, Admitted, Ready, Visiting
    <2>2. Salvaged
      BY <1>2 DEF OutOfVisits, OutOfCandidates, OutOfRewrites, OutOfNodes
    <2> QED BY <1>1, <2>1, <2>2 DEF Salvaged
  <1>3. ASSUME NEW n \in Nodes,
               SalvageMet(n) \/ SalvageKnown(n) \/ SalvageExpand(n) \/ SalvageFinish(n) \/ SalvageRebuild(n)
        PROVE  Links2'
    <2>1. mode = "salvage" /\ UNCHANGED <<memo, partial, strategyVars, mode>>
      BY <1>3 DEF SalvageMet, SalvageKnown, SalvageExpand, SalvageFinish, SalvageRebuild, Unsettled, Salvaging,
                  Settle, salvageKeeps
    <2> QED BY <1>1, <2>1
  <1>4. ASSUME OutOfTime \/ SalvageEnd \/ Complete
        PROVE  Links2'
    BY <1>4, ReturnLinks DEF OutOfTime, SalvageEnd, Complete
  <1>5. ASSUME UNCHANGED vars
        PROVE  Links2'
    BY <1>5 DEF vars, contextVars, strategyVars, walkVars, Links2, Linking, OpenPartials, Leading, Opened, Tried, Walked, Top
  <1> QED BY <1>2, <1>3, <1>4, <1>5 DEF RunOut, Salvage

LEMMA LinksHold == Spec => []Links2
  <1>1. Init => Links2
    <2> SUFFICES ASSUME Init PROVE Links2
      OBVIOUS
    <2>1. Linking /\ Leading
      BY DEF Init, Linking, Leading
    <2>2. OpenPartials
      BY EmptyIs DEF Init, OpenPartials
    <2> QED BY <2>1, <2>2 DEF Links2
  <1>2. Inv /\ Links2 /\ [Next]_vars => Links2'
    <2> SUFFICES ASSUME Inv, Links2, [Next]_vars PROVE Links2'
      OBVIOUS
    <2>1. ASSUME Begin PROVE Links2'
      BY <2>1, BeginCallLinks DEF Begin
    <2>2. ASSUME Strategy PROVE Links2'
      BY <2>2, RootKnownLinks, EnterWalkLinks, LeaveWalkLinks, NextPhaseLinks, OthersLink DEF Strategy
    <2>3. ASSUME Walk PROVE Links2'
      BY <2>3, FinishLinks, VisitsLink, VisitRebuildLinks, VisitUnaskedLinks DEF Walk
    <2>4. ASSUME Try PROVE Links2'
      BY <2>4, CandidatesLink, AcceptLinks, AllTriedLinks, AskedEarlyLinks DEF Try
    <2> QED BY <2>1, <2>2, <2>3, <2>4, OthersLink DEF Next, Work
  <1> QED BY <1>1, <1>2, InvHolds, PTL DEF Spec

-----------------------------------------------------------------------------
(* What a final result stands on, in the phases of rules and of passes other *)
(* than the MBA service's.                                                   *)

\* The candidates a call with every budget could take at n under a setting,
\* and the one it would.
Fits(c, n) == c.to # n /\ c.check = "ok" /\ ~c.vetoed
Suits(s, p, n) == {i \in DOMAIN Attempts(s, p, n) : Fits(Attempts(s, p, n)[i], n)}
FirstSuit(s, p, n) == Attempts(s, p, n)[CHOOSE i \in Suits(s, p, n) : \A j \in Suits(s, p, n) : i <= j]

\* With the final results of a phase: n's operands are final; n over them; the
\* constraints they bring; what n becomes first, and under which constraints.
Settled(final, n) == ~Opaque(n) /\ \A i \in DOMAIN Kids(n) : Kids(n)[i] \in DOMAIN final
RelsOf(final, n) == UNION {final[Kids(n)[i]].rel : i \in DOMAIN Kids(n)}
KidsOf(final, n) == [i \in DOMAIN Kids(n) |-> final[Kids(n)[i]].to]
OverOf(final, n) == IF KidsOf(final, n) = Kids(n) THEN n ELSE Rebuild(n, KidsOf(final, n))
Becomes(s, p, final, n, t, rel) ==
  /\ Settled(final, n)
  /\ \/ OverOf(final, n) # n /\ t = OverOf(final, n) /\ rel = RelsOf(final, n)
     \/ /\ OverOf(final, n) = n /\ Suits(s, p, n) # {}
        /\ t = FirstSuit(s, p, n).to /\ rel = RelsOf(final, n) \cup FirstSuit(s, p, n).rel

\* What makes v the final result of n: n is an atom, it becomes a node that has
\* a final result, or nothing suits it.
Grounds(s, p, final, n, v) ==
  \/ Opaque(n) /\ v = [to |-> n, rel |-> {}]
  \/ \E t \in DOMAIN final, rel \in SUBSET Constraints :
       Becomes(s, p, final, n, t, rel) /\ v = [to |-> final[t].to, rel |-> rel \cup final[t].rel]
  \/ /\ Settled(final, n) /\ OverOf(final, n) = n /\ Suits(s, p, n) = {}
     /\ v = [to |-> n, rel |-> RelsOf(final, n)]

\* Frames that wait and may be final wait for what their node becomes.
Waits(s, p, final, frames) ==
  \A i \in DOMAIN frames :
    frames[i].kind = "finish" /\ frames[i].own.done =>
      Becomes(s, p, final, frames[i].node, frames[i].to, frames[i].own.rel)

\* All but the first k of a sequence are left.
LeftAfter(offered, left, k) ==
  k \in Nat /\ Len(offered) = k + Len(left) /\ \A i \in DOMAIN left : left[i] = offered[k + i]

\* A trial has the last candidates left; while it may be final none before them
\* suits; and if its operands were final it relies on what they rely on.
OverFinal(final, n, own) ==
  own.done => Settled(final, n) /\ OverOf(final, n) = n /\ own.rel = RelsOf(final, n)
OnTrial(s, p, final, t) ==
  /\ ~t.early /\ ~Opaque(t.node) /\ t.fin.rel = {}
  /\ OverFinal(final, t.node, t.own)
  /\ \E k \in Nat : /\ LeftAfter(Attempts(s, p, t.node), t.left, k)
                    /\ t.fin.done => \A i \in 1 .. k : i \notin Suits(s, p, t.node)

Grounded ==
  \A p \in Phases \ MbaPhases : \A n \in DOMAIN memo.result[p] :
    Grounds(memo.key, p, memo.result[p], n, memo.result[p][n])
Closing ==
  /\ Grounded
  /\ phase \notin MbaPhases =>
       /\ mode \in {"walk", "try"} => Waits(memo.key, phase, memo.result[phase], stack)
       /\ mode = "try" => OnTrial(memo.key, phase, memo.result[phase], trying)

-----------------------------------------------------------------------------
(* Grounds. *)

\* The candidate chosen is the first that suits.
LEMMA FirstSuitIs ==
  ASSUME NEW s \in Settings, NEW p \in Phases, NEW n \in Nodes, Suits(s, p, n) # {}
  PROVE  \E i \in Suits(s, p, n) : (\A j \in Suits(s, p, n) : i <= j) /\ FirstSuit(s, p, n) = Attempts(s, p, n)[i]
  <1>1. Suits(s, p, n) \in SUBSET Nat
    <2>1. Attempts(s, p, n) \in Seq(Candidates)
      BY AttemptsAssumption
    <2> QED BY <2>1 DEF Suits
  <1>2. \E i \in Suits(s, p, n) : \A j \in Suits(s, p, n) : i <= j
    BY <1>1, LeastNat
  <1> QED BY <1>2 DEF FirstSuit

LEMMA FirstSuitAt ==
  ASSUME NEW s \in Settings, NEW p \in Phases, NEW n \in Nodes, NEW i \in Suits(s, p, n),
         \A j \in Suits(s, p, n) : i <= j
  PROVE  FirstSuit(s, p, n) = Attempts(s, p, n)[i]
  <1>1. PICK k \in Suits(s, p, n) : (\A j \in Suits(s, p, n) : k <= j) /\ FirstSuit(s, p, n) = Attempts(s, p, n)[k]
    BY FirstSuitIs
  <1>2. i <= k /\ k <= i /\ i \in Nat /\ k \in Nat
    <2>1. Attempts(s, p, n) \in Seq(Candidates)
      BY AttemptsAssumption
    <2> QED BY <1>1, <2>1 DEF Suits
  <1>3. i = k
    BY <1>2
  <1> QED BY <1>1, <1>3

\* More final results, those there unchanged.
Extends(final, more) == DOMAIN final \subseteq DOMAIN more /\ \A n \in DOMAIN final : more[n] = final[n]

LEMMA SettledKept ==
  ASSUME NEW final, NEW more, Extends(final, more), NEW n, Settled(final, n)
  PROVE  Settled(more, n) /\ RelsOf(more, n) = RelsOf(final, n) /\ OverOf(more, n) = OverOf(final, n)
  <1>1. \A i \in DOMAIN Kids(n) : Kids(n)[i] \in DOMAIN more /\ more[Kids(n)[i]] = final[Kids(n)[i]]
    BY DEF Settled, Extends
  <1>2. Settled(more, n)
    BY <1>1 DEF Settled
  <1>3. RelsOf(more, n) = RelsOf(final, n)
    BY <1>1 DEF RelsOf
  <1>4. KidsOf(more, n) = KidsOf(final, n)
    BY <1>1 DEF KidsOf
  <1> QED BY <1>2, <1>3, <1>4 DEF OverOf

LEMMA BecomesKept ==
  ASSUME NEW s, NEW p, NEW final, NEW more, Extends(final, more), NEW n, NEW t, NEW rel,
         Becomes(s, p, final, n, t, rel)
  PROVE  Becomes(s, p, more, n, t, rel)
  <1>1. Settled(final, n)
    BY DEF Becomes
  <1>2. Settled(more, n) /\ RelsOf(more, n) = RelsOf(final, n) /\ OverOf(more, n) = OverOf(final, n)
    BY <1>1, SettledKept
  <1> QED BY <1>2 DEF Becomes

LEMMA GroundsKept ==
  ASSUME NEW s, NEW p, NEW final, NEW more, Extends(final, more), NEW n, NEW v, Grounds(s, p, final, n, v)
  PROVE  Grounds(s, p, more, n, v)
  <1>1. CASE Opaque(n) /\ v = [to |-> n, rel |-> {}]
    BY <1>1 DEF Grounds
  <1>2. ASSUME NEW t \in DOMAIN final, NEW rel \in SUBSET Constraints,
               Becomes(s, p, final, n, t, rel), v = [to |-> final[t].to, rel |-> rel \cup final[t].rel]
        PROVE  Grounds(s, p, more, n, v)
    <2>1. Becomes(s, p, more, n, t, rel) /\ t \in DOMAIN more /\ more[t] = final[t]
      BY <1>2, BecomesKept DEF Extends
    <2> QED BY <1>2, <2>1 DEF Grounds
  <1>3. CASE /\ Settled(final, n) /\ OverOf(final, n) = n /\ Suits(s, p, n) = {}
             /\ v = [to |-> n, rel |-> RelsOf(final, n)]
    BY <1>3, SettledKept DEF Grounds
  <1> QED BY <1>1, <1>2, <1>3 DEF Grounds

\* A node has one final result.
LEMMA GroundsUnique ==
  ASSUME NEW s, NEW p, NEW final, NEW n, NEW v, NEW w,
         Grounds(s, p, final, n, v), Grounds(s, p, final, n, w)
  PROVE  v = w
  <1>1. CASE Opaque(n)
    BY <1>1 DEF Grounds, Becomes, Settled
  <1>2. CASE ~Opaque(n) /\ OverOf(final, n) = n /\ Suits(s, p, n) = {}
    BY <1>2 DEF Grounds, Becomes
  <1>3. CASE ~Opaque(n) /\ ~(OverOf(final, n) = n /\ Suits(s, p, n) = {})
    <2>1. PICK t \in DOMAIN final, rel \in SUBSET Constraints :
            Becomes(s, p, final, n, t, rel) /\ v = [to |-> final[t].to, rel |-> rel \cup final[t].rel]
      BY <1>3 DEF Grounds
    <2>2. PICK u \in DOMAIN final, other \in SUBSET Constraints :
            Becomes(s, p, final, n, u, other) /\ w = [to |-> final[u].to, rel |-> other \cup final[u].rel]
      BY <1>3 DEF Grounds
    <2>3. u = t /\ other = rel
      BY <2>1, <2>2 DEF Becomes
    <2> QED BY <2>1, <2>2, <2>3
  <1> QED BY <1>1, <1>2, <1>3

\* A grounded result leaves the others as they are, and grounded.
LEMMA PutGrounded ==
  ASSUME NEW s, NEW p, NEW final, NEW n, NEW v, Grounds(s, p, final, n, v),
         \A m \in DOMAIN final : Grounds(s, p, final, m, final[m])
  PROVE  /\ Extends(final, Put(final, n, v))
         /\ \A m \in DOMAIN Put(final, n, v) : Grounds(s, p, Put(final, n, v), m, Put(final, n, v)[m])
  <1> DEFINE more == Put(final, n, v)
  <1>1. DOMAIN more = DOMAIN final \cup {n} /\ \A m \in DOMAIN more : more[m] = IF m = n THEN v ELSE final[m]
    BY DEF Put
  <1> HIDE DEF more
  <1>2. n \in DOMAIN final => v = final[n]
    BY GroundsUnique
  <1>3. Extends(final, more)
    BY <1>1, <1>2 DEF Extends
  <1>4. ASSUME NEW m \in DOMAIN more PROVE Grounds(s, p, more, m, more[m])
    <2>1. CASE m = n
      BY <1>1, <1>3, <2>1, GroundsKept
    <2>2. CASE m # n
      <3>1. m \in DOMAIN final /\ more[m] = final[m]
        BY <1>1, <2>2
      <3> QED BY <1>3, <3>1, GroundsKept
    <2> QED BY <2>1, <2>2
  <1> QED BY <1>3, <1>4 DEF more

\* Frames.
LEMMA WaitsIs ==
  ASSUME NEW s, NEW p, NEW final
  PROVE  /\ \A f \in Seq(Frames) : f # <<>> /\ Waits(s, p, final, f) => Waits(s, p, final, Tail(f))
         /\ \A f, g \in Seq(Frames) : Waits(s, p, final, f) /\ Waits(s, p, final, g) => Waits(s, p, final, f \o g)
         /\ \A n, t \in Nodes, f \in Fins :
              (f.done => Becomes(s, p, final, n, t, f.rel)) => Waits(s, p, final, Await(n, t, f))
         /\ \A n \in Nodes : Waits(s, p, final, <<Visit(n)>>)
  <1>1. ASSUME NEW f \in Seq(Frames), f # <<>>, Waits(s, p, final, f) PROVE Waits(s, p, final, Tail(f))
    BY <1>1, HeadTail DEF Waits
  <1>2. ASSUME NEW f \in Seq(Frames), NEW g \in Seq(Frames), Waits(s, p, final, f), Waits(s, p, final, g)
        PROVE  Waits(s, p, final, f \o g)
    <2> SUFFICES ASSUME NEW i \in DOMAIN (f \o g), (f \o g)[i].kind = "finish", (f \o g)[i].own.done
                 PROVE  Becomes(s, p, final, (f \o g)[i].node, (f \o g)[i].to, (f \o g)[i].own.rel)
      BY DEF Waits
    <2>1. \/ i \in DOMAIN f /\ (f \o g)[i] = f[i]
          \/ i - Len(f) \in DOMAIN g /\ (f \o g)[i] = g[i - Len(f)]
      BY Pushed
    <2> QED BY <1>2, <2>1 DEF Waits
  <1>3. ASSUME NEW n \in Nodes, NEW t \in Nodes, NEW f \in Fins, f.done => Becomes(s, p, final, n, t, f.rel)
        PROVE  Waits(s, p, final, Await(n, t, f))
    <2>1. DOMAIN Await(n, t, f) = {1, 2}
      BY DEF Await
    <2>2. Await(n, t, f)[1].kind = "visit"
      BY FrameIs
    <2>3. Await(n, t, f)[2].node = n /\ Await(n, t, f)[2].to = t /\ Await(n, t, f)[2].own = f
      BY FrameIs
    <2> QED BY <1>3, <2>1, <2>2, <2>3 DEF Waits
  <1>4. ASSUME NEW n \in Nodes PROVE Waits(s, p, final, <<Visit(n)>>)
    BY FrameIs DEF Waits
  <1> QED BY <1>1, <1>2, <1>3, <1>4

LEMMA WaitsKept ==
  ASSUME NEW s, NEW p, NEW final, NEW more, Extends(final, more), NEW frames, Waits(s, p, final, frames)
  PROVE  Waits(s, p, more, frames)
  BY BecomesKept DEF Waits

\* Trials.
LEMMA LeftIs ==
  ASSUME NEW S, NEW offered \in Seq(S), NEW left \in Seq(S), left # <<>>, NEW k \in Nat, LeftAfter(offered, left, k)
  PROVE  LeftAfter(offered, Tail(left), k + 1) /\ offered[k + 1] = Head(left) /\ k + 1 \in DOMAIN offered
  <1>1. /\ Head(left) = left[1] /\ 1 \in DOMAIN left /\ Len(left) \in Nat /\ Len(Tail(left)) = Len(left) - 1
        /\ \A i \in DOMAIN Tail(left) : Tail(left)[i] = left[i + 1] /\ i + 1 \in DOMAIN left /\ i \in Nat
        /\ Len(left) >= 1 /\ Len(offered) \in Nat /\ DOMAIN offered = 1 .. Len(offered)
    OBVIOUS
  <1>2. Len(offered) = k + Len(left) /\ \A i \in DOMAIN left : left[i] = offered[k + i]
    BY DEF LeftAfter
  <1>3. \A i \in DOMAIN Tail(left) : Tail(left)[i] = offered[k + 1 + i]
    <2> TAKE i \in DOMAIN Tail(left)
    <2>1. Tail(left)[i] = left[i + 1] /\ i + 1 \in DOMAIN left /\ i \in Nat
      BY <1>1
    <2>2. k + (i + 1) = k + 1 + i
      BY <2>1
    <2> QED BY <1>2, <2>1, <2>2
  <1>4. Len(offered) = k + 1 + Len(Tail(left)) /\ k + 1 \in Nat
    BY <1>1, <1>2
  <1>5. offered[k + 1] = Head(left) /\ k + 1 \in DOMAIN offered
    BY <1>1, <1>2
  <1> QED BY <1>3, <1>4, <1>5 DEF LeftAfter

\* The candidate on top is passed over and leaves f.
Passes(u, t, f) ==
  u.node = t.node /\ u.early = t.early /\ u.own = t.own /\ u.left = Tail(t.left) /\ u.fin = Both(t.fin, f)

LEMMA TrialPasses ==
  ASSUME NEW s \in Settings, NEW p \in Phases, NEW final, NEW t \in Trials, t.node \in Nodes, t.left # <<>>,
         OnTrial(s, p, final, t), NEW u, NEW f \in Fins, Passes(u, t, f), f.rel = {},
         f.done => ~Fits(Head(t.left), t.node)
  PROVE  OnTrial(s, p, final, u)
  <1> DEFINE n == t.node
             offered == Attempts(s, p, n)
  <1>1. offered \in Seq(Candidates) /\ t.left \in Seq(Candidates) /\ t.fin \in Fins
    BY AttemptsAssumption DEF Trials
  <1>2. /\ u.node = n /\ u.early = t.early /\ u.own = t.own /\ u.left = Tail(t.left)
        /\ u.fin = Both(t.fin, f)
    BY DEF Passes
  <1>3. u.fin.rel = {} /\ u.fin.done = (t.fin.done /\ f.done)
    <2>1. t.fin.rel = {}
      BY DEF OnTrial
    <2>2. Both(t.fin, f).rel = t.fin.rel \cup f.rel /\ Both(t.fin, f).done = (t.fin.done /\ f.done)
      BY <1>1, BothIs
    <2>3. Both(t.fin, f).rel = {}
      BY <2>1, <2>2
    <2> QED BY <1>2, <2>2, <2>3
  <1>4. PICK k \in Nat : /\ LeftAfter(offered, t.left, k)
                         /\ t.fin.done => \A i \in 1 .. k : i \notin Suits(s, p, n)
    BY DEF OnTrial
  <1>5. LeftAfter(offered, u.left, k + 1) /\ offered[k + 1] = Head(t.left) /\ k + 1 \in Nat
    <2> HIDE DEF offered
    <2> QED BY <1>1, <1>2, <1>4, LeftIs
  <1>6. ASSUME t.fin.done, f.done PROVE \A i \in 1 .. k + 1 : i \notin Suits(s, p, n)
    <2>1. k + 1 \notin Suits(s, p, n)
      BY <1>5, <1>6 DEF Suits
    <2>2. \A i \in 1 .. k + 1 : i \in 1 .. k \/ i = k + 1
      OBVIOUS
    <2> QED BY <1>4, <1>6, <2>1, <2>2
  <1>7. /\ LeftAfter(Attempts(s, p, u.node), u.left, k + 1)
        /\ u.fin.done => \A i \in 1 .. k + 1 : i \notin Suits(s, p, u.node)
    <2>1. u.fin.done => \A i \in 1 .. k + 1 : i \notin Suits(s, p, n)
      BY <1>3, <1>6
    <2> QED BY <1>2, <1>5, <2>1
  <1>8. ~u.early /\ ~Opaque(u.node) /\ OverFinal(final, u.node, u.own)
    BY <1>2 DEF OnTrial
  <1> QED BY <1>3, <1>5, <1>7, <1>8 DEF OnTrial

LEMMA TrialTakes ==
  ASSUME NEW s \in Settings, NEW p \in Phases, NEW final, NEW t \in Trials, t.node \in Nodes, t.left # <<>>,
         OnTrial(s, p, final, t), t.fin.done, Fits(Head(t.left), t.node)
  PROVE  Suits(s, p, t.node) # {} /\ FirstSuit(s, p, t.node) = Head(t.left)
  <1> DEFINE n == t.node
             offered == Attempts(s, p, n)
  <1>1. offered \in Seq(Candidates) /\ t.left \in Seq(Candidates)
    BY AttemptsAssumption DEF Trials
  <1>2. PICK k \in Nat : LeftAfter(offered, t.left, k) /\ \A i \in 1 .. k : i \notin Suits(s, p, n)
    BY DEF OnTrial
  <1>3. offered[k + 1] = Head(t.left) /\ k + 1 \in DOMAIN offered
    <2> HIDE DEF offered
    <2> QED BY <1>1, <1>2, LeftIs
  <1>4. k + 1 \in Suits(s, p, n)
    BY <1>3 DEF Suits
  <1>5. \A j \in Suits(s, p, n) : k + 1 <= j
    <2> TAKE j \in Suits(s, p, n)
    <2>1. j \in DOMAIN offered
      BY DEF Suits
    <2>2. j \in Nat /\ j >= 1
      BY <1>1, <2>1
    <2>3. j \notin 1 .. k
      BY <1>2
    <2> HIDE DEF offered
    <2> QED BY <2>2, <2>3
  <1>6. FirstSuit(s, p, n) = offered[k + 1]
    BY <1>4, <1>5, FirstSuitAt
  <1> QED BY <1>3, <1>4, <1>6

LEMMA TrialEnds ==
  ASSUME NEW s \in Settings, NEW p \in Phases, NEW final, NEW t \in Trials, t.node \in Nodes, t.left = <<>>,
         OnTrial(s, p, final, t), t.fin.done
  PROVE  Suits(s, p, t.node) = {}
  <1>1. Attempts(s, p, t.node) \in Seq(Candidates)
    BY AttemptsAssumption
  <1>2. PICK k \in Nat : /\ LeftAfter(Attempts(s, p, t.node), t.left, k)
                         /\ \A i \in 1 .. k : i \notin Suits(s, p, t.node)
    BY DEF OnTrial
  <1>3. Len(Attempts(s, p, t.node)) = k
    BY <1>2 DEF LeftAfter
  <1> QED BY <1>1, <1>2, <1>3 DEF Suits

\* A trial over final operands starts.
LEMMA TrialStarts ==
  ASSUME NEW s \in Settings, NEW p \in Phases, NEW final, NEW t, t.node \in Nodes, ~t.early, ~Opaque(t.node),
         t.left = Attempts(s, p, t.node), t.fin = FINAL, OverFinal(final, t.node, t.own)
  PROVE  OnTrial(s, p, final, t)
  <1>1. Attempts(s, p, t.node) \in Seq(Candidates)
    BY AttemptsAssumption
  <1>2. LeftAfter(Attempts(s, p, t.node), t.left, 0) /\ 1 .. 0 = {}
    BY <1>1 DEF LeftAfter
  <1>3. t.fin.rel = {}
    BY FinsIs
  <1> QED BY <1>2, <1>3 DEF OnTrial

\* Operands whose results are final.
LEMMA KidsDone ==
  ASSUME Inv, OpenPartials, NEW n \in Nodes, ~Opaque(n), KidsKnown(n), KidsFin(KidResults(n)).done
  PROVE  /\ Settled(memo.result[phase], n) /\ Rebuilt(n) = OverOf(memo.result[phase], n)
         /\ KidsFin(KidResults(n)).rel = RelsOf(memo.result[phase], n)
  <1> DEFINE final == memo.result[phase]
             rs == KidResults(n)
  <1>1. DOMAIN rs = DOMAIN Kids(n) /\ \A i \in DOMAIN Kids(n) : rs[i] = Lookup(Kids(n)[i])
    BY DEF KidResults
  <1>2. \A i \in DOMAIN Kids(n) : Kids(n)[i] \in Nodes /\ Known(Kids(n)[i])
    BY NodesAssumption DEF KidsKnown
  <1>3. \A i \in DOMAIN Kids(n) : Lookup(Kids(n)[i]).fin.done
    BY <1>1 DEF KidsFin
  <1>4. \A i \in DOMAIN Kids(n) : /\ Kids(n)[i] \in DOMAIN final
                                  /\ Lookup(Kids(n)[i]).to = final[Kids(n)[i]].to
                                  /\ Lookup(Kids(n)[i]).fin.rel = final[Kids(n)[i]].rel
    BY <1>2, <1>3, LookupDone
  <1> HIDE DEF final, rs
  <1>5. Settled(final, n)
    BY <1>4 DEF Settled
  <1>6. OverKids(rs) = KidsOf(final, n)
    BY <1>1, <1>4 DEF OverKids, KidsOf
  <1>7. KidsFin(rs).rel = RelsOf(final, n)
    BY <1>1, <1>4 DEF KidsFin, RelsOf
  <1> QED BY <1>5, <1>6, <1>7 DEF Rebuilt, OverOf, final, rs

-----------------------------------------------------------------------------
(* The steps keep what is final grounded. *)

LEMMA QuietGround ==
  ASSUME Closing, UNCHANGED <<memo, phase>>,
         phase \notin MbaPhases /\ mode' \in {"walk", "try"} => Waits(memo.key, phase, memo.result[phase], stack'),
         phase \notin MbaPhases /\ mode' = "try" => OnTrial(memo.key, phase, memo.result[phase], trying')
  PROVE  Closing'
  BY DEF Closing, Grounded

\* What remembering leaves alone.
LEMMA RememberOnly ==
  ASSUME Inv, NEW n, NEW r, NEW f, Remember(n, r, f)
  PROVE  memo'.key = memo.key /\ \A p \in Phases \ {phase} : memo'.result[p] = memo.result[p]
  <1>1. memo \in Memos
    BY DEF Inv, TypeContext
  <1>2. memo.result \in [Phases -> Maps(Finals)]
    BY <1>1 DEF Memos
  <1> DEFINE kept == Put(memo.result[phase], n, [to |-> r, rel |-> f.rel])
  <1>3. memo' = memo \/ memo' = [memo EXCEPT !.result = [memo.result EXCEPT ![phase] = kept]]
    BY DEF Remember
  <1> HIDE DEF kept
  <1>4. memo'.key = memo.key /\ (memo'.result = memo.result \/ memo'.result = [memo.result EXCEPT ![phase] = kept])
    BY <1>1, <1>3 DEF Memos
  <1> QED BY <1>2, <1>4

LEMMA RememberGround ==
  ASSUME Inv, Closing, phase \notin MbaPhases, phase' = phase, mode' = "walk",
         NEW n \in Nodes, NEW r \in Nodes, NEW f \in Fins, Remember(n, r, f),
         f.done => Grounds(memo.key, phase, memo.result[phase], n, [to |-> r, rel |-> f.rel]),
         Waits(memo.key, phase, memo.result[phase], stack')
  PROVE  Closing'
  <1> DEFINE v == [to |-> r, rel |-> f.rel]
             final == memo.result[phase]
             more == memo'.result[phase]
  <1>1. phase \in Phases /\ TypeContext /\ TypeCall
    BY DEF Inv, TypeCall
  <1>2. memo'.key = memo.key /\ \A p \in Phases \ {phase} : memo'.result[p] = memo.result[p]
    BY RememberOnly
  <1>3. more = IF f.done THEN Put(final, n, v) ELSE final
    BY <1>1, RememberIs
  <1>4. \A m \in DOMAIN final : Grounds(memo.key, phase, final, m, final[m])
    BY <1>1 DEF Closing, Grounded
  <1> HIDE DEF v, final
  <1>5. Extends(final, more) /\ \A m \in DOMAIN more : Grounds(memo.key, phase, more, m, more[m])
    <2>1. CASE f.done
      <3>1. Grounds(memo.key, phase, final, n, v)
        BY <2>1 DEF v, final
      <3> QED BY <1>3, <1>4, <2>1, <3>1, PutGrounded
    <2>2. CASE ~f.done
      BY <1>3, <1>4, <2>2 DEF Extends
    <2> QED BY <2>1, <2>2
  <1>6. Waits(memo.key, phase, more, stack')
    BY <1>5, WaitsKept DEF final
  <1> HIDE DEF more
  <1>7. Grounded'
    <2> SUFFICES ASSUME NEW p \in Phases \ MbaPhases, NEW m \in DOMAIN memo'.result[p]
                 PROVE  Grounds(memo'.key, p, memo'.result[p], m, memo'.result[p][m])
      BY DEF Grounded
    <2>1. CASE p = phase
      BY <1>2, <1>5, <2>1 DEF more
    <2>2. CASE p # phase
      BY <1>2, <2>2 DEF Closing, Grounded
    <2> QED BY <2>1, <2>2
  <1>8. Waits(memo'.key, phase', memo'.result[phase'], stack')
    BY <1>2, <1>6 DEF more
  <1> QED BY <1>7, <1>8 DEF Closing

\* The phases of the MBA service do not reach the others' results.
LEMMA MbaGround ==
  ASSUME Inv, Closing, phase \in MbaPhases, phase' = phase, memo'.key = memo.key,
         \A p \in Phases \ {phase} : memo'.result[p] = memo.result[p]
  PROVE  Closing'
  BY DEF Closing, Grounded

LEMMA MbaSteps ==
  ASSUME Inv, Closing, phase \in MbaPhases, Walk \/ Try
  PROVE  Closing'
  <1>1. phase' = phase /\ ((\E n, r, f : Remember(n, r, f)) \/ UNCHANGED memo)
    <2>1. ASSUME Finish PROVE phase' = phase /\ \E n, r, f : Remember(n, r, f)
      BY <2>1 DEF Finish, strategyVars
    <2>2. ASSUME NEW n \in Nodes, VisitKnown(n) \/ VisitCharged(n) \/ VisitFirst(n) \/ VisitDescend(n) \/ VisitTry(n)
          PROVE  phase' = phase /\ UNCHANGED memo
      BY <2>2 DEF VisitKnown, VisitCharged, VisitFirst, VisitDescend, VisitTry, strategyVars, contextVars
    <2>3. ASSUME NEW n \in Nodes, VisitOpaque(n) \/ VisitRebuild(n) \/ VisitUnasked(n)
          PROVE  phase' = phase /\ ((\E m, r, f : Remember(m, r, f)) \/ UNCHANGED memo)
      BY <2>3 DEF VisitOpaque, VisitRebuild, VisitUnasked, strategyVars
    <2>4. ASSUME SkipQuarantined \/ ChargeCandidate \/ Decline \/ Build \/ NoChange \/ Reject \/ Veto \/ AskedEarly
          PROVE  phase' = phase /\ UNCHANGED memo
      BY <2>4 DEF SkipQuarantined, ChargeCandidate, Decline, Build, NoChange, Reject, Veto, AskedEarly, strategyVars,
                  contextVars
    <2>5. ASSUME Accept \/ AllTried
          PROVE  phase' = phase /\ ((\E m, r, f : Remember(m, r, f)) \/ UNCHANGED memo)
      BY <2>5 DEF Accept, AllTried, strategyVars
    <2> QED BY <2>1, <2>2, <2>3, <2>4, <2>5 DEF Walk, Try
  <1>2. memo'.key = memo.key /\ \A p \in Phases \ {phase} : memo'.result[p] = memo.result[p]
    BY <1>1, RememberOnly
  <1> QED BY <1>1, <1>2, MbaGround

\* In the other phases: frames.
LEMMA HeldIs ==
  ASSUME Inv, Closing, phase \notin MbaPhases, mode \in {"walk", "try"}
  PROVE  /\ memo.key \in Settings /\ phase \in Phases /\ stack \in Seq(Frames)
         /\ Waits(memo.key, phase, memo.result[phase], stack)
         /\ stack # <<>> => Waits(memo.key, phase, memo.result[phase], Tail(stack)) /\ Tail(stack) \in Seq(Frames)
  <1>1. memo.key \in Settings /\ phase \in Phases /\ stack \in Seq(Frames)
    BY CallIs DEF Inv, TypeCall, TypeWalk
  <1>2. Waits(memo.key, phase, memo.result[phase], stack)
    BY DEF Closing
  <1> QED BY <1>1, <1>2, WaitsIs, HeadTail

LEMMA FinishGround ==
  ASSUME Inv, Links2, Closing, phase \notin MbaPhases, Finish
  PROVE  Closing'
  <1> DEFINE n == Top.node
             t == Top.to
             own == Top.own
             x == LookupOr(t, PROVISIONAL)
             f == Both(own, x.fin)
             final == memo.result[phase]
  <1>1. /\ stack \in Seq(Frames) /\ stack # <<>> /\ Top \in Frames /\ Top.kind = "finish" /\ mode = "walk"
        /\ Top = stack[1] /\ 1 \in DOMAIN stack
    BY HeadTail DEF Inv, TypeWalk, Top, Finish
  <1>2. n \in Nodes /\ t \in Nodes /\ own \in Fins
    BY <1>1, FrameIs
  <1>3. own.done => Becomes(memo.key, phase, final, n, t, own.rel)
    BY <1>1, HeldIs DEF Waits
  <1>4. Remember(n, x.to, f) /\ stack' = Tail(stack) /\ mode' = "walk" /\ phase' = phase
    BY <1>1 DEF Finish, strategyVars
  <1>5. Waits(memo.key, phase, final, stack')
    BY <1>1, <1>4, HeldIs
  <1> HIDE DEF n, t, own, final
  <1>6. x \in Results
    BY <1>2, LookupIs, FinsIs DEF Inv
  <1>7. x.to \in Nodes /\ x.fin \in Fins
    BY <1>6, ResultIs
  <1>8. x.fin.done => t \in DOMAIN final /\ x.to = final[t].to /\ x.fin.rel = final[t].rel
    BY <1>2, LookupOrDone DEF Links2, final
  <1> HIDE DEF x
  <1>9. f \in Fins /\ f.rel = own.rel \cup x.fin.rel /\ f.done = (own.done /\ x.fin.done)
    BY <1>2, <1>7, BothIs
  <1>10. own.rel \in SUBSET Constraints
    BY <1>2, FinsIs
  <1> HIDE DEF f
  <1>11. ASSUME f.done PROVE Grounds(memo.key, phase, final, n, [to |-> x.to, rel |-> f.rel])
    <2>1. own.done /\ x.fin.done
      BY <1>9, <1>11
    <2>2. /\ t \in DOMAIN final /\ Becomes(memo.key, phase, final, n, t, own.rel)
          /\ x.to = final[t].to /\ f.rel = own.rel \cup final[t].rel
      BY <1>3, <1>8, <1>9, <2>1
    <2>3. [to |-> x.to, rel |-> f.rel] = [to |-> final[t].to, rel |-> own.rel \cup final[t].rel]
      BY <2>2
    <2> QED BY <1>10, <2>2, <2>3 DEF Grounds
  <1> QED BY <1>2, <1>4, <1>5, <1>7, <1>9, <1>11, RememberGround DEF final

\* Frames that only visit wait for nothing.
LEMMA VisitsWait ==
  ASSUME NEW s, NEW p, NEW final, NEW frames, \A i \in DOMAIN frames : frames[i].kind = "visit"
  PROVE  Waits(s, p, final, frames)
  BY DEF Waits

LEMMA VisitsGround ==
  ASSUME Inv, Links2, Closing, phase \notin MbaPhases, NEW n \in Nodes,
         VisitKnown(n) \/ VisitCharged(n) \/ VisitOpaque(n) \/ VisitFirst(n) \/ VisitDescend(n)
  PROVE  Closing'
  <1> DEFINE final == memo.result[phase]
  <1>1. mode = "walk" /\ stack # <<>>
    BY DEF VisitKnown, VisitCharged, VisitOpaque, VisitFirst, VisitDescend, Ready, Visiting
  <1>2. /\ memo.key \in Settings /\ phase \in Phases /\ stack \in Seq(Frames)
        /\ Waits(memo.key, phase, final, stack) /\ Waits(memo.key, phase, final, Tail(stack))
    BY <1>1, HeldIs
  <1>3. ASSUME VisitKnown(n) PROVE Closing'
    <2>1. UNCHANGED <<memo, phase>> /\ stack' = Tail(stack) /\ mode' = "walk"
      BY <1>1, <1>3 DEF VisitKnown, contextVars, strategyVars
    <2> QED BY <1>2, <2>1, QuietGround
  <1>4. ASSUME VisitCharged(n) PROVE Closing'
    <2>1. UNCHANGED <<memo, phase>> /\ stack' = stack /\ mode' = "walk"
      BY <1>1, <1>4 DEF VisitCharged, contextVars, strategyVars
    <2> QED BY <1>2, <2>1, QuietGround
  <1>5. ASSUME VisitOpaque(n) PROVE Closing'
    <2>1. phase' = phase /\ stack' = Tail(stack) /\ mode' = "walk" /\ Remember(n, n, FINAL) /\ Opaque(n)
      BY <1>1, <1>5 DEF VisitOpaque, strategyVars
    <2>2. FINAL \in Fins /\ FINAL.rel = {}
      BY FinsIs
    <2>3. Grounds(memo.key, phase, final, n, [to |-> n, rel |-> FINAL.rel])
      BY <2>1, <2>2 DEF Grounds
    <2> HIDE DEF FINAL
    <2> QED BY <1>2, <2>1, <2>2, <2>3, RememberGround
  <1>6. ~VisitFirst(n)
    BY DEF VisitFirst
  <1>7. ASSUME VisitDescend(n) PROVE Closing'
    <2>1. UNCHANGED <<memo, phase>> /\ mode' = "walk"
      BY <1>1, <1>7 DEF VisitDescend, contextVars, strategyVars
    <2> DEFINE unknown == {i \in DOMAIN Kids(n) : ~Known(Kids(n)[i])}
    <2>2. PICK order \in Descending(unknown) : stack' = [i \in DOMAIN order |-> Visit(Kids(n)[order[i]])] \o stack
      BY <1>7 DEF VisitDescend
    <2> DEFINE above == [i \in DOMAIN order |-> Visit(Kids(n)[order[i]])]
    <2>3. Kids(n) \in Seq(Nodes) /\ Len(Kids(n)) \in Nat /\ unknown \in SUBSET (1 .. Len(Kids(n)))
      BY NodesAssumption
    <2>4. /\ order \in Seq(unknown) /\ DOMAIN order = 1 .. Cardinality(unknown) /\ Cardinality(unknown) \in Nat
          /\ \A i \in DOMAIN order : order[i] \in DOMAIN Kids(n)
      <3>1. order \in Seq(unknown) /\ DOMAIN order = 1 .. Cardinality(unknown) /\ Cardinality(unknown) \in Nat
        <4> HIDE DEF unknown
        <4> QED BY <2>2, <2>3, DescendingIs
      <3>2. \A i \in DOMAIN order : order[i] \in unknown
        <4> HIDE DEF unknown
        <4> QED BY <3>1
      <3> QED BY <3>1, <3>2
    <2>5. \A i \in DOMAIN order : Visit(Kids(n)[order[i]]) \in Frames /\ Visit(Kids(n)[order[i]]).kind = "visit"
      BY <2>3, <2>4, FrameIs
    <2>6. above \in Seq(Frames) /\ \A i \in DOMAIN above : above[i].kind = "visit"
      <3>1. above \in [1 .. Cardinality(unknown) -> Frames]
        <4> HIDE DEF unknown
        <4> QED BY <2>4, <2>5
      <3>2. \A i \in DOMAIN above : above[i].kind = "visit"
        BY <2>5
      <3> HIDE DEF above, unknown
      <3> QED BY <2>4, <3>1, <3>2, SeqIs
    <2>7. stack' = above \o stack
      BY <2>2
    <2> HIDE DEF above
    <2>8. Waits(memo.key, phase, final, stack')
      BY <1>2, <2>6, <2>7, VisitsWait, WaitsIs
    <2> QED BY <2>1, <2>8, QuietGround
  <1> QED BY <1>3, <1>4, <1>5, <1>6, <1>7

LEMMA VisitRebuildGround ==
  ASSUME Inv, Links2, Closing, phase \notin MbaPhases, NEW n \in Nodes, VisitRebuild(n)
  PROVE  Closing'
  <1> DEFINE m == Rebuilt(n)
             own == KidsFin(KidResults(n))
             final == memo.result[phase]
  <1>1. mode = "walk" /\ stack # <<>> /\ ~Opaque(n) /\ KidsKnown(n) /\ m # n
    BY DEF VisitRebuild, Ready, Visiting
  <1>2. /\ memo.key \in Settings /\ phase \in Phases /\ Tail(stack) \in Seq(Frames)
        /\ Waits(memo.key, phase, final, Tail(stack))
    BY <1>1, HeldIs
  <1>3. own \in Fins /\ m \in Nodes
    BY <1>1, RebuiltIs DEF Inv
  <1>4. own.done => Settled(final, n) /\ m = OverOf(final, n) /\ own.rel = RelsOf(final, n)
    BY <1>1, KidsDone DEF Links2
  <1>5. /\ phase' = phase /\ mode' = "walk"
        /\ \/ Remember(n, n, Both(own, PROVISIONAL)) /\ stack' = Tail(stack)
           \/ stack' = Await(n, m, own) \o Tail(stack) /\ UNCHANGED memo
    BY <1>1 DEF VisitRebuild, strategyVars
  <1> HIDE DEF m, own
  <1>6. CASE Remember(n, n, Both(own, PROVISIONAL)) /\ stack' = Tail(stack)
    <2> DEFINE f == Both(own, PROVISIONAL)
    <2>1. f \in Fins /\ ~f.done
      BY <1>3, FinsIs, BothIs
    <2>2. Remember(n, n, f)
      BY <1>6
    <2> HIDE DEF f
    <2> QED BY <1>2, <1>5, <1>6, <2>1, <2>2, RememberGround
  <1>7. CASE stack' = Await(n, m, own) \o Tail(stack) /\ UNCHANGED memo
    <2>1. own.done => Becomes(memo.key, phase, final, n, m, own.rel)
      BY <1>1, <1>4 DEF Becomes
    <2>2. Waits(memo.key, phase, final, Await(n, m, own)) /\ Await(n, m, own) \in Seq(Frames)
      <3> HIDE DEF final
      <3> QED BY <1>3, <2>1, WaitsIs, FrameIs
    <2>3. Waits(memo.key, phase, final, stack')
      <3> HIDE DEF final
      <3> QED BY <1>2, <1>7, <2>2, WaitsIs
    <2> QED BY <1>5, <1>7, <2>3, QuietGround
  <1> QED BY <1>5, <1>6, <1>7

LEMMA VisitTryGround ==
  ASSUME Inv, Links2, Closing, phase \notin MbaPhases, NEW n \in Nodes, VisitTry(n)
  PROVE  Closing'
  <1> DEFINE own == KidsFin(KidResults(n))
             left == Attempts(call.setting, phase, n)
             final == memo.result[phase]
  <1>1. mode = "walk" /\ stack # <<>> /\ ~Opaque(n) /\ KidsKnown(n) /\ Rebuilt(n) = n
    BY DEF VisitTry, Ready, Visiting
  <1>2. /\ memo.key \in Settings /\ phase \in Phases /\ Waits(memo.key, phase, final, Tail(stack))
    BY <1>1, HeldIs
  <1>3. own \in Fins /\ memo.key = call.setting /\ left \in Seq(Candidates)
    BY <1>1, <1>2, RebuiltIs, AttemptsAssumption DEF Inv, TypeCall
  <1>4. OverFinal(final, n, own)
    BY <1>1, KidsDone DEF Links2, OverFinal
  <1>5. /\ UNCHANGED <<memo, phase>> /\ stack' = Tail(stack) /\ mode' = "try"
        /\ trying' = [NotTrying EXCEPT !.node = n, !.own = own, !.left = left]
    BY DEF VisitTry, contextVars, strategyVars
  <1> HIDE DEF own, left, final
  <1>6. /\ trying'.node = n /\ trying'.early = FALSE /\ trying'.own = own /\ trying'.left = left
        /\ trying'.fin = FINAL
    <2> DEFINE u == trying'
    <2>1. u = [NotTrying EXCEPT !.node = n, !.own = own, !.left = left]
      BY <1>5
    <2> HIDE DEF u
    <2>2. u.node = n /\ u.early = FALSE /\ u.own = own /\ u.left = left /\ u.fin = FINAL
      BY <2>1 DEF NotTrying
    <2> QED BY <2>2 DEF u
  <1>7. OnTrial(memo.key, phase, final, trying')
    <2> DEFINE u == trying'
    <2>1. /\ u.node = n /\ u.early = FALSE /\ u.own = own /\ u.left = left /\ u.fin = FINAL
      BY <1>6
    <2>2. left = Attempts(memo.key, phase, n)
      BY <1>3 DEF left
    <2> HIDE DEF u
    <2>3. OnTrial(memo.key, phase, final, u)
      BY <1>1, <1>2, <1>4, <2>1, <2>2, TrialStarts
    <2> QED BY <2>3 DEF u
  <1> QED BY <1>2, <1>5, <1>7, QuietGround DEF final

\* Tries.
LEMMA TestedIs ==
  ASSUME Inv, Closing, phase \notin MbaPhases, mode = "try"
  PROVE  /\ memo.key \in Settings /\ memo.key = call.setting /\ phase \in Phases
         /\ trying \in Trials /\ trying.node \in Nodes
         /\ OnTrial(memo.key, phase, memo.result[phase], trying)
         /\ Waits(memo.key, phase, memo.result[phase], stack) /\ Base = stack
  <1>1. OnTrial(memo.key, phase, memo.result[phase], trying)
    BY DEF Closing
  <1>2. ~trying.early
    BY <1>1 DEF OnTrial
  <1> QED BY <1>1, <1>2, TriedIs, HeldIs DEF Base

LEMMA PassOverGround ==
  ASSUME Inv, Closing, phase \notin MbaPhases, mode = "try", trying.left # <<>>, mode' = mode, call' = call,
         UNCHANGED <<memo, phase, stack>>, NEW f \in Fins, PassOver(f), f.rel = {},
         f.done => ~Fits(Offer, trying.node)
  PROVE  Closing'
  <1> DEFINE u == trying'
             final == memo.result[phase]
  <1>1. Passes(u, trying, f)
    BY PassOverIs DEF Passes
  <1>2. f.done => ~Fits(Head(trying.left), trying.node)
    BY DEF Offer
  <1>3. /\ memo.key \in Settings /\ phase \in Phases /\ trying \in Trials /\ trying.node \in Nodes
        /\ OnTrial(memo.key, phase, final, trying) /\ Waits(memo.key, phase, final, stack)
    BY TestedIs
  <1> HIDE DEF u, final
  <1>4. OnTrial(memo.key, phase, final, u)
    BY <1>1, <1>2, <1>3, TrialPasses
  <1> QED BY <1>3, <1>4, QuietGround DEF u, final

LEMMA CandidatesGround ==
  ASSUME Inv, Closing, phase \notin MbaPhases,
         SkipQuarantined \/ ChargeCandidate \/ Decline \/ Build \/ NoChange \/ Reject \/ Veto
  PROVE  Closing'
  <1>1. /\ mode = "try" /\ mode' = mode /\ UNCHANGED <<memo, phase, stack>> /\ trying.left # <<>> /\ call' = call
    BY DEF SkipQuarantined, ChargeCandidate, Decline, Build, NoChange, Reject, Veto, Trying, contextVars, strategyVars
  <1>2. \/ PassOver(PROVISIONAL)
        \/ PassOver(CAPPED)
        \/ PassOver(FINAL) /\ ~Fits(Offer, trying.node)
        \/ Advance("matched")
        \/ Advance("built")
    BY DEF SkipQuarantined, ChargeCandidate, Decline, Build, NoChange, Reject, Veto, Fits
  <1>3. /\ PROVISIONAL \in Fins /\ CAPPED \in Fins /\ FINAL \in Fins /\ ~PROVISIONAL.done /\ ~CAPPED.done
        /\ PROVISIONAL.rel = {} /\ CAPPED.rel = {} /\ FINAL.rel = {}
    BY FinsIs
  <1>4. CASE PassOver(PROVISIONAL) \/ PassOver(CAPPED) \/ (PassOver(FINAL) /\ ~Fits(Offer, trying.node))
    BY <1>1, <1>3, <1>4, PassOverGround
  <1>5. CASE Advance("matched") \/ Advance("built")
    <2> DEFINE u == trying'
               final == memo.result[phase]
    <2>1. /\ u.node = trying.node /\ u.early = trying.early /\ u.own = trying.own
          /\ u.fin = trying.fin /\ u.left = trying.left
      BY <1>1, <1>5, AdvanceIs
    <2>2. OnTrial(memo.key, phase, final, trying) /\ Waits(memo.key, phase, final, stack)
      BY <1>1, TestedIs
    <2> HIDE DEF u, final
    <2>3. OnTrial(memo.key, phase, final, u)
      BY <2>1, <2>2 DEF OnTrial
    <2> QED BY <1>1, <2>2, <2>3, QuietGround DEF u, final
  <1> QED BY <1>2, <1>4, <1>5

LEMMA AcceptGround ==
  ASSUME Inv, Closing, phase \notin MbaPhases, Accept
  PROVE  Closing'
  <1> DEFINE n == trying.node
             t == Offer.to
             own == trying.own
             tried == trying.fin
             rel == Offer.rel
             f == Both(own, Both(tried, Relying(rel)))
             final == memo.result[phase]
  <1>1. mode = "try" /\ trying.left # <<>> /\ Fits(Offer, n)
    BY DEF Accept, Admitted, Trying, Fits
  <1>2. /\ n \in Nodes /\ t \in Nodes /\ Base \in Seq(Frames) /\ own \in Fins /\ tried \in Fins
        /\ rel \in SUBSET Constraints
    BY <1>1, TriedIs
  <1>3. /\ memo.key \in Settings /\ phase \in Phases /\ trying \in Trials
        /\ OnTrial(memo.key, phase, final, trying) /\ Waits(memo.key, phase, final, Base)
    BY <1>1, TestedIs
  <1>4. tried.rel = {} /\ OverFinal(final, n, own)
    BY <1>3 DEF OnTrial
  <1>5. tried.done => Suits(memo.key, phase, n) # {} /\ FirstSuit(memo.key, phase, n).to = t
                      /\ FirstSuit(memo.key, phase, n).rel = rel
    <2>1. tried.done => Suits(memo.key, phase, n) # {} /\ FirstSuit(memo.key, phase, n) = Offer
      BY <1>1, <1>2, <1>3, TrialTakes DEF Offer
    <2> QED BY <2>1
  <1>6. /\ phase' = phase /\ mode' = "walk"
        /\ \/ Remember(n, t, Both(f, PROVISIONAL)) /\ stack' = Base
           \/ stack' = Await(n, t, f) \o Base /\ UNCHANGED memo
    BY DEF Accept, BackToWalk, strategyVars
  <1> HIDE DEF n, t, own, tried, rel, final
  <1>7. f \in Fins /\ f.done = (own.done /\ tried.done) /\ f.rel = own.rel \cup rel
    <2> DEFINE relying == Relying(rel)
               both == Both(tried, relying)
    <2>1. relying \in Fins /\ relying.rel = rel /\ relying.done = TRUE
      BY <1>2, FinsIs
    <2> HIDE DEF relying
    <2>2. both \in Fins /\ both.rel = tried.rel \cup relying.rel /\ both.done = (tried.done /\ relying.done)
      BY <1>2, <2>1, BothIs
    <2> HIDE DEF both
    <2>3. Both(own, both) \in Fins /\ Both(own, both).rel = own.rel \cup both.rel
          /\ Both(own, both).done = (own.done /\ both.done)
      BY <1>2, <2>2, BothIs
    <2>4. both.rel = rel
      BY <1>4, <2>1, <2>2
    <2>5. both.done = tried.done
      <3>1. tried.done \in BOOLEAN
        BY <1>2, FinsIs
      <3> QED BY <2>1, <2>2, <3>1
    <2>6. f = Both(own, both)
      BY DEF both, relying
    <2> HIDE DEF f
    <2> QED BY <2>3, <2>4, <2>5, <2>6
  <1> HIDE DEF f
  <1>8. CASE Remember(n, t, Both(f, PROVISIONAL)) /\ stack' = Base
    <2> DEFINE g == Both(f, PROVISIONAL)
    <2>1. g \in Fins /\ ~g.done
      BY <1>7, FinsIs, BothIs
    <2>2. Remember(n, t, g)
      BY <1>8
    <2> HIDE DEF g
    <2> QED BY <1>2, <1>3, <1>6, <1>8, <2>1, <2>2, RememberGround DEF final
  <1>9. CASE stack' = Await(n, t, f) \o Base /\ UNCHANGED memo
    <2>1. f.done => Becomes(memo.key, phase, final, n, t, f.rel)
      <3> SUFFICES ASSUME f.done PROVE Becomes(memo.key, phase, final, n, t, f.rel)
        OBVIOUS
      <3>1. own.done /\ tried.done
        BY <1>7
      <3>2. Settled(final, n) /\ OverOf(final, n) = n /\ own.rel = RelsOf(final, n)
        BY <1>4, <3>1 DEF OverFinal
      <3> QED BY <1>5, <1>7, <3>1, <3>2 DEF Becomes
    <2>2. Waits(memo.key, phase, final, Await(n, t, f)) /\ Await(n, t, f) \in Seq(Frames)
      BY <1>2, <1>7, <2>1, WaitsIs, FrameIs
    <2>3. Waits(memo.key, phase, final, stack')
      BY <1>2, <1>3, <1>9, <2>2, WaitsIs
    <2> QED BY <1>6, <1>9, <2>3, QuietGround DEF final
  <1> QED BY <1>6, <1>8, <1>9

LEMMA AllTriedGround ==
  ASSUME Inv, Closing, phase \notin MbaPhases, AllTried
  PROVE  Closing'
  <1> DEFINE n == trying.node
             own == trying.own
             rest == WithoutRel(trying.fin)
             f == Both(own, rest)
             final == memo.result[phase]
  <1>1. mode = "try" /\ trying.left = <<>>
    BY DEF AllTried
  <1>2. n \in Nodes /\ own \in Fins /\ trying.fin \in Fins
    BY <1>1, TriedIs
  <1>3. /\ memo.key \in Settings /\ phase \in Phases /\ trying \in Trials
        /\ OnTrial(memo.key, phase, final, trying) /\ Waits(memo.key, phase, final, stack)
    BY <1>1, TestedIs
  <1>4. rest \in Fins /\ rest.rel = {} /\ rest.done = trying.fin.done
    BY <1>2, FinsIs
  <1>5. OverFinal(final, n, own)
    BY <1>3 DEF OnTrial
  <1>6. rest.done => Suits(memo.key, phase, n) = {}
    BY <1>1, <1>2, <1>3, <1>4, TrialEnds
  <1>7. phase' = phase /\ mode' = "walk" /\ stack' = stack /\ Remember(n, n, f)
    BY DEF AllTried, BackToWalk, strategyVars
  <1> HIDE DEF n, own, rest, final
  <1>8. f \in Fins /\ f.rel = own.rel \cup rest.rel /\ f.done = (own.done /\ rest.done)
    BY <1>2, <1>4, BothIs
  <1> HIDE DEF f
  <1>9. ASSUME f.done PROVE Grounds(memo.key, phase, final, n, [to |-> n, rel |-> f.rel])
    <2>1. own.done /\ rest.done
      BY <1>8, <1>9
    <2>2. Settled(final, n) /\ OverOf(final, n) = n /\ own.rel = RelsOf(final, n) /\ Suits(memo.key, phase, n) = {}
      BY <1>5, <1>6, <2>1 DEF OverFinal
    <2>3. f.rel = RelsOf(final, n)
      BY <1>4, <1>8, <2>2
    <2> QED BY <2>2, <2>3 DEF Grounds
  <1> QED BY <1>2, <1>3, <1>7, <1>8, <1>9, RememberGround DEF final

\* Steps out of the walk.
LEMMA OthersGround ==
  ASSUME Inv, Closing, Begin \/ Strategy \/ RunOut \/ Salvage \/ UNCHANGED vars
  PROVE  Closing'
  <1>1. ASSUME UNCHANGED memo, mode' \notin {"walk", "try"} PROVE Closing'
    BY <1>1 DEF Closing, Grounded
  <1>2. ASSUME Begin PROVE Closing'
    <2>1. PICK s \in Settings, root \in Roots, l \in Limits, d \in BOOLEAN : BeginCall(s, root, l, d)
      BY <1>2 DEF Begin
    <2>2. mode' = "phase" /\ memo' = IF memo.key = s THEN memo ELSE [key |-> s, result |-> NoResults]
      BY <2>1 DEF BeginCall
    <2>3. CASE memo.key = s
      BY <1>1, <2>2, <2>3
    <2>4. CASE memo.key # s
      <3>1. \A p \in Phases : DOMAIN memo'.result[p] = {}
        BY <2>2, <2>4, EmptyIs
      <3> QED BY <2>2, <3>1 DEF Closing, Grounded
    <2> QED BY <2>3, <2>4
  <1>3. ASSUME RootKnown \/ LeaveWalk \/ NextPhase \/ Complete PROVE Closing'
    BY <1>1, <1>3 DEF RootKnown, LeaveWalk, NextPhase, Complete, Return, contextVars
  <1>4. ASSUME EnterWalk PROVE Closing'
    <2>1. UNCHANGED <<memo, phase>> /\ mode' = "walk" /\ stack' = <<Visit(cur)>> /\ cur \in Nodes
      BY <1>4 DEF EnterWalk, contextVars, strategyVars, Inv, TypeCall
    <2>2. Waits(memo.key, phase, memo.result[phase], stack')
      BY <2>1, WaitsIs
    <2> QED BY <2>1, <2>2, QuietGround
  <1>5. ASSUME RunOut PROVE Closing'
    BY <1>1, <1>5 DEF RunOut, OutOfVisits, OutOfCandidates, OutOfRewrites, OutOfNodes, OutOfTime, Salvaged, Return,
                      contextVars
  <1>6. ASSUME Salvage PROVE Closing'
    <2>1. ASSUME NEW n \in Nodes,
                 SalvageMet(n) \/ SalvageKnown(n) \/ SalvageExpand(n) \/ SalvageFinish(n) \/ SalvageRebuild(n)
          PROVE  UNCHANGED memo /\ mode' = "salvage"
      BY <2>1 DEF SalvageMet, SalvageKnown, SalvageExpand, SalvageFinish, SalvageRebuild, Unsettled, Salvaging,
                  Settle, salvageKeeps
    <2>2. ASSUME SalvageEnd PROVE UNCHANGED memo /\ mode' = "idle"
      BY <2>2 DEF SalvageEnd, Return, contextVars
    <2> QED BY <1>1, <1>6, <2>1, <2>2 DEF Salvage
  <1>7. ASSUME UNCHANGED vars PROVE Closing'
    BY <1>7 DEF vars, contextVars, strategyVars, walkVars, Closing, Grounded
  <1> QED BY <1>2, <1>3, <1>4, <1>5, <1>6, <1>7 DEF Strategy

LEMMA ClosingHolds == Spec => []Closing
  <1>1. Init => Closing
    <2> SUFFICES ASSUME Init PROVE Closing
      OBVIOUS
    <2>1. \A p \in Phases : DOMAIN memo.result[p] = {}
      BY EmptyIs DEF Init
    <2> QED BY <2>1 DEF Init, Closing, Grounded
  <1>2. Inv /\ Links2 /\ Closing /\ [Next]_vars => Closing'
    <2> SUFFICES ASSUME Inv, Links2, Closing, [Next]_vars PROVE Closing'
      OBVIOUS
    <2>1. CASE Begin \/ Strategy \/ RunOut \/ Salvage \/ UNCHANGED vars
      BY <2>1, OthersGround
    <2>2. CASE (Walk \/ Try) /\ phase \in MbaPhases
      BY <2>2, MbaSteps
    <2>3. CASE Walk /\ phase \notin MbaPhases
      <3>1. ~(\E n \in Nodes : VisitUnasked(n))
        BY <2>3 DEF VisitUnasked
      <3> QED BY <2>3, <3>1, FinishGround, VisitsGround, VisitRebuildGround, VisitTryGround DEF Walk
    <2>4. CASE Try /\ phase \notin MbaPhases
      <3>1. ~AskedEarly
        <4>1. mode = "try" => ~trying.early
          BY <2>4 DEF Closing, OnTrial
        <4> QED BY <4>1 DEF AskedEarly
      <3> QED BY <2>4, <3>1, CandidatesGround, AcceptGround, AllTriedGround DEF Try
    <2> QED BY <2>1, <2>2, <2>3, <2>4 DEF Next, Work
  <1> QED BY <1>1, <1>2, InvHolds, LinksHold, PTL DEF Spec

-----------------------------------------------------------------------------
(* The theorems. *)

\* Grounds say what a final result stands on.
LEMMA ClosingIs == Closing => \A p \in Phases \ MbaPhases : ClosedIn(p)
  <1> SUFFICES ASSUME Closing, NEW p \in Phases \ MbaPhases PROVE ClosedIn(p)
    OBVIOUS
  <1> DEFINE final == memo.result[p]
  <1>1. \A n : Applies(n, p) = Suits(memo.key, p, n) /\ Chosen(n, p) = FirstSuit(memo.key, p, n)
    <2> TAKE n
    <2>1. Applies(n, p) = Suits(memo.key, p, n)
      BY DEF Applies, Suits, Fits
    <2> QED BY <2>1 DEF Chosen, FirstSuit
  <1>2. \A n : UNION {final[k].rel : k \in {Kids(n)[i] : i \in DOMAIN Kids(n)}} = RelsOf(final, n)
    <2> TAKE n
    <2>1. {final[k].rel : k \in {Kids(n)[i] : i \in DOMAIN Kids(n)}} = {final[Kids(n)[i]].rel : i \in DOMAIN Kids(n)}
      OBVIOUS
    <2> QED BY <2>1 DEF RelsOf
  <1>3. \A n \in DOMAIN final : Grounds(memo.key, p, final, n, final[n])
    BY DEF Closing, Grounded
  <1> DEFINE Agreed(n, t, rel) ==
               t \in DOMAIN final /\ final[n] = [to |-> final[t].to, rel |-> rel \cup final[t].rel]
             AsOffered(n, rel) ==
               Applies(n, p) # {} /\ Agreed(n, Chosen(n, p).to, rel \cup Chosen(n, p).rel)
             Normal(n, rel) == Applies(n, p) = {} /\ final[n] = [to |-> n, rel |-> rel]
             Over(n) == OverOf(final, n)
             Rels(n) == RelsOf(final, n)
  <1> SUFFICES ASSUME NEW n \in DOMAIN final
               PROVE  \/ Opaque(n) /\ final[n] = [to |-> n, rel |-> {}]
                      \/ /\ ~Opaque(n) /\ {Kids(n)[i] : i \in DOMAIN Kids(n)} \subseteq DOMAIN final
                         /\ \/ Over(n) # n /\ Agreed(n, Over(n), Rels(n))
                            \/ Over(n) = n /\ (AsOffered(n, Rels(n)) \/ Normal(n, Rels(n)))
    BY <1>2 DEF ClosedIn, OverOf, KidsOf
  <1> HIDE DEF final
  <1>4. CASE Opaque(n) /\ final[n] = [to |-> n, rel |-> {}]
    BY <1>4
  <1>5. CASE \E t \in DOMAIN final, rel \in SUBSET Constraints :
               Becomes(memo.key, p, final, n, t, rel) /\ final[n] = [to |-> final[t].to, rel |-> rel \cup final[t].rel]
    BY <1>1, <1>5 DEF Becomes, Settled
  <1>6. CASE /\ Settled(final, n) /\ OverOf(final, n) = n /\ Suits(memo.key, p, n) = {}
             /\ final[n] = [to |-> n, rel |-> RelsOf(final, n)]
    BY <1>1, <1>6 DEF Settled
  <1> QED BY <1>3, <1>4, <1>5, <1>6 DEF Grounds

-----------------------------------------------------------------------------
(* The count of waiting results.  In a phase of passes it is the number of  *)
(* Finish frames; wherever no walk goes on, none waits.                     *)

FinOf(s, n) == {i \in DOMAIN s : s[i].kind = "finish" /\ s[i].node = n}
Counted(s, waiting) ==
  \A n \in Nodes : Cardinality(FinOf(s, n)) = IF n \in DOMAIN waiting THEN waiting[n] ELSE 0
Counting == IF Local THEN pending = Empty ELSE Counted(stack, pending)
Counts ==
  /\ Counting
  /\ mode \notin {"walk", "try", "salvage"} => stack = <<>> /\ pending = Empty

\* The Finish frames of a node are finitely many.
LEMMA FinOfIs ==
  ASSUME NEW s \in Seq(Frames), NEW n
  PROVE  /\ FinOf(s, n) \in SUBSET (1 .. Len(s)) /\ IsFiniteSet(FinOf(s, n))
         /\ Cardinality(FinOf(s, n)) \in Nat
  <1>1. FinOf(s, n) \in SUBSET (1 .. Len(s)) /\ Len(s) \in Nat
    BY DEF FinOf
  <1>2. IsFiniteSet(1 .. Len(s))
    BY <1>1, FS_Interval
  <1>3. IsFiniteSet(FinOf(s, n))
    BY <1>1, <1>2, FS_Subset
  <1> QED BY <1>1, <1>3, FS_CardinalityType

\* Frames put on top of others leave those the same number of Finish frames.
LEMMA FinOfShifted ==
  ASSUME NEW u \in Seq(Frames), NEW s \in Seq(Frames), NEW n
  PROVE  LET above == {i \in FinOf(u \o s, n) : i > Len(u)}
         IN  IsFiniteSet(above) /\ Cardinality(above) = Cardinality(FinOf(s, n))
  <1> DEFINE below == FinOf(s, n)
             above == {i \in FinOf(u \o s, n) : i > Len(u)}
             f == [i \in below |-> i + Len(u)]
  <1>1. /\ Len(u) \in Nat /\ Len(s) \in Nat /\ Len(u \o s) = Len(u) + Len(s)
        /\ \A i \in 1 .. Len(s) : (u \o s)[i + Len(u)] = s[i]
        /\ DOMAIN (u \o s) = 1 .. Len(u) + Len(s) /\ DOMAIN s = 1 .. Len(s)
    BY Pushed
  <1>2. below \in SUBSET (1 .. Len(s)) /\ IsFiniteSet(below)
    BY FinOfIs
  <1>3. f \in [below -> above]
    <2> SUFFICES ASSUME NEW i \in below PROVE i + Len(u) \in above
      OBVIOUS
    <2>1. i \in 1 .. Len(s) /\ s[i].kind = "finish" /\ s[i].node = n
      BY <1>2 DEF FinOf
    <2>2. i + Len(u) \in 1 .. Len(u) + Len(s) /\ i + Len(u) > Len(u) /\ (u \o s)[i + Len(u)] = s[i]
      BY <1>1, <2>1
    <2> QED BY <1>1, <2>1, <2>2 DEF FinOf
  <1>4. ASSUME NEW i \in below, NEW j \in below, f[i] = f[j] PROVE i = j
    BY <1>1, <1>2, <1>4
  <1>5. ASSUME NEW k \in above PROVE \E i \in below : f[i] = k
    <2>1. k \in 1 .. Len(u) + Len(s) /\ k > Len(u) /\ (u \o s)[k].kind = "finish" /\ (u \o s)[k].node = n
      BY <1>1 DEF FinOf
    <2>2. k - Len(u) \in 1 .. Len(s) /\ (k - Len(u)) + Len(u) = k
      BY <1>1, <2>1
    <2>3. (u \o s)[k] = s[k - Len(u)]
      BY <1>1, <2>2
    <2>4. k - Len(u) \in below
      BY <1>1, <2>1, <2>2, <2>3 DEF FinOf
    <2> QED BY <2>2, <2>4
  <1> HIDE DEF f, above, below
  <1>6. f \in Bijection(below, above)
    BY <1>3, <1>4, <1>5 DEF Bijection, Injection, Surjection, IsInjective
  <1>7. IsFiniteSet(above) /\ Cardinality(above) = Cardinality(below)
    BY <1>2, <1>6, FS_Bijection DEF ExistsBijection
  <1> QED BY <1>7 DEF above, below

\* One frame more.
LEMMA FinOfPushed ==
  ASSUME NEW x \in Frames, NEW s \in Seq(Frames), NEW n
  PROVE  Cardinality(FinOf(<<x>> \o s, n)) =
           Cardinality(FinOf(s, n)) + IF x.kind = "finish" /\ x.node = n THEN 1 ELSE 0
  <1> DEFINE t == <<x>> \o s
             above == {i \in FinOf(t, n) : i > 1}
  <1>1. IsFiniteSet(above) /\ Cardinality(above) = Cardinality(FinOf(s, n))
    <2> DEFINE u == <<x>>
    <2>1. u \in Seq(Frames) /\ Len(u) = 1
      OBVIOUS
    <2> HIDE DEF u
    <2>2. LET past == {i \in FinOf(u \o s, n) : i > Len(u)}
          IN  IsFiniteSet(past) /\ Cardinality(past) = Cardinality(FinOf(s, n))
      BY <2>1, FinOfShifted
    <2> QED BY <2>1, <2>2 DEF u
  <1>2. t \in Seq(Frames) /\ Len(t) \in Nat /\ t[1] = x /\ 1 \in DOMAIN t
    OBVIOUS
  <1>3. FinOf(t, n) \in SUBSET (1 .. Len(t)) /\ Cardinality(FinOf(s, n)) \in Nat
    BY <1>2, FinOfIs
  <1>4. CASE x.kind = "finish" /\ x.node = n
    <2>1. 1 \in FinOf(t, n) /\ 1 \notin above
      BY <1>2, <1>4 DEF FinOf
    <2>2. FinOf(t, n) = above \cup {1}
      <3> HIDE DEF t
      <3> QED BY <1>2, <1>3, <2>1
    <2>3. Cardinality(above \cup {1}) = Cardinality(above) + 1
      <3> HIDE DEF above
      <3> QED BY <1>1, <2>1, FS_AddElement
    <2> QED BY <1>1, <1>4, <2>2, <2>3
  <1>5. CASE ~(x.kind = "finish" /\ x.node = n)
    <2>1. 1 \notin FinOf(t, n)
      BY <1>2, <1>5 DEF FinOf
    <2>2. FinOf(t, n) = above
      <3> HIDE DEF t
      <3> QED BY <1>2, <1>3, <2>1
    <2>3. Cardinality(FinOf(t, n)) = Cardinality(FinOf(s, n))
      BY <1>1, <2>2
    <2>4. (IF x.kind = "finish" /\ x.node = n THEN 1 ELSE 0) = 0
      BY <1>5
    <2> QED BY <1>3, <2>3, <2>4
  <1> QED BY <1>4, <1>5

\* The top frame taken off.
LEMMA FinOfPopped ==
  ASSUME NEW s \in Seq(Frames), s # <<>>, NEW n
  PROVE  Cardinality(FinOf(s, n)) =
           Cardinality(FinOf(Tail(s), n)) + IF Head(s).kind = "finish" /\ Head(s).node = n THEN 1 ELSE 0
  <1>1. Head(s) \in Frames /\ Tail(s) \in Seq(Frames) /\ s = <<Head(s)>> \o Tail(s)
    OBVIOUS
  <1> QED BY <1>1, FinOfPushed

\* Visits count for nothing.
LEMMA CountedPast ==
  ASSUME NEW s \in Seq(Frames), NEW waiting, Counted(s, waiting)
  PROVE  /\ \A u \in Seq(Frames) :
              (\A i \in 1 .. Len(u) : u[i].kind = "visit") => Counted(u \o s, waiting)
         /\ s # <<>> /\ Head(s).kind = "visit" => Counted(Tail(s), waiting)
  <1>1. ASSUME NEW u \in Seq(Frames), \A i \in 1 .. Len(u) : u[i].kind = "visit", NEW n \in Nodes
        PROVE  Cardinality(FinOf(u \o s, n)) = Cardinality(FinOf(s, n))
    <2>1. /\ Len(u) \in Nat /\ DOMAIN (u \o s) = 1 .. Len(u) + Len(s) /\ Len(s) \in Nat
          /\ \A i \in 1 .. Len(u) : (u \o s)[i] = u[i]
      BY Pushed
    <2>2. ASSUME NEW i \in FinOf(u \o s, n) PROVE i > Len(u)
      <3>1. i \in 1 .. Len(u) + Len(s) /\ (u \o s)[i].kind = "finish"
        BY <2>1 DEF FinOf
      <3>2. i \notin 1 .. Len(u)
        BY <1>1, <2>1, <3>1
      <3> QED BY <2>1, <3>1, <3>2
    <2>3. {i \in FinOf(u \o s, n) : i > Len(u)} = FinOf(u \o s, n)
      BY <2>2
    <2> QED BY <2>3, FinOfShifted
  <1>2. ASSUME s # <<>>, Head(s).kind = "visit", NEW n \in Nodes
        PROVE  Cardinality(FinOf(Tail(s), n)) = Cardinality(FinOf(s, n))
    <2>1. Tail(s) \in Seq(Frames)
      BY <1>2
    <2>2. Cardinality(FinOf(Tail(s), n)) \in Nat
      BY <2>1, FinOfIs
    <2> QED BY <1>2, <2>2, FinOfPopped
  <1> QED BY <1>1, <1>2 DEF Counted

\* A result more that waits is counted once more.
LEMMA AwaitCounts ==
  ASSUME TypeWalk, ~Local, NEW n \in Nodes, NEW t \in Nodes, NEW f \in Fins, NEW s \in Seq(Frames),
         Counted(s, pending), Wait(n)
  PROVE  Counted(Await(n, t, f) \o s, pending')
  <1> DEFINE x == FinishWith(n, t, f)
             v == Visit(t)
  <1>1. x \in Frames /\ x.kind = "finish" /\ x.node = n /\ v \in Frames /\ v.kind = "visit"
    BY FrameIs
  <1>2. Await(n, t, f) \o s = <<v>> \o (<<x>> \o s)
    <2>1. Await(n, t, f) = <<v, x>>
      BY DEF Await
    <2> HIDE DEF v, x
    <2> QED BY <1>1, <2>1
  <1> HIDE DEF v, x
  <1>3. pending' = Put(pending, n, IF Waiting(n) THEN pending[n] + 1 ELSE 1)
    BY DEF Wait
  <1>4. \A m \in DOMAIN pending : pending[m] \in Nat
    BY MapIs DEF TypeWalk
  <1>5. ASSUME NEW m \in Nodes
        PROVE  Cardinality(FinOf(<<x>> \o s, m)) = IF m \in DOMAIN pending' THEN pending'[m] ELSE 0
    <2>1. Cardinality(FinOf(<<x>> \o s, m)) = Cardinality(FinOf(s, m)) + IF n = m THEN 1 ELSE 0
      BY <1>1, FinOfPushed
    <2>2. /\ Cardinality(FinOf(s, m)) = IF m \in DOMAIN pending THEN pending[m] ELSE 0
          /\ Cardinality(FinOf(s, m)) \in Nat
      BY FinOfIs DEF Counted
    <2>3. /\ m \in DOMAIN pending' <=> m = n \/ m \in DOMAIN pending
          /\ m = n => pending'[m] = IF n \in DOMAIN pending THEN pending[n] + 1 ELSE 1
          /\ m # n /\ m \in DOMAIN pending => pending'[m] = pending[m]
      BY <1>3 DEF Put, Waiting
    <2> QED BY <1>4, <2>1, <2>2, <2>3
  <1>6. Counted(<<x>> \o s, pending') /\ <<x>> \o s \in Seq(Frames)
    BY <1>1, <1>5 DEF Counted
  <1>7. <<v>> \in Seq(Frames) /\ \A i \in 1 .. Len(<<v>>) : <<v>>[i].kind = "visit"
    BY <1>1
  <1> QED BY <1>2, <1>6, <1>7, CountedPast

\* One that is settled, once less.
LEMMA UnwaitCounts ==
  ASSUME TypeWalk, NEW n \in Nodes, NEW s \in Seq(Frames), s # <<>>, Head(s).kind = "finish", Head(s).node = n,
         Counted(s, pending), Unwait(n)
  PROVE  Counted(Tail(s), pending')
  <1> SUFFICES ASSUME NEW m \in Nodes
               PROVE  Cardinality(FinOf(Tail(s), m)) = IF m \in DOMAIN pending' THEN pending'[m] ELSE 0
    BY DEF Counted
  <1>1. Cardinality(FinOf(s, m)) = Cardinality(FinOf(Tail(s), m)) + IF n = m THEN 1 ELSE 0
    BY FinOfPopped
  <1>2. Cardinality(FinOf(s, n)) = Cardinality(FinOf(Tail(s), n)) + 1
    BY FinOfPopped
  <1>3. Cardinality(FinOf(Tail(s), m)) \in Nat /\ Cardinality(FinOf(Tail(s), n)) \in Nat
    <2>1. Tail(s) \in Seq(Frames)
      OBVIOUS
    <2> QED BY <2>1, FinOfIs
  <1>4. /\ Cardinality(FinOf(s, m)) = IF m \in DOMAIN pending THEN pending[m] ELSE 0
        /\ Cardinality(FinOf(s, n)) = IF n \in DOMAIN pending THEN pending[n] ELSE 0
    BY DEF Counted
  <1>5. \A k \in DOMAIN pending : pending[k] \in Nat \ {0}
    BY MapIs DEF TypeWalk
  <1>6. Waiting(n) /\ n \in DOMAIN pending
    BY <1>2, <1>3, <1>4 DEF Waiting
  <1>7. CASE pending[n] = 1
    <2>1. pending' = [k \in DOMAIN pending \ {n} |-> pending[k]]
      BY <1>6, <1>7 DEF Unwait
    <2> QED BY <1>1, <1>3, <1>4, <1>5, <1>6, <1>7, <2>1
  <1>8. CASE pending[n] # 1
    <2>1. pending' = [pending EXCEPT ![n] = @ - 1]
      BY <1>6, <1>8 DEF Unwait
    <2>2. DOMAIN pending' = DOMAIN pending /\ \A k \in DOMAIN pending : pending'[k] = IF k = n THEN pending[n] - 1 ELSE pending[k]
      BY <2>1
    <2> QED BY <1>1, <1>3, <1>4, <1>5, <1>6, <2>2
  <1> QED BY <1>7, <1>8

\* With no frame left none waits.
LEMMA CountedNone ==
  /\ Counted(<<>>, Empty)
  /\ TypeWalk /\ Counted(<<>>, pending) => pending = Empty
  /\ \A n \in Nodes : Counted(<<Visit(n)>>, Empty)
  <1>1. \A n : Cardinality(FinOf(<<>>, n)) = 0
    <2>1. \A n : FinOf(<<>>, n) = {}
      BY DEF FinOf
    <2> QED BY <2>1, FS_EmptySet
  <1>2. Counted(<<>>, Empty)
    BY <1>1, EmptyIs DEF Counted
  <1>3. ASSUME TypeWalk, Counted(<<>>, pending) PROVE pending = Empty
    <2>1. DOMAIN pending \subseteq Nodes /\ \A n \in DOMAIN pending : pending[n] \in Nat \ {0}
      BY <1>3, MapIs DEF TypeWalk
    <2>2. DOMAIN pending = {}
      BY <1>1, <1>3, <2>1 DEF Counted
    <2>3. pending = [n \in DOMAIN pending |-> pending[n]]
      BY <1>3 DEF TypeWalk, Maps
    <2> QED BY <2>2, <2>3 DEF Empty
  <1>4. ASSUME NEW n \in Nodes PROVE Counted(<<Visit(n)>>, Empty)
    <2>1. <<Visit(n)>> \o <<>> = <<Visit(n)>> /\ <<Visit(n)>> \in Seq(Frames) /\ <<>> \in Seq(Frames)
      BY FrameIs
    <2>2. \A i \in 1 .. Len(<<Visit(n)>>) : <<Visit(n)>>[i].kind = "visit"
      BY FrameIs
    <2> HIDE DEF Counted
    <2> QED BY <1>2, <2>1, <2>2, CountedPast
  <1> QED BY <1>2, <1>3, <1>4

\* A step of a walk that keeps the stack and the count, or takes off or puts on visits.
LEMMA QuietCounts ==
  ASSUME Inv, Counts, UNCHANGED <<phase, pending>>, mode' \in {"walk", "try", "salvage"},
         \/ stack' = stack
         \/ stack # <<>> /\ Top.kind = "visit" /\ stack' = Tail(stack)
         \/ \E u \in Seq(Frames) : (\A i \in 1 .. Len(u) : u[i].kind = "visit") /\ stack' = u \o stack
  PROVE  Counts'
  <1>1. stack \in Seq(Frames) /\ (Local <=> Local') /\ mode' \in {"walk", "try", "salvage"}
    BY DEF Inv, TypeWalk, Local
  <1>2. ASSUME Counted(stack, pending) PROVE Counted(stack', pending)
    BY <1>1, <1>2, CountedPast DEF Top
  <1> QED BY <1>1, <1>2 DEF Counts, Counting

\* A rewrite, or a rebuilt node, to wait on.
LEMMA WaitCounts ==
  ASSUME Inv, Counts, UNCHANGED phase, mode' \in {"walk", "try", "salvage"},
         NEW n \in Nodes, NEW t \in Nodes, NEW f \in Fins, Wait(n),
         NEW s, stack' = Await(n, t, f) \o s,
         s = stack \/ (stack # <<>> /\ Top.kind = "visit" /\ s = Tail(stack))
  PROVE  Counts'
  <1>1. stack \in Seq(Frames) /\ TypeWalk /\ (Local <=> Local')
    BY DEF Inv, TypeWalk, Local
  <1>a. s \in Seq(Frames)
    <2>1. stack # <<>> => Tail(stack) \in Seq(Frames)
      BY <1>1, HeadTail
    <2> QED BY <1>1, <2>1
  <1>2. CASE Local
    BY <1>1, <1>2 DEF Counts, Counting, Wait
  <1>3. CASE ~Local
    <2>1. Counted(s, pending)
      BY <1>1, <1>3, CountedPast DEF Counts, Counting, Top
    <2>2. Counted(stack', pending')
      BY <1>1, <1>a, <1>3, <2>1, AwaitCounts
    <2> QED BY <1>1, <1>3, <2>2 DEF Counts, Counting
  <1> QED BY <1>2, <1>3

\* The walk, and what is tried at a node.
LEMMA WalkCounts ==
  ASSUME Inv, Links2, Counts, Walk
  PROVE  Counts'
  <1>1. stack \in Seq(Frames) /\ TypeWalk
    BY DEF Inv, TypeWalk
  <1>2. ASSUME Finish PROVE Counts'
    <2>1. /\ mode' = "walk" /\ phase' = phase /\ stack # <<>> /\ stack' = Tail(stack)
          /\ Head(stack).kind = "finish" /\ Unwait(Head(stack).node)
      BY <1>2 DEF Finish, strategyVars, Top
    <2>2. Head(stack).node \in Nodes
      <3>1. Head(stack) \in Frames
        BY <1>1, <2>1
      <3> QED BY <3>1, FrameIs
    <2>3. CASE Local
      <3>1. pending = Empty /\ Local'
        BY <2>1, <2>3 DEF Counts, Counting, Local
      <3>2. pending' = pending
        BY <2>1, <3>1, EmptyIs DEF Unwait, Waiting
      <3> QED BY <2>1, <3>1, <3>2 DEF Counts, Counting
    <2>4. CASE ~Local
      <3>1. Counted(stack, pending) /\ ~Local'
        BY <2>1, <2>4 DEF Counts, Counting, Local
      <3>2. Counted(stack', pending')
        BY <1>1, <2>1, <2>2, <3>1, UnwaitCounts
      <3> QED BY <2>1, <3>1, <3>2 DEF Counts, Counting
    <2> QED BY <2>3, <2>4
  <1>3. ASSUME NEW n \in Nodes,
               VisitKnown(n) \/ VisitCharged(n) \/ VisitOpaque(n) \/ VisitFirst(n) \/ VisitTry(n) \/ VisitUnasked(n)
        PROVE  Counts'
    <2>1. Visiting(n) /\ mode' \in {"walk", "try"} /\ UNCHANGED <<phase, pending>>
          /\ (stack' = stack \/ stack' = Tail(stack))
      BY <1>3 DEF VisitKnown, VisitCharged, VisitOpaque, VisitFirst, VisitTry, VisitUnasked, Ready, Visiting, strategyVars
    <2> QED BY <2>1, QuietCounts DEF Visiting
  <1>4. ASSUME NEW n \in Nodes, VisitDescend(n) PROVE Counts'
    <2>1. mode' = "walk" /\ UNCHANGED <<phase, pending>>
      BY <1>4 DEF VisitDescend, Ready, Visiting, strategyVars
    <2>2. \E u \in Seq(Frames) : (\A i \in 1 .. Len(u) : u[i].kind = "visit") /\ stack' = u \o stack
      BY <1>4, DescendIs
    <2> QED BY <2>1, <2>2, QuietCounts
  <1>5. ASSUME NEW n \in Nodes, VisitRebuild(n) PROVE Counts'
    <2>1. Visiting(n) /\ mode' = "walk" /\ UNCHANGED phase
      BY <1>5 DEF VisitRebuild, Ready, Visiting, strategyVars
    <2>2. CASE stack' = Tail(stack) /\ UNCHANGED pending
      BY <2>1, <2>2, QuietCounts DEF Visiting
    <2>3. CASE Wait(n) /\ stack' = Await(n, Rebuilt(n), KidsFin(KidResults(n))) \o Tail(stack)
      <3>1. Rebuilt(n) \in Nodes /\ KidsFin(KidResults(n)) \in Fins
        BY <1>5, RebuiltIs DEF VisitRebuild, Inv
      <3> QED BY <2>1, <2>3, <3>1, WaitCounts DEF Visiting
    <2> QED BY <1>5, <2>2, <2>3 DEF VisitRebuild
  <1> QED BY <1>2, <1>3, <1>4, <1>5 DEF Walk

LEMMA TryCounts ==
  ASSUME Inv, Links2, Counts, Try
  PROVE  Counts'
  <1>1. ASSUME SkipQuarantined \/ ChargeCandidate \/ Decline \/ Build \/ NoChange \/ Reject \/ Veto \/ AllTried \/ AskedEarly
        PROVE  Counts'
    <2>1. mode' \in {"walk", "try"} /\ UNCHANGED <<phase, pending, stack>>
      BY <1>1 DEF SkipQuarantined, ChargeCandidate, Decline, Build, NoChange, Reject, Veto, AllTried, AskedEarly,
                  Trying, BackToWalk, strategyVars
    <2> QED BY <2>1, QuietCounts
  <1>2. ASSUME Accept PROVE Counts'
    <2> DEFINE n == trying.node
               t == Offer.to
               f == Both(trying.own, Both(trying.fin, Relying(Offer.rel)))
    <2>1. /\ mode = "try" /\ mode' = "walk" /\ UNCHANGED phase
          /\ \/ stack' = Base /\ UNCHANGED pending
             \/ Wait(n) /\ stack' = Await(n, t, f) \o Base
      BY <1>2 DEF Accept, Admitted, Trying, BackToWalk, strategyVars
    <2>2. Base = stack \/ (stack # <<>> /\ Top.kind = "visit" /\ Base = Tail(stack))
      BY <2>1 DEF Base, Links2, Linking
    <2>3. n \in Nodes /\ t \in Nodes /\ f \in Fins
      <3>1. n \in Nodes /\ trying.own \in Fins /\ trying.fin \in Fins /\ Offer \in Candidates
        BY <1>2, <2>1 DEF Inv, TypeTry, Trials, Accept, Admitted, Trying, Offer
      <3>2. t \in Nodes /\ Offer.rel \in SUBSET Constraints
        BY <3>1 DEF Candidates
      <3>3. Relying(Offer.rel) \in Fins
        BY <3>2, FinsIs
      <3>4. Both(trying.fin, Relying(Offer.rel)) \in Fins
        BY <3>1, <3>3, FinsIs
      <3> QED BY <3>1, <3>2, <3>4, FinsIs
    <2> HIDE DEF n, t, f
    <2>4. CASE stack' = Base /\ UNCHANGED pending
      BY <2>1, <2>2, <2>4, QuietCounts
    <2>5. CASE Wait(n) /\ stack' = Await(n, t, f) \o Base
      <3>1. mode' \in {"walk", "try", "salvage"}
        BY <2>1
      <3> QED BY <2>1, <2>2, <2>3, <2>5, <3>1, WaitCounts
    <2> QED BY <2>1, <2>4, <2>5
  <1> QED BY <1>1, <1>2 DEF Try

\* The strategy, the ends of a call, and the salvage.
LEMMA OthersCount ==
  ASSUME Inv, Counts, Begin \/ Strategy \/ RunOut \/ Salvage \/ UNCHANGED vars
  PROVE  Counts'
  <1>1. ASSUME stack' = <<>>, pending' = Empty PROVE Counts'
    BY <1>1, CountedNone DEF Counts, Counting
  <1>2. ASSUME Begin \/ RootKnown \/ NextPhase PROVE Counts'
    <2>1. mode \notin {"walk", "try", "salvage"} /\ UNCHANGED <<stack, pending>>
      BY <1>2 DEF Begin, BeginCall, RootKnown, NextPhase, walkVars
    <2> QED BY <1>1, <2>1 DEF Counts
  <1>3. ASSUME EnterWalk PROVE Counts'
    <2>1. stack' = <<Visit(cur)>> /\ pending' = Empty /\ mode' = "walk" /\ cur \in Nodes
      BY <1>3 DEF EnterWalk, Inv, TypeCall
    <2> QED BY <2>1, CountedNone DEF Counts, Counting
  <1>4. ASSUME LeaveWalk PROVE Counts'
    <2>1. stack = <<>> /\ UNCHANGED <<stack, pending>>
      BY <1>4 DEF LeaveWalk, walkVars
    <2>2. pending = Empty
      BY <2>1, CountedNone DEF Counts, Counting, Inv
    <2> QED BY <1>1, <2>1, <2>2
  <1>5. ASSUME Complete \/ SalvageEnd \/ OutOfTime PROVE Counts'
    <2>1. stack' = <<>> /\ pending' = Empty
      BY <1>5 DEF Complete, SalvageEnd, OutOfTime, Return
    <2> QED BY <1>1, <2>1
  <1>6. ASSUME OutOfVisits \/ OutOfCandidates \/ OutOfRewrites \/ OutOfNodes PROVE Counts'
    <2>1. mode' = "salvage" /\ UNCHANGED <<phase, pending, stack>>
      BY <1>6 DEF OutOfVisits, OutOfCandidates, OutOfRewrites, OutOfNodes, Salvaged, walkVars, strategyVars
    <2> QED BY <2>1, QuietCounts
  <1>7. ASSUME NEW n \in Nodes,
               SalvageMet(n) \/ SalvageKnown(n) \/ SalvageExpand(n) \/ SalvageFinish(n) \/ SalvageRebuild(n)
        PROVE  Counts'
    <2>1. mode = "salvage" /\ UNCHANGED <<mode, phase, pending, stack>>
      BY <1>7 DEF SalvageMet, SalvageKnown, SalvageExpand, SalvageFinish, SalvageRebuild, Unsettled, Salvaging,
                  Settle, salvageKeeps, walkVars, strategyVars
    <2> QED BY <2>1, QuietCounts
  <1>8. ASSUME UNCHANGED vars PROVE Counts'
    BY <1>8 DEF vars, strategyVars, walkVars, Counts, Counting, Local
  <1> QED BY <1>2, <1>3, <1>4, <1>5, <1>6, <1>7, <1>8 DEF Strategy, RunOut, Salvage

LEMMA CountsHold == Spec => []Counts
  <1>1. Init => Counts
    BY CountedNone DEF Init, Counts, Counting
  <1>2. Inv /\ Links2 /\ Counts /\ [Next]_vars => Counts'
    BY WalkCounts, TryCounts, OthersCount DEF Next, Work
  <1> QED BY <1>1, <1>2, InvHolds, LinksHold, PTL DEF Spec

-----------------------------------------------------------------------------
(* The theorems. *)

LEMMA SoundIs == Inv => Sound
  BY DEF Inv, SoundMemo, SoundStack, Right, SoundDone, SoundCall, Sound

\* Every variable keeps its type: what is remembered for a node is a node and
\* a finality, a call is in one mode, and the memo is that of the call's
\* engine, hooks and assumptions as long as the call runs.
THEOREM TypeCorrect == Spec => []TypeOK
  <1>1. Inv => TypeOK
    <2> SUFFICES ASSUME Inv PROVE TypeOK
      OBVIOUS
    <2>1. \A p \in Phases : /\ IsPartial(memo.result[p], [to : Nodes, rel : SUBSET Constraints])
                            /\ IsPartial(partial[p], Results)
      <3> TAKE p \in Phases
      <3>1. memo.result[p] \in Maps(Finals) /\ partial[p] \in Maps(Results)
        BY DEF Inv, TypeContext, Memos, Partials
      <3> QED BY <3>1, MapIs DEF Finals
    <2>2. arena \subseteq Nodes /\ memo.key \in Settings \cup {None}
      BY DEF Inv, TypeContext, Memos
    <2>3. /\ spent \in [Counters -> Nat] /\ quarantined \subseteq Rewriters
          /\ rewritten \subseteq Nodes \X Nodes /\ stack \in Seq(Frames) /\ charged \in BOOLEAN
      BY DEF Inv, Meter, Spendings, TypeWalk
    <2>4. IsPartial(pending, Nat \ {0}) /\ IsPartial(parent, Nodes)
          /\ IsPartial(first, [asked : BOOLEAN, fin : Fins])
      BY MapIs DEF Inv, TypeWalk, Firsts
    <2>5. /\ trying.left \in Seq(Candidates) /\ trying.own \in Fins /\ trying.fin \in Fins
          /\ mode = "try" => trying.node \in Nodes
      BY DEF Inv, TypeTry, Trials
    <2>6. /\ work \in Seq([node : Nodes, expanded : BOOLEAN]) /\ open \subseteq Nodes
          /\ outcome # None => outcome.root \in Roots /\ outcome.to \in Nodes
      BY DEF Inv, TypeSalvage, Items
    <2>7. IsPartial(done, Results)
      BY MapIs DEF Inv, TypeSalvage
    <2> QED BY <2>1, <2>2, <2>3, <2>4, <2>5, <2>6, <2>7 DEF Inv, TypeCall, Modes, TypeOK
  <1> QED BY <1>1, InvHolds, PTL

\* Whatever is remembered, waits, is salvaged or is returned equals the node it
\* stands for in every world where the constraints recorded with it hold,
\* whatever the candidates are, wherever a budget runs out and however many
\* calls have filled the memo.
THEOREM AlwaysSound == Spec => []Sound
  <1>1. Inv => Sound
    BY SoundIs
  <1> QED BY <1>1, InvHolds, PTL

\* No counter of the meter passes its limit, in the walk, while candidates are
\* tried or in a salvage.
THEOREM AlwaysWithinBudget == Spec => []WithinBudget
  <1>1. Inv => WithinBudget
    BY DEF Inv, Meter
  <1> QED BY <1>1, InvHolds, PTL

\* Whatever waits finds the result it waits for: the walk leaves with a result
\* for the node it started from, and a rewrite settles only once the result of
\* its replacement is known, however rewrites, rebuilds, questions asked before
\* the operands and cut cycles interleave on the stack.
THEOREM AlwaysFindsResult == Spec => []FinishFindsResult
  <1>1. Inv /\ Links2 => FinishFindsResult
    <2> SUFFICES ASSUME Inv, Links2, mode = "walk" PROVE /\ stack = <<>> => Known(cur)
                                                         /\ stack # <<>> /\ Top.kind = "finish" => Known(Top.to)
      BY DEF FinishFindsResult
    <2>1. Linked(Opened, stack, {}, cur) /\ stack \in Seq(Frames)
      BY DEF Links2, Linking, Tried, Inv, TypeWalk
    <2>2. ASSUME stack = <<>> PROVE Known(cur)
      <3>1. Len(stack) = 0 /\ 1 \in 1 .. Len(stack) + 1
        BY <2>2
      <3> QED BY <2>1, <3>1 DEF Linked, Known, Opened
    <2>3. ASSUME stack # <<>>, Top.kind = "finish" PROVE Known(Top.to)
      <3>1. Top = stack[1] /\ 1 \in 1 .. Len(stack) + 1 /\ ~(1 > Len(stack))
        BY <2>1, <2>3 DEF Top
      <3> QED BY <2>1, <2>3, <3>1 DEF Linked, Known, Opened
    <2> QED BY <2>2, <2>3
  <1> QED BY <1>1, InvHolds, LinksHold, PTL

\* The record of what waits is the stack's, frame by frame, in the walk, while
\* candidates are tried and in a salvage: a cycle is cut where it closes and
\* only there, and every walk ends with nothing pending, as the code asserts.
THEOREM PendingAlwaysExact == Spec => []PendingExact
  <1>1. Counts => PendingExact
    BY DEF Counts, Counting, Counted, FinOf, FinishesOf, Waiting, PendingExact
  <1> QED BY <1>1, CountsHold, PTL

\* Whoever waits is on record and finds the result it waits for, through every
\* rewrite, rebuild, question and cut of a walk.
THEOREM WaitsAlwaysRight == Spec => []WaitsRight
  <1>1. PendingExact /\ FinishFindsResult => WaitsRight
    BY DEF WaitsRight
  <1> QED BY <1>1, PendingAlwaysExact, AlwaysFindsResult, PTL

\* Where a round changes nothing and what it found is final, the memo leads
\* from the root through every phase back to it: asked again, the engine walks
\* nothing.
THEOREM RepeatAlwaysLookup == Spec => []RepeatIsLookup
  <1>1. Inv /\ Links2 => RepeatIsLookup
    BY DEF Inv, Links2, Leading, Walked, Path, RepeatIsLookup, Phases
  <1> QED BY <1>1, InvHolds, LinksHold, PTL

\* What a final result of a phase of rules or of a pass other than the MBA
\* service's stands on is final and agrees with it: its operands, what it was
\* rebuilt into, and the first candidate that suits it.  Nothing a cap, a
\* quarantine, sharing or a cut cycle kept back is remembered across calls.
THEOREM AlwaysClosed == Spec => [](\A p \in Phases \ MbaPhases : ClosedIn(p))
  <1>1. Closing => \A p \in Phases \ MbaPhases : ClosedIn(p)
    BY ClosingIs
  <1> QED BY <1>1, ClosingHolds, PTL

\* Under a strategy without the MBA service, a memo that calls share is right
\* as a whole: sound, and final where it says so.
THEOREM TrueWithoutMba == MbaPhases = {} /\ Spec => []MemoTrue
  <1> SUFFICES ASSUME MbaPhases = {} PROVE Spec => []MemoTrue
    OBVIOUS
  <1>1. Inv => Sound
    BY SoundIs
  <1>2. Closing => \A p \in Phases \ MbaPhases : ClosedIn(p)
    BY ClosingIs
  <1>3. Inv /\ Closing => MemoTrue
    BY <1>1, <1>2 DEF MemoTrue, MemoClosed
  <1> QED BY <1>3, InvHolds, ClosingHolds, PTL
=============================================================================
