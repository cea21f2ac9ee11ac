------------------------ MODULE RouteSelectionProofs ------------------------
(***************************************************************************)
(* Proofs about RouteSelection, for any resolver content, calls, outcomes   *)
(* and thresholds.                                                          *)
(*                                                                          *)
(* A cached snapshot is fresh because its life is counted from before the   *)
(* request was sent (LoadOK).  Route health is what the outcomes say        *)
(* because the state of a route sums up its streak (HealthOK); that the     *)
(* replay of the log exists and is unique is proved along with it, one      *)
(* outcome at a time, and so needs no induction over the log.               *)
(*                                                                          *)
(* A routed answer serves the request because every candidate that leaves   *)
(* the resolver, the cache or a worker's listing was parsed from an         *)
(* announcement, so what its fields say is declared (ServeInv).  The sort   *)
(* and the split by cooldown then only permute candidates that fitted.      *)
(* The split is a loop, so what it returns is shown turn by turn: the turns *)
(* at which a fact holds form a set, and a set of naturals that has 0 and   *)
(* the successor of each member has them all (Upto).  That there is always  *)
(* a list to answer with (AlwaysRanked) is shown the same way.              *)
(***************************************************************************)
EXTENDS RouteSelection, FiniteSetTheorems, SequenceTheorems, TLAPS

-----------------------------------------------------------------------------
(* Route health.                                                             *)

\* f is the log replayed.
Replays(f) ==
  f = [i \in 0 .. Len(log) |->
         IF i = 0 THEN {} ELSE f[i - 1] \cup {j \in {i} : Starts(f[i - 1], j)}]

\* Functions on one domain are told apart by their values.
LEMMA SameFunction ==
  ASSUME NEW D, NEW f, NEW g, f = [i \in D |-> f[i]], g = [i \in D |-> g[i]],
         \A i \in D : f[i] = g[i]
  PROVE  f = g
OBVIOUS

\* The next number is not among those before it.
LEMMA Beyond == ASSUME NEW n \in Nat, NEW S, S \subseteq 1 .. n PROVE n + 1 \notin S
OBVIOUS

\* Where the log can be replayed, replay is a replay.
LEMMA ReplayReplays ==
  /\ (\E f : Replays(f)) => Replays(replay)
  /\ (\E f : Replays(f)') => Replays(replay)'
  BY ZenonT(60) DEF Replays, replay

\* Every entry of the log has a time, and a penalised outcome was no success.
LogOK ==
  /\ \E S : log \in Seq(S)
  /\ \A i \in 1 .. Len(log) : log[i].at \in Nat /\ (log[i].penalize => ~log[i].ok)

\* The state of a route counts the penalties of its streak and ends its
\* cool-down with the last one that the streak started.
HealthOK(k) ==
  /\ State(k) \in [failures : Nat, until : Nat, lastFailure : Nat, lastSuccess : Nat]
  /\ State(k).failures = Penalties(k, Len(log))
  /\ \A j \in replay[Len(log)] \cap Streak(k, Len(log)) :
        log[j].at + CooldownMs <= State(k).until
  /\ \/ State(k).until = 0
     \/ \E j \in replay[Len(log)] \cap Streak(k, Len(log)) :
           State(k).until = log[j].at + CooldownMs

HealthInv ==
  /\ now \in Nat \ {0}
  /\ LogOK
  /\ \E f : Replays(f)
  /\ \A f, g : Replays(f) /\ Replays(g) => f = g
  /\ replay[Len(log)] \subseteq 1 .. Len(log)
  /\ DOMAIN health = {log[i].key : i \in DOMAIN log}
  /\ \A k : HealthOK(k)
  /\ metrics.cooldowns = Cardinality(replay[Len(log)])

\* Before the first outcome no route has a state.
LEMMA InitHealth == Init => HealthInv
<1> SUFFICES ASSUME Init PROVE HealthInv
  OBVIOUS
<1>1. now = 1 /\ log = <<>> /\ health = <<>> /\ metrics.cooldowns = 0
  BY DEF Init
<1>2. Len(log) = 0 /\ log \in Seq({}) /\ DOMAIN log = {} /\ DOMAIN health = {}
  BY <1>1
<1>3. 0 .. Len(log) = {0}
  BY <1>2
<1>4. LogOK
  BY <1>2 DEF LogOK
<1>5. ASSUME NEW f PROVE Replays(f) <=> f = [i \in {0} |-> {}]
  BY ZenonT(60), <1>3 DEF Replays
<1>6. Replays([i \in {0} |-> {}])
  BY <1>5
<1>7. Replays(replay)
  BY <1>6, ReplayReplays
<1>8. replay[Len(log)] = {}
  BY <1>2, <1>5, <1>7
<1>9. ASSUME NEW k PROVE HealthOK(k)
  <2>1. State(k) = freshState
    BY <1>2 DEF State
  <2>2. Streak(k, Len(log)) = {}
    BY <1>2 DEF Streak
  <2>3. Penalties(k, Len(log)) = 0
    BY <2>2, FS_EmptySet DEF Penalties
  <2> QED BY <1>8, <2>1, <2>2, <2>3 DEF HealthOK, freshState
<1>10. Cardinality(replay[Len(log)]) = 0
  BY <1>8, FS_EmptySet
<1> QED BY SMTT(60), ZenonT(60), <1>1, <1>2, <1>4, <1>5, <1>6, <1>8, <1>9, <1>10 DEF HealthInv

\* The log grows at its end.
LEMMA LogGrows ==
  ASSUME LogOK, NEW e, log' = Append(log, e)
  PROVE  /\ Len(log) \in Nat /\ Len(log') = Len(log) + 1
         /\ DOMAIN log = 1 .. Len(log) /\ DOMAIN log' = 1 .. Len(log) + 1
         /\ \A i \in 1 .. Len(log) : log'[i] = log[i]
         /\ log'[Len(log) + 1] = e
         /\ \E S : log' \in Seq(S)
<1>1. PICK S : log \in Seq(S)
  BY DEF LogOK
<1>2. log \in Seq(S \cup {e})
  BY <1>1, SeqDef
<1>3. log' \in Seq(S \cup {e})
  BY <1>2
<1>4. Len(log) \in Nat /\ Len(log') = Len(log) + 1 /\ DOMAIN log = 1 .. Len(log)
  BY <1>2
<1>5. DOMAIN log' = 1 .. Len(log) + 1
  BY <1>3, <1>4
<1>6. \A i \in 1 .. Len(log) : log'[i] = log[i]
  BY <1>2, <1>4
<1>7. log'[Len(log) + 1] = e
  BY <1>2, <1>4
<1> QED BY SMTT(60), ZenonT(60), <1>3, <1>4, <1>5, <1>6, <1>7

\* An outcome leaves the streaks up to earlier ones alone.
LEMMA StreakPast ==
  ASSUME LogOK, NEW e, log' = Append(log, e), NEW k, NEW i \in 0 .. Len(log)
  PROVE  /\ Streak(k, i)' = Streak(k, i) /\ Penalties(k, i)' = Penalties(k, i)
         /\ Streak(k, i) \subseteq 1 .. i
<1>1. Len(log) \in Nat /\ \A m \in 1 .. i : log'[m] = log[m]
  BY LogGrows
<1>2. ASSUME NEW j \in 1 .. i
      PROVE  log'[j] = log[j] /\ \A m \in j .. i : log'[m] = log[m]
  BY <1>1, <1>2
<1>3. Streak(k, i)' = Streak(k, i)
  BY <1>2 DEF Streak
<1>4. Streak(k, i) \subseteq 1 .. i
  BY DEF Streak
<1>5. {j \in Streak(k, i) : log[j].penalize}' = {j \in Streak(k, i) : log[j].penalize}
  BY <1>2, <1>3, <1>4
<1> QED BY ZenonT(60), <1>3, <1>4, <1>5 DEF Penalties

\* It ends its route's streak or joins it, and leaves the others'.
LEMMA StreakNow ==
  ASSUME LogOK, NEW e, log' = Append(log, e), NEW k
  PROVE  LET n == Len(log)
         IN  /\ k # e.key => Streak(k, Len(log))' = Streak(k, n)
             /\ k = e.key /\ e.ok => Streak(k, Len(log))' = {}
             /\ k = e.key /\ ~e.ok => Streak(k, Len(log))' = Streak(k, n) \cup {n + 1}
<1> DEFINE n == Len(log)
<1>1. /\ n \in Nat /\ \A m \in 1 .. n : log'[m] = log[m]
      /\ log'[n + 1] = e /\ Len(log') = n + 1
  BY LogGrows
<1> HIDE DEF n
<1>2. ASSUME NEW j \in 1 .. n PROVE j .. n + 1 = (j .. n) \cup {n + 1} /\ j .. n \subseteq 1 .. n
  BY <1>1, <1>2
<1>3. 1 .. n + 1 = (1 .. n) \cup {n + 1} /\ (n + 1) .. (n + 1) = {n + 1} /\ n + 1 \notin 1 .. n
  BY <1>1
<1> DEFINE Was(j) == log[j].key = k /\ \A m \in j .. n : log[m].key = k => ~log[m].ok
           Stays(j) == log'[j].key = k /\ \A m \in j .. n + 1 : log'[m].key = k => ~log'[m].ok
<1>4. ASSUME NEW j \in 1 .. n PROVE Stays(j) <=> Was(j) /\ (e.key = k => ~e.ok)
  BY ZenonT(60), <1>1, <1>2, <1>4
<1>5. Stays(n + 1) <=> e.key = k /\ ~e.ok
  BY ZenonT(60), <1>1, <1>3
<1>6. Streak(k, n) = {j \in 1 .. n : Was(j)}
  BY DEF Streak
<1>7. Streak(k, Len(log))' = {j \in 1 .. n + 1 : Stays(j)}
  BY <1>1 DEF Streak
<1> HIDE DEF Was, Stays
<1> QED BY <1>3, <1>4, <1>5, <1>6, <1>7 DEF n

\* What an outcome adds to the penalties of a route.
LEMMA PenaltiesNow ==
  ASSUME LogOK, NEW e, log' = Append(log, e), NEW k
  PROVE  LET p == Penalties(k, Len(log))
         IN  /\ p \in Nat
             /\ k # e.key => Penalties(k, Len(log))' = p
             /\ k = e.key /\ e.ok => Penalties(k, Len(log))' = 0
             /\ k = e.key /\ ~e.ok /\ ~e.penalize => Penalties(k, Len(log))' = p
             /\ k = e.key /\ ~e.ok /\ e.penalize => Penalties(k, Len(log))' = p + 1
<1> DEFINE n == Len(log)
           S == Streak(k, n)
           T == Streak(k, Len(log))'
           P == {j \in S : log[j].penalize}
           Q == {j \in T : log'[j].penalize}
<1>1. /\ n \in Nat /\ \A m \in 1 .. n : log'[m] = log[m]
      /\ log'[n + 1] = e
  BY LogGrows
<1>2. /\ k # e.key => T = S
      /\ k = e.key /\ e.ok => T = {}
      /\ k = e.key /\ ~e.ok => T = S \cup {n + 1}
  BY StreakNow
<1>3. S \subseteq 1 .. n
  BY DEF Streak
<1>4. Penalties(k, Len(log)) = Cardinality(P)
  BY ZenonT(60) DEF Penalties
<1>5. Penalties(k, Len(log))' = Cardinality(Q)
  BY ZenonT(60) DEF Penalties
<1> HIDE DEF S, T
<1>6. P \subseteq 1 .. n
  BY ZenonT(60), <1>3
<1>7. P \subseteq 1 .. n /\ n + 1 \notin 1 .. n
  BY <1>1, <1>6
<1>8. /\ k # e.key => Q = P
      /\ k = e.key /\ e.ok => Q = {}
      /\ k = e.key /\ ~e.ok /\ ~e.penalize => Q = P
      /\ k = e.key /\ ~e.ok /\ e.penalize => Q = P \cup {n + 1}
  BY ZenonT(60), <1>1, <1>2, <1>3
<1> HIDE DEF P, Q, n
<1>9. IsFiniteSet(P) /\ Cardinality(P) \in Nat
  <2>1. IsFiniteSet(1 .. n)
    BY <1>1, FS_Interval
  <2>2. IsFiniteSet(P)
    BY ZenonT(60), <1>7, <2>1, FS_Subset
  <2> QED BY <2>2, FS_CardinalityType
<1>10. Cardinality(P \cup {n + 1}) = Cardinality(P) + 1
  BY ZenonT(60), <1>7, <1>9, FS_AddElement
<1>11. Cardinality({}) = 0
  BY FS_EmptySet
<1> QED BY ZenonT(60), <1>4, <1>5, <1>8, <1>9, <1>10, <1>11

\* The earlier part of a replay is a replay of the earlier log.
LEMMA StartsPast ==
  ASSUME LogOK, NEW e, log' = Append(log, e), NEW i \in 1 .. Len(log), NEW S
  PROVE  Starts(S, i)' <=> Starts(S, i)
<1>1. /\ log'[i] = log[i] /\ \A j \in 1 .. i : log'[j] = log[j]
      /\ i \in 0 .. Len(log)
  BY LogGrows
<1>2. ASSUME NEW k
      PROVE  /\ Streak(k, i)' = Streak(k, i) /\ Penalties(k, i)' = Penalties(k, i)
             /\ Streak(k, i) \subseteq 1 .. i
  BY <1>1, StreakPast
<1>3. \A j \in S \cap Streak(log[i].key, i) : log'[j].at = log[j].at
  BY <1>1, <1>2
<1>4. /\ Streak(log[i].key, i)' = Streak(log[i].key, i)
      /\ Penalties(log[i].key, i)' = Penalties(log[i].key, i)
  BY <1>1, <1>2
<1> QED BY ZenonT(60), <1>1, <1>3, <1>4 DEF Starts

\* The cool-downs that the i-th outcome starts after those of S.
Started(S, i) == {j \in {i} : Starts(S, j)}

\* A replay, position by position.
LEMMA ReplaysDef ==
  ASSUME LogOK, NEW f
  PROVE  Replays(f) <=>
           /\ f = [i \in 0 .. Len(log) |-> f[i]]
           /\ f[0] = {}
           /\ \A i \in 1 .. Len(log) : f[i] = f[i - 1] \cup Started(f[i - 1], i)
<1> DEFINE F(i) == IF i = 0 THEN {} ELSE f[i - 1] \cup Started(f[i - 1], i)
<1>1. Len(log) \in Nat
  BY DEF LogOK
<1>2. Replays(f) <=> f = [i \in 0 .. Len(log) |-> F(i)]
  BY ZenonT(60) DEF Replays, Started
<1> HIDE DEF F
<1>3. Replays(f) <=> /\ f = [i \in 0 .. Len(log) |-> f[i]]
                     /\ \A i \in 0 .. Len(log) : f[i] = F(i)
  BY <1>2
<1>4. F(0) = {} /\ \A i \in 1 .. Len(log) : F(i) = f[i - 1] \cup Started(f[i - 1], i)
  BY <1>1 DEF F
<1>5. 0 .. Len(log) = {0} \cup 1 .. Len(log)
  BY <1>1
<1> QED BY ZenonT(60), <1>3, <1>4, <1>5

\* The replay of a longer log continues that of the shorter one.
LEMMA ReplayGrows ==
  ASSUME LogOK, NEW e, log' = Append(log, e), LogOK', NEW n, n = Len(log),
         NEW r, Replays(r), \A f : Replays(f) => f = r
  PROVE  \E g : /\ Replays(g)' /\ \A f : Replays(f)' => f = g
                /\ g[n + 1] = r[n] \cup Started(r[n], n + 1)'
<1>1. n \in Nat /\ Len(log') = n + 1
  BY LogGrows
<1>2. ASSUME NEW S, NEW i \in 1 .. n PROVE Started(S, i)' = Started(S, i)
  BY <1>2, StartsPast DEF Started
<1>3. /\ r = [i \in 0 .. n |-> r[i]] /\ r[0] = {}
      /\ \A i \in 1 .. n : r[i] = r[i - 1] \cup Started(r[i - 1], i)
  BY ReplaysDef
<1>4. ASSUME NEW f
      PROVE  Replays(f)' <=>
               /\ f = [i \in 0 .. n + 1 |-> f[i]]
               /\ f[0] = {}
               /\ \A i \in 1 .. n + 1 : f[i] = f[i - 1] \cup Started(f[i - 1], i)'
  <2> DEFINE F(i) == IF i = 0 THEN {} ELSE f[i - 1] \cup Started(f[i - 1], i)'
  <2>1. Replays(f)' <=> f = [i \in 0 .. Len(log') |-> F(i)]
    BY ZenonT(60) DEF Replays, Started
  <2> HIDE DEF F
  <2>2. Replays(f)' <=> /\ f = [i \in 0 .. n + 1 |-> f[i]]
                        /\ \A i \in 0 .. n + 1 : f[i] = F(i)
    BY <1>1, <2>1
  <2>3. F(0) = {} /\ \A i \in 1 .. n + 1 : F(i) = f[i - 1] \cup Started(f[i - 1], i)'
    BY <1>1 DEF F
  <2>4. 0 .. n + 1 = {0} \cup 1 .. n + 1
    BY <1>1
  <2> QED BY <2>2, <2>3, <2>4
<1>5. PICK last : last = r[n] \cup Started(r[n], n + 1)'
  BY ZenonT(60)
<1> DEFINE g == [i \in 0 .. n + 1 |-> IF i = n + 1 THEN last ELSE r[i]]
<1>6. Replays(g)' /\ g[n + 1] = last
  <2>1. g[0] = {} /\ g[n + 1] = last /\ g[n] = r[n] /\ g = [i \in 0 .. n + 1 |-> g[i]]
    BY <1>1, <1>3
  <2>2. ASSUME NEW i \in 1 .. n PROVE g[i] = g[i - 1] \cup Started(g[i - 1], i)'
    <3>1. g[i] = r[i] /\ g[i - 1] = r[i - 1]
      BY <1>1
    <3>2. r[i] = r[i - 1] \cup Started(r[i - 1], i)
      BY <1>3
    <3>3. Started(r[i - 1], i)' = Started(r[i - 1], i)
      BY <1>2
    <3> HIDE DEF g
    <3> QED BY <3>1, <3>2, <3>3
  <2>3. g[n + 1] = g[(n + 1) - 1] \cup Started(g[(n + 1) - 1], n + 1)'
    BY <1>1, <1>5, <2>1
  <2>4. 1 .. n + 1 = (1 .. n) \cup {n + 1}
    BY <1>1
  <2> HIDE DEF g
  <2> QED BY ZenonT(60), <1>4, <2>1, <2>2, <2>3, <2>4
<1>7. ASSUME NEW f, Replays(f)' PROVE f = g
  <2> DEFINE h == [i \in 0 .. n |-> f[i]]
  <2>1. /\ f = [i \in 0 .. n + 1 |-> f[i]] /\ f[0] = {}
        /\ \A i \in 1 .. n + 1 : f[i] = f[i - 1] \cup Started(f[i - 1], i)'
    BY <1>4, <1>7
  <2>2. h = [i \in 0 .. n |-> h[i]] /\ h[0] = {}
    BY SMTT(60), ZenonT(60), <1>1, <2>1
  <2>3. ASSUME NEW i \in 1 .. n PROVE h[i] = h[i - 1] \cup Started(h[i - 1], i)
    <3>1. h[i] = f[i] /\ h[i - 1] = f[i - 1] /\ i \in 1 .. n + 1
      BY <1>1
    <3>2. f[i] = f[i - 1] \cup Started(f[i - 1], i)'
      BY <2>1, <3>1
    <3>3. Started(f[i - 1], i)' = Started(f[i - 1], i)
      BY <1>2
    <3> HIDE DEF h
    <3> QED BY <3>1, <3>2, <3>3
  <2> HIDE DEF h
  <2>4. Replays(h)
    BY ZenonT(60), <2>2, <2>3, ReplaysDef
  <2>5. h = r
    BY <2>4
  <2>6. \A i \in 0 .. n : f[i] = r[i]
    BY <2>5 DEF h
  <2>7. f[n + 1] = last
    <3>1. f[n + 1] = f[(n + 1) - 1] \cup Started(f[(n + 1) - 1], n + 1)'
      BY <1>1, <2>1
    <3> QED BY <1>1, <1>5, <2>6, <3>1
  <2>8. \A i \in 0 .. n + 1 : i = n + 1 \/ i \in 0 .. n
    BY <1>1
  <2>9. \A i \in 0 .. n + 1 : f[i] = IF i = n + 1 THEN last ELSE r[i]
    BY ZenonT(60), <2>6, <2>7, <2>8
  <2>10. f = [i \in 0 .. n + 1 |-> f[i]]
    BY ZenonT(60), <2>1
  <2>11. g = [i \in 0 .. n + 1 |-> g[i]] /\ \A i \in 0 .. n + 1 : f[i] = g[i]
    BY ZenonT(60), <2>9
  <2> HIDE DEF g
  <2> QED BY ZenonT(60), <2>10, <2>11, SameFunction
<1> QED BY ZenonT(60), <1>5, <1>6, <1>7

\* What the tracker makes of the state of a route.
Reported(h, o) ==
  IF o.ok THEN Succeeded(h)
  ELSE IF classifyV2Failure(o.code, o.status).penalize THEN Penalised(h) ELSE Failed(h)

\* The outcome as it is logged, and what the tracker does with it.
LEMMA RecordStep ==
  ASSUME NEW a, NEW o, record(a, o), now' = now
  PROVE  \E e, k :
           /\ e.key = k /\ (e.ok <=> o.ok) /\ e.at = now
           /\ e.penalize <=> ~o.ok /\ classifyV2Failure(o.code, o.status).penalize
           /\ log' = Append(log, e)
           /\ health' = Put(health, k, Reported(State(k), o))
           /\ metrics'.cooldowns = metrics.cooldowns
                + (IF e.penalize /\ Opens(State(k)) THEN 1 ELSE 0)
<1> DEFINE v == classifyV2Failure(o.code, o.status)
           class == IF o.ok THEN [retryable |-> FALSE, penalize |-> FALSE] ELSE v
           k == keyOf(a)
           e == [key |-> k, ok |-> o.ok, penalize |-> class.penalize, at |-> now]
<1>1. v.penalize => v.retryable
  BY DEF classifyV2Failure
<1>2. class.penalize <=> ~o.ok /\ v.penalize
  BY DEF classifyV2Failure
<1>3. log' = Append(log, e)
  BY ZenonT(60) DEF record
<1>4. health' = Put(health, k, IF o.ok THEN Succeeded(State(k))
                               ELSE IF class.retryable /\ class.penalize
                               THEN Penalised(State(k)) ELSE Failed(State(k)))
  BY ZenonT(60) DEF record
<1>5. health' = Put(health, k, Reported(State(k), o))
  <2>1. o.ok \/ (class.retryable /\ class.penalize <=> v.penalize)
    BY <1>1
  <2> HIDE DEF v, class, k
  <2> QED BY ZenonT(60), <1>4, <2>1 DEF Reported, v
<1>6. metrics'.cooldowns = metrics.cooldowns
        + (IF ~o.ok /\ class.penalize /\ Opens(State(k)) THEN 1 ELSE 0)
  BY DEF record
<1>7. e.key = k /\ (e.ok <=> o.ok) /\ e.at = now /\ (e.penalize <=> class.penalize)
  BY ZenonT(60)
<1> HIDE DEF v, class, k, e
<1>8. metrics'.cooldowns = metrics.cooldowns
        + (IF e.penalize /\ Opens(State(k)) THEN 1 ELSE 0)
  BY <1>2, <1>6, <1>7
<1> QED BY ZenonT(60), <1>2, <1>3, <1>5, <1>7, <1>8 DEF v

\* Where the next state of each route comes from.
LEMMA StateNow ==
  ASSUME NEW k, NEW h, health' = Put(health, k, h)
  PROVE  /\ State(k)' = h
         /\ \A x : x # k => State(x)' = State(x)
         /\ DOMAIN health' = DOMAIN health \cup {k}
  BY ZenonT(60) DEF State, Put, freshState

RouteStates == [failures : Nat, until : Nat, lastFailure : Nat, lastSuccess : Nat]

\* What the tracker makes of the state of a route, field by field.
LEMMA ReportedOK ==
  ASSUME now \in Nat, NEW h \in RouteStates, NEW o
  PROVE  LET p == ~o.ok /\ classifyV2Failure(o.code, o.status).penalize
             g == Reported(h, o)
         IN  /\ g \in RouteStates
             /\ o.ok => g.failures = 0 /\ g.until = 0
             /\ p => g.failures = h.failures + 1
             /\ p /\ Opens(h) => g.until = now + CooldownMs
             /\ p /\ ~Opens(h) => g.until = h.until
             /\ ~o.ok /\ ~p => g.failures = h.failures /\ g.until = h.until
<1> DEFINE p == ~o.ok /\ classifyV2Failure(o.code, o.status).penalize
           g == Reported(h, o)
<1>1. CooldownMs \in Nat /\ 0 \in Nat
  BY RouteAssumption
<1>2. CASE o.ok
  <2>1. g = [h EXCEPT !.failures = 0, !.until = 0, !.lastSuccess = now]
    BY <1>2 DEF Reported, Succeeded
  <2>2. g \in RouteStates /\ g.failures = 0 /\ g.until = 0
    BY ZenonT(60), <1>1, <2>1 DEF RouteStates
  <2> QED BY <1>2, <2>2
<1>3. CASE p
  <2>1. g = [h EXCEPT !.failures = h.failures + 1, !.lastFailure = now,
                      !.until = IF Opens(h) THEN now + CooldownMs ELSE h.until]
    BY ZenonT(60), <1>3 DEF Reported, Penalised, RouteStates
  <2>2. h.failures + 1 \in Nat /\ now + CooldownMs \in Nat
    BY <1>1 DEF RouteStates
  <2>3. /\ g \in RouteStates /\ g.failures = h.failures + 1
        /\ g.until = IF Opens(h) THEN now + CooldownMs ELSE h.until
    BY ZenonT(60), <2>1, <2>2 DEF RouteStates
  <2> QED BY <1>3, <2>3
<1>4. CASE ~o.ok /\ ~p
  <2>1. g = [h EXCEPT !.lastFailure = now]
    BY <1>4 DEF Reported, Failed
  <2>2. g \in RouteStates /\ g.failures = h.failures /\ g.until = h.until
    BY ZenonT(60), <2>1 DEF RouteStates
  <2> QED BY <1>4, <2>2
<1> QED BY <1>2, <1>3, <1>4

\* A penalised outcome starts a cool-down exactly when the tracker opens one.
LEMMA StartsOpens ==
  ASSUME LogOK, now \in Nat, NEW e, NEW k, e.key = k, ~e.ok, e.at = now,
         log' = Append(log, e), NEW n, n = Len(log),
         NEW R, R = replay[Len(log)], R \subseteq 1 .. n, HealthOK(k)
  PROVE  Starts(R, n + 1)' <=> e.penalize /\ Opens(State(k))
<1>1. /\ n \in Nat /\ Len(log') = n + 1 /\ \A m \in 1 .. n : log'[m] = log[m]
      /\ log'[n + 1] = e
  BY LogGrows
<1>2. Streak(k, n + 1)' = Streak(k, n) \cup {n + 1} /\ Streak(k, n) \subseteq 1 .. n
  <2>1. Streak(k, Len(log))' = Streak(k, Len(log)) \cup {n + 1}
    BY StreakNow
  <2> QED BY <1>1, <2>1 DEF Streak
<1>3. e.penalize => Penalties(k, n + 1)' = State(k).failures + 1
  <2>1. e.penalize => Penalties(k, Len(log))' = Penalties(k, Len(log)) + 1
    BY PenaltiesNow
  <2>2. Penalties(k, Len(log))' = Penalties(k, n + 1)'
    BY <1>1 DEF Penalties, Streak
  <2> QED BY <2>1, <2>2 DEF HealthOK
<1>4. R \cap (Streak(k, n) \cup {n + 1}) = R \cap Streak(k, n)
  BY <1>1
<1>5. \A j \in R \cap Streak(k, n) : log'[j] = log[j] /\ log[j].at \in Nat
  BY <1>1 DEF LogOK
<1>6. (\A j \in R \cap Streak(k, n) : now >= log[j].at + CooldownMs) <=> State(k).until <= now
  <2>1. State(k).until \in Nat /\ CooldownMs \in Nat
    BY RouteAssumption DEF HealthOK
  <2>2. /\ \A j \in R \cap Streak(k, n) : log[j].at + CooldownMs <= State(k).until
        /\ \/ State(k).until = 0
           \/ \E j \in R \cap Streak(k, n) : State(k).until = log[j].at + CooldownMs
    BY DEF HealthOK
  <2> QED BY SMTT(60), ZenonT(60), <1>5, <2>1, <2>2
<1>7. Starts(R, n + 1)' <=>
        /\ e.penalize /\ Penalties(k, n + 1)' >= Threshold
        /\ \A j \in R \cap Streak(k, n + 1)' : e.at >= log'[j].at + CooldownMs
  BY ZenonT(60), <1>1 DEF Starts
<1>8. Starts(R, n + 1)' <=>
        /\ e.penalize /\ State(k).failures + 1 >= Threshold
        /\ \A j \in R \cap Streak(k, n) : now >= log[j].at + CooldownMs
  BY ZenonT(60), <1>2, <1>3, <1>4, <1>5, <1>7
<1> QED BY <1>6, <1>8 DEF Opens

\* A reported outcome keeps every route's state what its streak says.
LEMMA RecordOK ==
  ASSUME LogOK, now \in Nat, NEW e, NEW k, e.key = k, e.at = now, log' = Append(log, e),
         NEW n, n = Len(log), NEW R, R = replay[Len(log)], R \subseteq 1 .. n,
         NEW o, e.ok <=> o.ok,
         e.penalize <=> ~o.ok /\ classifyV2Failure(o.code, o.status).penalize,
         health' = Put(health, k, Reported(State(k), o)),
         replay[Len(log)]' = R \cup Started(R, n + 1)',
         \A x : HealthOK(x), NEW x
  PROVE  HealthOK(x)'
<1> DEFINE s == State(x)
           S == Streak(x, Len(log))
<1>1. /\ n \in Nat /\ Len(log') = n + 1 /\ \A m \in 1 .. n : log'[m] = log[m]
      /\ log'[n + 1] = e /\ CooldownMs \in Nat
  BY LogGrows, RouteAssumption
<1>2. /\ s \in RouteStates /\ s.failures = Penalties(x, Len(log))
      /\ \A j \in R \cap S : log[j].at + CooldownMs <= s.until
      /\ s.until = 0 \/ \E j \in R \cap S : s.until = log[j].at + CooldownMs
  BY ZenonT(60) DEF HealthOK, RouteStates
<1>3. S \subseteq 1 .. n
  BY DEF Streak
<1>4. \A j \in R : log'[j] = log[j]
  BY <1>1
<1>5. SUFFICES
        /\ State(x)' \in RouteStates
        /\ State(x)'.failures = Penalties(x, Len(log))'
        /\ \A j \in replay[Len(log)]' \cap Streak(x, Len(log))' :
              log'[j].at + CooldownMs <= State(x)'.until
        /\ \/ State(x)'.until = 0
           \/ \E j \in replay[Len(log)]' \cap Streak(x, Len(log))' :
                 State(x)'.until = log'[j].at + CooldownMs
  BY ZenonT(60) DEF HealthOK, RouteStates
<1>6. Started(R, n + 1)' \subseteq {n + 1}
  BY ZenonT(60) DEF Started
<1>b. n + 1 \notin S
  <2> HIDE DEF S
  <2> QED BY ZenonT(60), <1>1, <1>3, Beyond
<1>7. CASE x # k
  <2>1. State(x)' = s /\ Streak(x, Len(log))' = S
        /\ Penalties(x, Len(log))' = Penalties(x, Len(log))
    BY ZenonT(60), <1>7, StateNow, StreakNow, PenaltiesNow
  <2>2. replay[Len(log)]' \cap S = R \cap S
    BY ZenonT(60), <1>6, <1>b
  <2> HIDE DEF s, S
  <2> QED BY <1>2, <1>4, <2>1, <2>2
<1>8. CASE x = k /\ e.ok
  <2>1. State(x)' = Reported(s, o) /\ Streak(x, Len(log))' = {} /\ Penalties(x, Len(log))' = 0
    BY ZenonT(60), <1>8, StateNow, StreakNow, PenaltiesNow
  <2>2. Reported(s, o) \in RouteStates /\ Reported(s, o).failures = 0 /\ Reported(s, o).until = 0
    BY ZenonT(60), <1>2, <1>8, ReportedOK
  <2> HIDE DEF s
  <2> QED BY <2>1, <2>2
<1>9. CASE x = k /\ ~e.ok
  <2> DEFINE g == Reported(s, o)
             p == ~o.ok /\ classifyV2Failure(o.code, o.status).penalize
  <2>1. State(x)' = g /\ Streak(x, Len(log))' = S \cup {n + 1}
    BY ZenonT(60), <1>9, StateNow, StreakNow
  <2>2. Started(R, n + 1)' = {j \in {n + 1} : e.penalize /\ Opens(s)}
    <3>1. ~e.ok /\ HealthOK(k) /\ s = State(k)
      BY <1>9
    <3>2. Starts(R, n + 1)' <=> e.penalize /\ Opens(State(k))
      BY ZenonT(60), <3>1, StartsOpens
    <3> QED BY ZenonT(60), <3>1, <3>2 DEF Started
  <2>3. (p <=> e.penalize) /\ ~o.ok
    BY SMTT(60), ZenonT(60), <1>9
  <2>4. /\ g \in RouteStates
        /\ p => g.failures = s.failures + 1
        /\ p /\ Opens(s) => g.until = now + CooldownMs
        /\ p /\ ~Opens(s) => g.until = s.until
        /\ ~p => g.failures = s.failures /\ g.until = s.until
    BY ZenonT(60), <1>2, <2>3, ReportedOK
  <2>5. g.failures = Penalties(x, Len(log))'
    <3>1. /\ e.penalize => Penalties(x, Len(log))' = Penalties(x, Len(log)) + 1
          /\ ~e.penalize => Penalties(x, Len(log))' = Penalties(x, Len(log))
      BY ZenonT(60), <1>9, PenaltiesNow
    <3> HIDE DEF s, g, p
    <3> QED BY ZenonT(60), <1>2, <2>3, <2>4, <3>1
  <2> HIDE DEF s, S, g, p
  <2>6. CASE p /\ Opens(s)
    <3>1. replay[Len(log)]' \cap (S \cup {n + 1}) = (R \cap S) \cup {n + 1}
      BY ZenonT(60), <1>1, <1>3, <2>2, <2>3, <2>6
    <3>2. s.until <= now /\ s.until \in Nat
      BY ZenonT(60), <1>2, <2>6 DEF Opens, RouteStates
    <3>3. ASSUME NEW j \in (R \cap S) \cup {n + 1}
          PROVE  log'[j].at + CooldownMs <= now + CooldownMs
      <4>1. CASE j = n + 1
        BY SMTT(60), ZenonT(60), <1>1, <4>1
      <4>2. CASE j \in R \cap S
        <5>1. log'[j] = log[j] /\ log[j].at \in Nat /\ log[j].at + CooldownMs <= s.until
          BY ZenonT(60), <1>1, <1>2, <1>4, <4>2 DEF LogOK
        <5> QED BY SMTT(60), ZenonT(60), <1>1, <3>2, <5>1
      <4> QED BY ZenonT(60), <4>1, <4>2
    <3>4. log'[n + 1].at = now
      BY ZenonT(60), <1>1
    <3> QED BY ZenonT(60), SMTT(60), <2>1, <2>4, <2>5, <2>6, <3>1, <3>3, <3>4
  <2>7. CASE ~(p /\ Opens(s))
    <3>1. replay[Len(log)]' \cap (S \cup {n + 1}) = R \cap S
      <4>1. Started(R, n + 1)' = {}
        BY ZenonT(60), <2>2, <2>3, <2>7
      <4>2. n + 1 \notin R
        BY ZenonT(60), <1>1, Beyond
      <4> QED BY ZenonT(60), <1>b, <4>1, <4>2
    <3>2. g.until = s.until
      BY <2>4, <2>7
    <3> QED BY ZenonT(60), <1>2, <1>4, <2>1, <2>4, <2>5, <3>1, <3>2
  <2> QED BY ZenonT(60), <2>6, <2>7
<1> QED BY ZenonT(60), <1>7, <1>8, <1>9

\* Recording an outcome keeps the invariant.
LEMMA RecordHealth ==
  ASSUME HealthInv, NEW a, NEW o, record(a, o), now' = now
  PROVE  HealthInv'
<1>0. /\ now \in Nat \ {0} /\ LogOK /\ \A x : HealthOK(x)
      /\ replay[Len(log)] \subseteq 1 .. Len(log)
      /\ metrics.cooldowns = Cardinality(replay[Len(log)])
  BY DEF HealthInv
<1>1. PICK e, k :
           /\ e.key = k /\ (e.ok <=> o.ok) /\ e.at = now
           /\ e.penalize <=> ~o.ok /\ classifyV2Failure(o.code, o.status).penalize
           /\ log' = Append(log, e)
           /\ health' = Put(health, k, Reported(State(k), o))
           /\ metrics'.cooldowns = metrics.cooldowns
                + (IF e.penalize /\ Opens(State(k)) THEN 1 ELSE 0)
  BY ZenonT(60), RecordStep
<1>2. PICK n, R : n = Len(log) /\ R = replay[Len(log)]
  BY ZenonT(60)
<1>3. /\ n \in Nat /\ Len(log') = n + 1 /\ \A i \in 1 .. n : log'[i] = log[i]
      /\ DOMAIN log = 1 .. n /\ DOMAIN log' = 1 .. n + 1 /\ log'[n + 1] = e
      /\ \E S : log' \in Seq(S)
  BY ZenonT(60), <1>0, <1>1, <1>2, LogGrows
<1>4. LogOK'
  <2>1. ASSUME NEW i \in 1 .. n + 1
        PROVE  log'[i].at \in Nat /\ (log'[i].penalize => ~log'[i].ok)
    <3>1. CASE i = n + 1
      BY ZenonT(60), <1>0, <1>1, <1>3, <3>1
    <3>2. CASE i \in 1 .. n
      BY ZenonT(60), <1>0, <1>2, <1>3, <3>2 DEF LogOK
    <3> QED BY SMTT(60), ZenonT(60), <1>3, <3>1, <3>2
  <2> QED BY <1>3, <2>1 DEF LogOK
<1>5. /\ \E f : Replays(f)'
      /\ \A f, g : Replays(f)' /\ Replays(g)' => f = g
      /\ replay[Len(log)]' = R \cup Started(R, n + 1)'
  <2>1. PICK r : Replays(r) /\ \A f : Replays(f) => f = r
    BY ZenonT(60) DEF HealthInv
  <2>2. r = replay /\ r[n] = R
    BY <1>2, <2>1, ReplayReplays
  <2>3. PICK g : /\ Replays(g)' /\ \A f : Replays(f)' => f = g
                 /\ g[n + 1] = r[n] \cup Started(r[n], n + 1)'
    BY ZenonT(60), <1>0, <1>1, <1>2, <1>4, <2>1, ReplayGrows
  <2>4. replay' = g
    BY ZenonT(60), <2>3, ReplayReplays
  <2>5. replay[Len(log)]' = R \cup Started(R, n + 1)'
    BY ZenonT(60), <1>3, <2>2, <2>3, <2>4
  <2> QED BY ZenonT(60), <2>3, <2>5
<1>6. \A x : HealthOK(x)'
  BY ZenonT(60), <1>0, <1>1, <1>2, <1>5, RecordOK
<1>7. R \subseteq 1 .. n /\ n + 1 \notin R
  BY <1>0, <1>2, <1>3
<1>8. \A j : j \in Started(R, n + 1)' <=> j = n + 1 /\ Starts(R, n + 1)'
  BY ZenonT(60) DEF Started
<1>9. replay[Len(log)]' \subseteq 1 .. n + 1
  <2>1. \A j \in R : j \in 1 .. n + 1
    BY <1>3, <1>7
  <2>2. \A j \in Started(R, n + 1)' : j \in 1 .. n + 1
    BY <1>3, <1>8
  <2> QED BY ZenonT(60), <1>5, <2>1, <2>2
<1>10. Starts(R, n + 1)' <=> e.penalize /\ Opens(State(k))
  <2>1. CASE e.ok
    <3>1. ~e.penalize
      BY <1>1, <2>1
    <3> QED BY ZenonT(60), <1>3, <3>1 DEF Starts
  <2>2. CASE ~e.ok
    BY ZenonT(60), <1>0, <1>1, <1>2, <1>7, <2>2, StartsOpens
  <2> QED BY <2>1, <2>2
<1>11. metrics'.cooldowns = Cardinality(replay[Len(log)]')
  <2>1. IsFiniteSet(1 .. n)
    BY <1>3, FS_Interval
  <2>2. IsFiniteSet(R)
    BY ZenonT(60), <1>7, <2>1, FS_Subset
  <2>3. Cardinality(R) \in Nat /\ Cardinality(R \cup {n + 1}) = Cardinality(R) + 1
    BY ZenonT(60), <1>7, <2>2, FS_AddElement, FS_CardinalityType
  <2>4. CASE e.penalize /\ Opens(State(k))
    <3>1. replay[Len(log)]' = R \cup {n + 1}
      BY ZenonT(60), <1>5, <1>8, <1>10, <2>4
    <3> QED BY ZenonT(60), <1>0, <1>1, <1>2, <2>3, <2>4, <3>1
  <2>5. CASE ~(e.penalize /\ Opens(State(k)))
    <3>1. replay[Len(log)]' = R
      BY ZenonT(60), <1>5, <1>8, <1>10, <2>5
    <3>2. metrics'.cooldowns = metrics.cooldowns + 0 /\ metrics.cooldowns = Cardinality(R)
      BY ZenonT(60), <1>0, <1>1, <1>2, <2>5
    <3>3. metrics.cooldowns + 0 = metrics.cooldowns
      BY <2>3, <3>2
    <3> QED BY ZenonT(60), <3>1, <3>2, <3>3
  <2> QED BY <2>4, <2>5
<1>12. DOMAIN health' = {log'[i].key : i \in DOMAIN log'}
  <2>1. DOMAIN health' = DOMAIN health \cup {k}
    BY ZenonT(60), <1>1, StateNow
  <2>2. DOMAIN health = {log[i].key : i \in 1 .. n}
    BY ZenonT(60), <1>3 DEF HealthInv
  <2>3. {log'[i].key : i \in 1 .. n + 1} = {log[i].key : i \in 1 .. n} \cup {k}
    <3>1. 1 .. n + 1 = (1 .. n) \cup {n + 1}
      BY <1>3
    <3> QED BY SMTT(60), ZenonT(60), <1>1, <1>3, <3>1
  <2> QED BY ZenonT(60), <1>3, <2>1, <2>2, <2>3
<1> QED BY ZenonT(60), <1>0, <1>3, <1>4, <1>5, <1>6, <1>9, <1>11, <1>12 DEF HealthInv

\* Other steps leave the log and the tracker alone.
LEMMA ReplaySame ==
  ASSUME log' = log
  PROVE  /\ replay' = replay
         /\ \A f : Replays(f)' <=> Replays(f)
         /\ \A k, i : Streak(k, i)' = Streak(k, i) /\ Penalties(k, i)' = Penalties(k, i)
<1>1. \A k, i : Streak(k, i)' = Streak(k, i)
  BY DEF Streak
<1>2. \A k, i : Penalties(k, i)' = Penalties(k, i)
  BY <1>1 DEF Penalties
<1>3. \A S, i : Starts(S, i)' <=> Starts(S, i)
  BY <1>1, <1>2 DEF Starts
<1>4. \A f : Replays(f)' <=> Replays(f)
  BY <1>3 DEF Replays
<1>5. replay' = replay
  BY SMTT(60), ZenonT(60), <1>3 DEF replay
<1> QED BY ZenonT(60), <1>1, <1>2, <1>4, <1>5

\* So does a step that reports none, whether or not it moves the clock.
LEMMA StillHealthy ==
  ASSUME HealthInv, UNCHANGED <<log, health, metrics>>, now' \in {now, now + 1}
  PROVE  HealthInv'
<1>1. /\ replay' = replay /\ \A f : Replays(f)' <=> Replays(f)
      /\ \A k, i : Streak(k, i)' = Streak(k, i) /\ Penalties(k, i)' = Penalties(k, i)
  BY ReplaySame
<1>2. \A k : State(k)' = State(k)
  BY DEF State
<1>3. ASSUME NEW k PROVE HealthOK(k)'
  <2>1. HealthOK(k)
    BY DEF HealthInv
  <2>2. Streak(k, Len(log))' = Streak(k, Len(log)) /\ Penalties(k, Len(log))' = Penalties(k, Len(log))
    BY <1>1
  <2> QED BY ZenonT(60), <1>1, <1>2, <2>1, <2>2 DEF HealthOK
<1>4. now' \in Nat \ {0} /\ LogOK'
  BY DEF HealthInv, LogOK
<1> QED BY ZenonT(60), <1>1, <1>3, <1>4 DEF HealthInv

\* Every step keeps the health invariant.
LEMMA NextHealth == HealthInv /\ [Next]_vars => HealthInv'
<1> SUFFICES ASSUME HealthInv, [Next]_vars PROVE HealthInv'
  OBVIOUS
<1>1. ASSUME NEW c, NEW o, recordOutcome(c, o) PROVE HealthInv'
  BY ZenonT(60), <1>1, RecordHealth DEF recordOutcome
<1>2. ASSUME NEW c, NEW q, select(c, q) \/ selectWorker(c, q) \/ inspect(c, q) PROVE HealthInv'
  BY ZenonT(60), <1>2, StillHealthy DEF select, selectWorker, inspect, allButCall
<1>3. ASSUME NEW c, selectMany(c) \/ listKnown(c) \/ ResolverFails(c) PROVE HealthInv'
  BY ZenonT(60), <1>3, StillHealthy DEF selectMany, listKnown, ResolverFails, allButCall
<1>4. ASSUME NEW c, loadSelectSnapshot(c) \/ loadSnapshot(c) \/ storeAgain(c) PROVE HealthInv'
  BY ZenonT(60), <1>4, StillHealthy DEF loadSelectSnapshot, loadSnapshot, storeAgain
<1>5. ASSUME NEW c, NEW eth, resolveByAddress(c, eth) PROVE HealthInv'
  BY ZenonT(60), <1>5, StillHealthy DEF resolveByAddress, allButCall
<1>6. ASSUME NEW url, suppressBroker(url) \/ unsuppressBroker(url) PROVE HealthInv'
  BY ZenonT(60), <1>6, StillHealthy DEF suppressBroker, unsuppressBroker
<1>7. CASE Relist \/ Tick \/ UNCHANGED vars
  BY <1>7, StillHealthy DEF Relist, Tick, vars
<1> QED BY ZenonT(60), <1>1, <1>2, <1>3, <1>4, <1>5, <1>6, <1>7 DEF Next

\* The cool-downs of the tracker are those the reported outcomes call for.
LEMMA HealthImplies == HealthInv => HealthFromHistory
<1> SUFFICES ASSUME HealthInv PROVE HealthFromHistory
  OBVIOUS
<1> DEFINE Tracked == {log[i].key : i \in DOMAIN log}
<1>1. ASSUME NEW k PROVE isCoolingDown(k) <=> Cools(k)
  <2>1. HealthOK(k) /\ now \in Nat /\ CooldownMs \in Nat /\ State(k).until \in Nat
    BY RouteAssumption DEF HealthInv, HealthOK
  <2>2. \A j \in replay[Len(log)] \cap Streak(k, Len(log)) : log[j].at \in Nat
    BY DEF HealthInv, LogOK
  <2> DEFINE S == replay[Len(log)] \cap Streak(k, Len(log))
             u == State(k).until
  <2>3. /\ u \in Nat /\ \A j \in S : log[j].at \in Nat /\ log[j].at + CooldownMs <= u
        /\ u = 0 \/ \E j \in S : u = log[j].at + CooldownMs
    BY ZenonT(60), <2>1, <2>2 DEF HealthOK
  <2> HIDE DEF S, u
  <2>4. u > now <=> \E j \in S : now < log[j].at + CooldownMs
    BY <2>1, <2>3
  <2> QED BY ZenonT(60), <2>4 DEF isCoolingDown, Cools, S, u
<1>2. DOMAIN health = Tracked /\ metrics.cooldowns = Cardinality(replay[Len(log)])
  BY DEF HealthInv
<1>3. {k \in DOMAIN health : isCoolingDown(k)} = {k \in Tracked : Cools(k)}
  BY <1>1, <1>2
<1>4. summarizeRouteHealth.cooling = Cardinality({k \in DOMAIN health : isCoolingDown(k)})
  BY ZenonT(60) DEF summarizeRouteHealth
<1> QED BY ZenonT(60), <1>1, <1>2, <1>3, <1>4 DEF HealthFromHistory

\* The health of every route, the summary and the cool-down counter are what
\* the log of outcomes says, for any threshold, cool-down, routes and
\* outcomes.
THEOREM HealthFromHistoryHolds == Spec => []HealthFromHistory
BY InitHealth, NextHealth, HealthImplies, PTL DEF Spec

-----------------------------------------------------------------------------
(* Snapshots of the resolver.                                                *)

Places == {"idle", "asking", "loaded", "resolving", "hit", "answered", "over"}

\* A call has its fields, with times where the clock was read.
Shape(w) ==
  w \in [pc : Places, req : {w.req}, at : Nat, asOf : Nat, left : {w.left},
         got : {w.got}, answer : {w.answer}]

\* A load knows a time before its request was sent, and one at which the
\* resolver had what it answered.
LoadOK(w) ==
  /\ Shape(w)
  /\ w.pc \in {"loaded", "resolving"} => w.at <= w.asOf
  /\ w.pc = "asking" => w.at <= now
  /\ w.pc = "hit" => w.at <= w.asOf + TTL

\* A snapshot is used no longer than a TTL after what it shows was true.
SnapshotOK(s) == s.asOf \in Nat /\ s.expiresAt \in Nat /\ s.expiresAt <= s.asOf + TTL

CallsOK ==
  /\ call \in [Calls -> {call[c] : c \in Calls}]
  /\ \A c \in Calls : LoadOK(call[c])

FreshInv ==
  /\ now \in Nat
  /\ CallsOK
  /\ \A key \in DOMAIN cache : SnapshotOK(cache[key])

\* A call that has not begun.
LEMMA IdleOK == LoadOK(Idle) /\ Idle.pc = "idle"
  BY DEF LoadOK, Shape, Places, Idle

\* With an empty cache and no call, nothing is stale.
LEMMA InitFresh == Init => FreshInv
<1> SUFFICES ASSUME Init PROVE FreshInv
  OBVIOUS
<1>1. call = [c \in Calls |-> Idle] /\ cache = <<>> /\ now = 1
  BY DEF Init
<1>2. CallsOK
  BY ZenonT(60), <1>1, IdleOK DEF CallsOK
<1> QED BY <1>1, <1>2 DEF FreshInv

\* What a step makes of a call it answers or ends.
LEMMA AnswerOK ==
  ASSUME NEW w, Shape(w), NEW asOf \in Nat, NEW answer
  PROVE  /\ LoadOK(Answer(w, asOf, answer)) /\ Answer(w, asOf, answer).pc = "answered"
         /\ Answer(w, asOf, answer).asOf = asOf
<1>1. Shape(Answer(w, asOf, answer))
  BY ZenonT(60) DEF Shape, Places, Answer
<1>2. Answer(w, asOf, answer).pc = "answered" /\ Answer(w, asOf, answer).asOf = asOf
  BY DEF Shape, Answer
<1> QED BY <1>1, <1>2 DEF LoadOK

\* A call that threw.
LEMMA OverOK == LoadOK(Over) /\ Over.pc = "over"
<1>1. Shape(Over) /\ Over.pc = "over"
  BY DEF Shape, Places, Over, Idle
<1> QED BY <1>1 DEF LoadOK

\* What SnapshotFresh says of a step.
FreshStep ==
  \A c \in Calls :
     call[c].pc = "idle" /\ call'[c].pc \in {"answered", "hit"} => now - call'[c].asOf < TTL

\* A step of one call.
LEMMA CallStep ==
  ASSUME FreshInv, NEW c \in Calls, NEW w, LoadOK(w), now' = now,
         call' = [call EXCEPT ![c] = w],
         call[c].pc = "idle" /\ w.pc \in {"answered", "hit"} => now - w.asOf < TTL
  PROVE  CallsOK' /\ FreshStep
<1>1. call'[c] = w /\ \A d \in Calls \ {c} : call'[d] = call[d]
  BY DEF FreshInv, CallsOK
<1>2. DOMAIN call' = Calls /\ call' = [d \in Calls |-> call'[d]]
  BY ZenonT(60) DEF FreshInv, CallsOK
<1>3. call' \in [Calls -> {call'[d] : d \in Calls}]
  BY ZenonT(60), <1>2
<1>4. \A d \in Calls : LoadOK(call[d])'
  BY <1>1 DEF FreshInv, CallsOK, LoadOK
<1>5. ASSUME NEW d \in Calls, d # c, call[d].pc = "idle" PROVE call'[d].pc \notin {"answered", "hit"}
  BY <1>1, <1>5
<1>6. FreshStep
  BY <1>1, <1>5 DEF FreshStep
<1> QED BY <1>3, <1>4, <1>6 DEF CallsOK

\* Snapshots stay good while the cache is left alone.
LEMMA CacheAlone ==
  ASSUME FreshInv, UNCHANGED <<now, cache>>, CallsOK'
  PROVE  FreshInv'
  BY DEF FreshInv

\* A good snapshot may be added to them.
LEMMA CacheFilled ==
  ASSUME FreshInv, now' = now, CallsOK', NEW key, NEW snap, SnapshotOK(snap),
         cache' = Put(cache, key, snap)
  PROVE  FreshInv'
<1>1. ASSUME NEW k \in DOMAIN cache' PROVE cache'[k] = snap \/ (k \in DOMAIN cache /\ cache'[k] = cache[k])
  BY <1>1 DEF Put
<1>2. \A k \in DOMAIN cache' : SnapshotOK(cache'[k])
  BY <1>1 DEF FreshInv
<1> QED BY <1>2 DEF FreshInv

\* A call that begins.
LEMMA BeginOK ==
  ASSUME FreshInv, NEW q
  PROVE  LET w == [Idle EXCEPT !.req = q, !.at = now]
         IN  /\ Shape(w) /\ w.req = q
             /\ LoadOK([w EXCEPT !.pc = "asking"])
             /\ [w EXCEPT !.pc = "asking"].pc = "asking"
<1> DEFINE w == [Idle EXCEPT !.req = q, !.at = now]
           a == [w EXCEPT !.pc = "asking"]
<1>1. now \in Nat
  BY DEF FreshInv
<1>2. Shape(w) /\ w.req = q
  BY ZenonT(60), <1>1 DEF Shape, Places, Idle
<1>3. Shape(a) /\ a.pc = "asking" /\ a.at = now
  BY ZenonT(60), <1>1 DEF Shape, Places, Idle
<1> HIDE DEF a
<1>4. LoadOK(a)
  BY SMTT(60), ZenonT(60), <1>1, <1>3 DEF LoadOK
<1> USE DEF a
<1> QED BY <1>2, <1>3, <1>4

\* The answer select makes of a snapshot.
LEMMA SelectedOK ==
  ASSUME NEW w, Shape(w), NEW snap, SnapshotOK(snap), NEW s \in Selected(w, snap)
  PROVE  LoadOK(s) /\ s.pc # "hit" /\ (s.pc = "answered" => s.asOf = snap.asOf)
<1>1. CASE w.req.headersParse
  <2>1. PICK answer : s = Answer(w, snap.asOf, answer)
    BY ZenonT(60), <1>1 DEF Selected
  <2> QED BY ZenonT(60), <2>1, AnswerOK DEF SnapshotOK
<1>2. CASE ~w.req.headersParse
  BY ZenonT(60), <1>2, OverOK DEF Selected
<1> QED BY <1>1, <1>2

\* A snapshot in the cache that has not expired is young enough.
LEMMA CacheYoung ==
  ASSUME FreshInv, NEW key, Fresh(key)
  PROVE  SnapshotOK(cache[key]) /\ now - cache[key].asOf < TTL
<1>1. TTL \in Nat
  BY RouteAssumption
<1> QED BY <1>1 DEF FreshInv, Fresh, SnapshotOK

\* select, up to the answer or to the wait.
LEMMA SelectFresh ==
  ASSUME FreshInv, NEW c \in Calls, NEW q, select(c, q) PROVE FreshInv' /\ FreshStep
<1> DEFINE w == [Idle EXCEPT !.req = q, !.at = now]
           a == [w EXCEPT !.pc = "asking"]
<1>1. Shape(w) /\ LoadOK(a) /\ a.pc = "asking"
  BY ZenonT(60), BeginOK
<1>2. UNCHANGED <<now, cache>>
  BY DEF select, allButCall
<1> HIDE DEF w, a
<1>3. CASE Fresh(CacheKey(q))
  <2>1. SnapshotOK(cache[CacheKey(q)]) /\ now - cache[CacheKey(q)].asOf < TTL
    BY ZenonT(60), <1>3, CacheYoung
  <2>2. PICK s \in Selected(w, cache[CacheKey(q)]) : call' = [call EXCEPT ![c] = s]
    BY ZenonT(60), <1>3 DEF select, w
  <2>3. LoadOK(s) /\ s.pc # "hit" /\ (s.pc = "answered" => s.asOf = cache[CacheKey(q)].asOf)
    BY ZenonT(60), <2>1, <1>1, SelectedOK
  <2>4. s.pc = "answered" => now - s.asOf < TTL
    BY <2>1, <2>3
  <2> QED BY ZenonT(60), <1>2, <2>2, <2>3, <2>4, CallStep, CacheAlone
<1>4. CASE ~Fresh(CacheKey(q))
  <2>1. call' = [call EXCEPT ![c] = a]
    BY ZenonT(60), <1>4 DEF select, a, w
  <2> QED BY ZenonT(60), <1>1, <1>2, <2>1, CallStep, CacheAlone
<1> QED BY ZenonT(60), <1>3, <1>4

\* inspect, up to the wait for the resolver or the one after a hit.
LEMMA InspectFresh ==
  ASSUME FreshInv, NEW c \in Calls, NEW q, inspect(c, q) PROVE FreshInv' /\ FreshStep
<1> DEFINE w == [Idle EXCEPT !.req = q, !.at = now]
           a == [w EXCEPT !.pc = "asking"]
           h == cache[InspectKey]
           s == [w EXCEPT !.pc = "hit", !.asOf = h.asOf, !.at = h.expiresAt, !.got = h.got]
<1>1. Shape(w) /\ LoadOK(a) /\ a.pc = "asking"
  BY ZenonT(60), BeginOK
<1>2. UNCHANGED <<now, cache>>
  BY DEF inspect, allButCall
<1> HIDE DEF w, a, h, s
<1>3. CASE Fresh(InspectKey)
  <2>1. SnapshotOK(h) /\ now - h.asOf < TTL
    BY ZenonT(60), <1>3, CacheYoung DEF h
  <2>2. Shape(s) /\ s.pc = "hit" /\ s.asOf = h.asOf /\ s.at = h.expiresAt
    BY ZenonT(60), <1>1, <2>1 DEF Shape, Places, SnapshotOK, s
  <2>3. LoadOK(s)
    BY <2>1, <2>2 DEF LoadOK, SnapshotOK
  <2>4. call' = [call EXCEPT ![c] = s]
    BY <1>3 DEF inspect, s, h, w
  <2>5. now - s.asOf < TTL
    BY ZenonT(60), <2>1, <2>2
  <2> QED BY ZenonT(60), <1>2, <2>3, <2>4, <2>5, CallStep, CacheAlone
<1>4. CASE ~Fresh(InspectKey)
  <2>1. call' = [call EXCEPT ![c] = a]
    BY <1>4 DEF inspect, a, w
  <2> QED BY ZenonT(60), <1>1, <1>2, <2>1, CallStep, CacheAlone
<1> QED BY ZenonT(60), <1>3, <1>4

\* inspect, after a hit: what is stored again expires when it did before.
LEMMA HitFresh ==
  ASSUME FreshInv, NEW c \in Calls, storeAgain(c) PROVE FreshInv' /\ FreshStep
<1> DEFINE w == call[c]
           snap == Snapshot(w.asOf, w.at, w.got)
           s == Answer(w, w.asOf, <<w.got>>)
<1>1. /\ LoadOK(w) /\ Shape(w) /\ w.pc = "hit" /\ now' = now
      /\ call' = [call EXCEPT ![c] = s] /\ cache' = Put(cache, InspectKey, snap)
  BY ZenonT(60) DEF FreshInv, CallsOK, LoadOK, storeAgain
<1> HIDE DEF w
<1>2. w.at \in Nat /\ w.asOf \in Nat /\ w.at <= w.asOf + TTL
  BY <1>1 DEF LoadOK, Shape
<1>3. SnapshotOK(snap)
  BY <1>2 DEF SnapshotOK, Snapshot
<1>4. LoadOK(s)
  BY ZenonT(60), <1>1, <1>2, AnswerOK
<1> HIDE DEF snap, s
<1>5. call[c].pc # "idle"
  BY <1>1 DEF w
<1>6. CallsOK' /\ FreshStep
  BY ZenonT(60), <1>1, <1>4, <1>5, CallStep
<1> QED BY ZenonT(60), <1>1, <1>3, <1>6, CacheFilled

\* LOC's discovery answers at once.
LEMMA WorkerFresh ==
  ASSUME FreshInv, NEW c \in Calls, NEW q, selectWorker(c, q) PROVE FreshInv' /\ FreshStep
<1> DEFINE w == [Idle EXCEPT !.req = q, !.at = now]
<1>1. Shape(w)
  BY ZenonT(60), BeginOK
<1>2. UNCHANGED <<now, cache>> /\ now \in Nat /\ TTL \in Nat \ {0}
  BY RouteAssumption DEF selectWorker, allButCall, FreshInv
<1> HIDE DEF w
<1>3. \/ \E answer : call' = [call EXCEPT ![c] = Answer(w, now, answer)]
      \/ call' = [call EXCEPT ![c] = Over]
  BY ZenonT(60) DEF selectWorker, w
<1>4. CASE call' = [call EXCEPT ![c] = Over]
  BY ZenonT(60), <1>2, <1>4, OverOK, CallStep, CacheAlone
<1>5. ASSUME NEW answer, call' = [call EXCEPT ![c] = Answer(w, now, answer)]
      PROVE  FreshInv' /\ FreshStep
  <2> DEFINE s == Answer(w, now, answer)
  <2>1. LoadOK(s) /\ s.asOf = now
    BY <1>1, <1>2, AnswerOK
  <2> HIDE DEF s
  <2>2. now - s.asOf < TTL
    BY <1>2, <2>1
  <2>3. call' = [call EXCEPT ![c] = s]
    BY <1>5 DEF s
  <2> QED BY ZenonT(60), <1>2, <2>1, <2>2, <2>3, CallStep, CacheAlone
<1> QED BY ZenonT(60), <1>3, <1>4, <1>5

\* A call that asks the resolver.
LEMMA AskFresh ==
  ASSUME FreshInv, NEW c \in Calls,
         selectMany(c) \/ listKnown(c) \/ \E eth : resolveByAddress(c, eth)
  PROVE  FreshInv' /\ FreshStep
<1> DEFINE w == call[c]
<1>0. /\ LoadOK(w) /\ Shape(w) /\ now \in Nat /\ UNCHANGED <<now, cache>>
      /\ call \in [Calls -> {call[d] : d \in Calls}]
  BY ZenonT(60) DEF FreshInv, CallsOK, LoadOK, selectMany, listKnown, resolveByAddress, allButCall
<1>1. ASSUME NEW got, w.pc = "asking",
             call' = [call EXCEPT ![c] = [w EXCEPT !.pc = "loaded", !.asOf = now, !.got = got]]
      PROVE  FreshInv' /\ FreshStep
  <2> DEFINE v == [w EXCEPT !.pc = "loaded", !.asOf = now, !.got = got]
  <2> HIDE DEF w
  <2>1. Shape(v) /\ v.pc = "loaded" /\ v.asOf = now /\ v.at = w.at
    BY ZenonT(60), <1>0 DEF Shape, Places
  <2> HIDE DEF v
  <2>2. LoadOK(v)
    BY <1>0, <1>1, <2>1 DEF LoadOK
  <2>3. call' = [call EXCEPT ![c] = v]
    BY <1>1 DEF v
  <2> QED BY ZenonT(60), <1>0, <2>1, <2>2, <2>3, CallStep, CacheAlone
<1>2. ASSUME NEW left, w.pc = "asking",
             call' = [call EXCEPT ![c] = [w EXCEPT !.pc = "resolving", !.asOf = now, !.left = left]]
      PROVE  FreshInv' /\ FreshStep
  <2> DEFINE v == [w EXCEPT !.pc = "resolving", !.asOf = now, !.left = left]
  <2> HIDE DEF w
  <2>1. Shape(v) /\ v.pc = "resolving" /\ v.asOf = now /\ v.at = w.at
    BY ZenonT(60), <1>0 DEF Shape, Places
  <2> HIDE DEF v
  <2>2. LoadOK(v)
    BY <1>0, <1>2, <2>1 DEF LoadOK
  <2>3. call' = [call EXCEPT ![c] = v]
    BY <1>2 DEF v
  <2> QED BY ZenonT(60), <1>0, <2>1, <2>2, <2>3, CallStep, CacheAlone
<1>3. ASSUME NEW left, NEW got, w.pc = "resolving",
             call' = [call EXCEPT ![c] = [w EXCEPT !.left = left, !.got = got]]
      PROVE  FreshInv' /\ FreshStep
  <2> DEFINE v == [w EXCEPT !.left = left, !.got = got]
  <2> HIDE DEF w
  <2>1. Shape(v) /\ v.pc = "resolving" /\ v.asOf = w.asOf /\ v.at = w.at
    BY ZenonT(60), <1>0, <1>3 DEF Shape, Places
  <2> HIDE DEF v
  <2>2. LoadOK(v)
    BY <1>0, <1>3, <2>1 DEF LoadOK
  <2>3. call' = [call EXCEPT ![c] = v]
    BY <1>3 DEF v
  <2> QED BY ZenonT(60), <1>0, <2>1, <2>2, <2>3, CallStep, CacheAlone
<1>4. CASE selectMany(c)
  BY ZenonT(60), <1>1, <1>4 DEF selectMany
<1>5. CASE listKnown(c)
  <2>1. call' = [call EXCEPT ![c] = [w EXCEPT !.pc = "resolving", !.asOf = now,
                                              !.left = {r.eth : r \in Known}]]
    BY ZenonT(60), <1>0, <1>5 DEF listKnown
  <2> QED BY ZenonT(60), <1>2, <1>5, <2>1 DEF listKnown
<1>6. ASSUME NEW eth, resolveByAddress(c, eth) PROVE FreshInv' /\ FreshStep
  <2>1. call' = [call EXCEPT ![c] = [w EXCEPT !.left = @ \ {eth},
                                              !.got = @ \cup {r \in Known : r.eth = eth}]]
    BY ZenonT(60), <1>0, <1>6 DEF resolveByAddress
  <2> QED BY ZenonT(60), <1>3, <1>6, <2>1 DEF resolveByAddress
<1> QED BY <1>4, <1>5, <1>6

\* The snapshot of a load counts from before its request.
LEMMA SnapOK ==
  ASSUME NEW w, LoadOK(w), w.pc \in {"loaded", "resolving"}, NEW got
  PROVE  /\ SnapshotOK(Snapshot(w.asOf, w.at + TTL, got))
         /\ Snapshot(w.asOf, w.at + TTL, got).asOf = w.asOf
<1>1. w.at \in Nat /\ w.asOf \in Nat /\ w.at <= w.asOf /\ TTL \in Nat
  BY RouteAssumption DEF LoadOK, Shape
<1> QED BY <1>1 DEF SnapshotOK, Snapshot

\* select, after the resolver answered.
LEMMA SelectLoadFresh ==
  ASSUME FreshInv, NEW c \in Calls, loadSelectSnapshot(c) PROVE FreshInv' /\ FreshStep
<1> DEFINE w == call[c]
           snap == Snapshot(w.asOf, w.at + TTL, UNION {flattenSelectedRoute(r) : r \in w.got})
<1>1. LoadOK(w) /\ Shape(w) /\ w.pc = "loaded" /\ now' = now
  BY ZenonT(60) DEF FreshInv, CallsOK, LoadOK, loadSelectSnapshot
<1> HIDE DEF w
<1>2. SnapshotOK(snap)
  BY SMTT(60), ZenonT(60), <1>1, SnapOK
<1>3. \/ /\ \E s \in Selected(w, snap) : call' = [call EXCEPT ![c] = s]
         /\ cache' = Put(cache, CacheKey(w.req), snap)
      \/ call' = [call EXCEPT ![c] = Over] /\ UNCHANGED cache
  BY ZenonT(60) DEF loadSelectSnapshot, w
<1> HIDE DEF snap
<1>4. call[c].pc # "idle"
  BY <1>1 DEF w
<1>5. ASSUME NEW s \in Selected(w, snap), call' = [call EXCEPT ![c] = s],
             cache' = Put(cache, CacheKey(w.req), snap)
      PROVE  FreshInv' /\ FreshStep
  <2>1. LoadOK(s)
    BY ZenonT(60), <1>1, <1>2, SelectedOK
  <2>2. CallsOK' /\ FreshStep
    BY ZenonT(60), <1>1, <1>4, <1>5, <2>1, CallStep
  <2> QED BY ZenonT(60), <1>1, <1>2, <1>5, <2>2, CacheFilled
<1>6. CASE call' = [call EXCEPT ![c] = Over] /\ UNCHANGED cache
  BY ZenonT(60), <1>1, <1>4, <1>6, OverOK, CallStep, CacheAlone
<1> QED BY ZenonT(60), <1>3, <1>5, <1>6

\* inspect, after the resolver answered.
LEMMA InspectLoadFresh ==
  ASSUME FreshInv, NEW c \in Calls, loadSnapshot(c) PROVE FreshInv' /\ FreshStep
<1> DEFINE w == call[c]
           snap == Snapshot(w.asOf, w.at + TTL, UNION {flattenResolveResult(r) : r \in w.got})
           s == Answer(w, w.asOf, <<snap.got>>)
<1>1. LoadOK(w) /\ Shape(w) /\ w.pc = "resolving" /\ now' = now /\ w.asOf \in Nat
  BY ZenonT(60) DEF FreshInv, CallsOK, LoadOK, Shape, loadSnapshot
<1> HIDE DEF w
<1>2. SnapshotOK(snap)
  BY SMTT(60), ZenonT(60), <1>1, SnapOK
<1>3. \/ call' = [call EXCEPT ![c] = s] /\ cache' = Put(cache, InspectKey, snap)
      \/ call' = [call EXCEPT ![c] = Over] /\ UNCHANGED cache
  BY ZenonT(60) DEF loadSnapshot, w
<1> HIDE DEF snap
<1>4. LoadOK(s)
  BY ZenonT(60), <1>1, AnswerOK
<1> HIDE DEF s
<1>5. call[c].pc # "idle"
  BY <1>1 DEF w
<1>6. CASE call' = [call EXCEPT ![c] = s] /\ cache' = Put(cache, InspectKey, snap)
  <2>1. CallsOK' /\ FreshStep
    BY ZenonT(60), <1>1, <1>4, <1>5, <1>6, CallStep
  <2> QED BY ZenonT(60), <1>1, <1>2, <1>6, <2>1, CacheFilled
<1>7. CASE call' = [call EXCEPT ![c] = Over] /\ UNCHANGED cache
  BY ZenonT(60), <1>1, <1>5, <1>7, OverOK, CallStep, CacheAlone
<1> QED BY ZenonT(60), <1>3, <1>6, <1>7

\* The resolver fails, or the caller reports how the route did.
LEMMA EndFresh ==
  ASSUME FreshInv, NEW c \in Calls, ResolverFails(c) \/ \E o : recordOutcome(c, o)
  PROVE  FreshInv' /\ FreshStep
<1>1. UNCHANGED <<now, cache>> /\ call' = [call EXCEPT ![c] = Over]
  BY DEF ResolverFails, recordOutcome, allButCall
<1> QED BY ZenonT(60), <1>1, OverOK, CallStep, CacheAlone

\* Steps that make no call.
LEMMA StillFresh ==
  ASSUME FreshInv, UNCHANGED <<call, cache>>, now' \in {now, now + 1}
  PROVE  FreshInv' /\ FreshStep
<1>1. now \in Nat /\ now' \in Nat /\ now <= now'
  BY DEF FreshInv
<1>2. ASSUME NEW c \in Calls PROVE LoadOK(call[c])'
  <2>1. Shape(call[c]) /\ LoadOK(call[c]) /\ call'[c] = call[c] /\ call[c].at \in Nat
    BY DEF FreshInv, CallsOK, LoadOK, Shape
  <2>2. call[c].at <= now => call[c].at <= now'
    BY <1>1, <2>1
  <2> QED BY ZenonT(60), <2>1, <2>2 DEF LoadOK
<1>3. CallsOK'
  BY <1>2 DEF FreshInv, CallsOK
<1>4. FreshStep
  BY DEF FreshStep
<1> QED BY <1>1, <1>3, <1>4 DEF FreshInv

\* Every step keeps the freshness invariant.
LEMMA NextFresh == FreshInv /\ [Next]_vars => FreshInv' /\ FreshStep
<1> SUFFICES ASSUME FreshInv, [Next]_vars PROVE FreshInv' /\ FreshStep
  OBVIOUS
<1>1. CASE UNCHANGED vars
  BY ZenonT(60), <1>1, StillFresh DEF vars
<1>2. ASSUME NEW url, suppressBroker(url) \/ unsuppressBroker(url)
      PROVE  FreshInv' /\ FreshStep
  BY <1>2, StillFresh DEF suppressBroker, unsuppressBroker
<1>3. CASE Relist \/ Tick
  BY <1>3, StillFresh DEF Relist, Tick
<1> QED BY ZenonT(60), <1>1, <1>2, <1>3, SelectFresh, InspectFresh, HitFresh, WorkerFresh, AskFresh,
           SelectLoadFresh, InspectLoadFresh, EndFresh DEF Next

\* A call answered from the cache shows what the resolver knew less than a TTL
\* ago, for any number of calls that load at once and any delay of each.
THEOREM SnapshotFreshHolds == Spec => SnapshotFresh
<1>1. FreshInv /\ [Next]_vars => FreshInv'
  BY NextFresh
<1>2. FreshInv /\ [Next]_vars =>
        [\A c \in Calls : call[c].pc = "idle" /\ call'[c].pc \in {"answered", "hit"}
                            => now - call'[c].asOf < TTL]_vars
  BY NextFresh DEF FreshStep
<1> QED BY <1>1, <1>2, InitFresh, PTL DEF Spec, SnapshotFresh

-----------------------------------------------------------------------------
(* Routes that serve the request.                                            *)

\* Induction up to n, over a set.
LEMMA Upto ==
  ASSUME NEW n \in Nat, NEW T, 0 \in T,
         \A i \in 1 .. n : i - 1 \in T => i \in T
  PROVE  \A i \in 0 .. n : i \in T
<1> DEFINE U == {i \in Nat : i <= n /\ i \notin T}
           R == OpToRel(<, Nat)
<1> SUFFICES ASSUME U # {} PROVE FALSE
  OBVIOUS
<1>1. U \subseteq Nat
  OBVIOUS
<1>2. IsWellFoundedOn(R, Nat)
  BY ZenonT(60), NatLessThanWellFounded
<1>3. \A x, y \in Nat : <<y, x>> \in R <=> y < x
  BY DEF OpToRel
<1> HIDE DEF R
<1>4. PICK x \in U : \A y \in U : ~(<<y, x>> \in R)
  <2> HIDE DEF U
  <2> QED BY ZenonT(60), <1>1, <1>2, WFMin
<1>5. x # 0 /\ x \in 1 .. n
  OBVIOUS
<1>6. x - 1 \in Nat /\ x - 1 <= n /\ x - 1 < x
  BY <1>5
<1>7. x - 1 \in T
  BY ZenonT(60), <1>3, <1>4, <1>6
<1> QED BY <1>5, <1>7

\* The two lists before the loop of rankCandidates.
Neither == [ready |-> <<>>, cooling |-> <<>>]

\* What the loop of rankCandidates makes of the i-th candidate.
Pushed(v, c) ==
  IF isCoolingDown(keyOf(c)) THEN [v EXCEPT !.cooling = Append(@, c)]
  ELSE [v EXCEPT !.ready = Append(@, c)]

\* f holds the two lists after each of the first n turns of the loop.
Splits(f, cs, n) ==
  f = [i \in 0 .. n |->
         IF i = 0 THEN Neither ELSE Pushed(f[i - 1], cs[i])]

\* A loop that splits does so turn by turn.
LEMMA SplitsTurns ==
  ASSUME NEW f, NEW cs, NEW n \in Nat, Splits(f, cs, n)
  PROVE  f[0] = Neither /\ \A i \in 1 .. n : f[i] = Pushed(f[i - 1], cs[i])
<1> DEFINE F(i) == IF i = 0 THEN Neither ELSE Pushed(f[i - 1], cs[i])
<1>1. f = [i \in 0 .. n |-> F(i)]
  BY ZenonT(60) DEF Splits
<1>2. F(0) = Neither /\ \A i \in 1 .. n : F(i) = Pushed(f[i - 1], cs[i])
  OBVIOUS
<1> HIDE DEF F
<1>3. \A i \in 0 .. n : f[i] = F(i)
  BY ZenonT(60), <1>1
<1>4. 0 \in 0 .. n /\ \A i \in 1 .. n : i \in 0 .. n
  OBVIOUS
<1> QED BY ZenonT(60), <1>2, <1>3, <1>4

\* And what goes turn by turn is the loop.
LEMMA TurnsSplit ==
  ASSUME NEW cs, NEW n \in Nat, NEW f, f = [i \in 0 .. n |-> f[i]],
         f[0] = Neither, \A i \in 1 .. n : f[i] = Pushed(f[i - 1], cs[i])
  PROVE  Splits(f, cs, n)
<1> DEFINE G(i) == IF i = 0 THEN Neither ELSE Pushed(f[i - 1], cs[i])
<1>1. ASSUME NEW i \in 0 .. n PROVE f[i] = G(i)
  <2>1. CASE i = 0
    BY <2>1
  <2>2. CASE i # 0
    <3>1. i \in 1 .. n
      BY <2>2
    <3> QED BY ZenonT(60), <2>2, <3>1
  <2> QED BY <2>1, <2>2
<1> HIDE DEF G
<1>2. f = [i \in 0 .. n |-> G(i)]
  BY <1>1
<1> QED BY ZenonT(60), <1>2 DEF Splits, G

\* The loop can take another turn.
LEMMA AnotherTurn ==
  ASSUME NEW cs, NEW n \in Nat, NEW f, Splits(f, cs, n)
  PROVE  \E g : Splits(g, cs, n + 1)
<1>1. f[0] = Neither /\ \A i \in 1 .. n : f[i] = Pushed(f[i - 1], cs[i])
  BY ZenonT(60), SplitsTurns
<1>2. PICK last : last = Pushed(f[n], cs[n + 1])
  BY ZenonT(60)
<1> DEFINE g == [i \in 0 .. n + 1 |-> IF i = n + 1 THEN last ELSE f[i]]
<1>3. /\ g = [i \in 0 .. n + 1 |-> g[i]] /\ g[n + 1] = last
      /\ \A i \in 0 .. n : g[i] = f[i]
  OBVIOUS
<1> HIDE DEF g
<1>4. ASSUME NEW i \in 1 .. n + 1 PROVE g[i] = Pushed(g[i - 1], cs[i])
  <2>1. CASE i = n + 1
    <3>1. i - 1 = n /\ n \in 0 .. n
      BY <2>1
    <3> QED BY ZenonT(60), <1>2, <1>3, <2>1, <3>1
  <2>2. CASE i # n + 1
    <3>1. i \in 1 .. n /\ i \in 0 .. n /\ i - 1 \in 0 .. n
      BY <2>2
    <3> QED BY ZenonT(60), <1>1, <1>3, <3>1
  <2> QED BY ZenonT(60), <2>1, <2>2
<1>5. g[0] = Neither
  <2>1. 0 \in 0 .. n
    OBVIOUS
  <2> QED BY ZenonT(60), <1>1, <1>3, <2>1
<1>6. n + 1 \in Nat
  OBVIOUS
<1>7. Splits(g, cs, n + 1)
  BY ZenonT(60), <1>3, <1>4, <1>5, <1>6, TurnsSplit
<1> QED BY ZenonT(60), <1>7

\* So it can be run to its end.
LEMMA SplitExists ==
  ASSUME NEW n \in Nat, NEW cs
  PROVE  \E f : Splits(f, cs, n)
<1> DEFINE T == {i \in Nat : \E f : Splits(f, cs, i)}
<1>1. 0 \in T
  <2> DEFINE f == [i \in 0 .. 0 |-> Neither]
  <2>1. f = [i \in 0 .. 0 |-> f[i]] /\ f[0] = Neither /\ 0 \in Nat
    OBVIOUS
  <2> HIDE DEF f
  <2>2. ASSUME NEW i \in 1 .. 0 PROVE f[i] = Pushed(f[i - 1], cs[i])
    OBVIOUS
  <2>3. Splits(f, cs, 0)
    BY ZenonT(60), <2>1, <2>2, TurnsSplit
  <2> QED BY ZenonT(60), <2>1, <2>3
<1>2. ASSUME NEW i \in 1 .. n, i - 1 \in T PROVE i \in T
  <2>1. i - 1 \in Nat /\ (i - 1) + 1 = i /\ i \in Nat
    OBVIOUS
  <2>2. PICK f : Splits(f, cs, i - 1)
    BY ZenonT(60), <1>2
  <2>3. \E g : Splits(g, cs, (i - 1) + 1)
    BY ZenonT(60), <2>1, <2>2, AnotherTurn
  <2> QED BY ZenonT(60), <2>1, <2>3
<1> HIDE DEF T
<1>3. \A i \in 0 .. n : i \in T
  BY ZenonT(60), <1>1, <1>2, Upto
<1>4. n \in T
  BY <1>3
<1> QED BY ZenonT(60), <1>4 DEF T

\* rankCandidates is the ready candidates, then those that cool down.
LEMMA RankOK ==
  ASSUME NEW S, NEW n \in Nat, NEW cs \in [1 .. n -> S]
  PROVE  \E ready \in Seq({c \in S : ~isCoolingDown(keyOf(c))}),
            cooling \in Seq({c \in S : isCoolingDown(keyOf(c))}) :
           rankCandidates(cs) = ready \o cooling
<1> DEFINE f == CHOOSE g : Splits(g, cs, Len(cs))
           R == {c \in S : ~isCoolingDown(keyOf(c))}
           C == {c \in S : isCoolingDown(keyOf(c))}
           Lists == [ready : Seq(R), cooling : Seq(C)]
           T == {i \in Nat : f[i] \in Lists}
<1>1. cs \in Seq(S) /\ Len(cs) = n
  BY SeqDef
<1>2. rankCandidates(cs) = f[Len(cs)].ready \o f[Len(cs)].cooling
  BY ZenonT(60) DEF rankCandidates, Splits, Pushed, Neither
<1>3. Splits(f, cs, n)
  BY ZenonT(60), <1>1, SplitExists
<1> HIDE DEF f
<1>4. /\ f[0] = Neither
      /\ \A i \in 1 .. n : f[i] = Pushed(f[i - 1], cs[i])
  BY ZenonT(60), <1>3, SplitsTurns
<1>5. 0 \in T
  <2>1. Neither \in Lists
    <3> HIDE DEF R, C
    <3> QED BY DEF Neither
  <2> HIDE DEF Lists
  <2> QED BY <1>4, <2>1
<1>6. ASSUME NEW i \in 1 .. n, i - 1 \in T PROVE i \in T
  <2> DEFINE v == f[i - 1]
  <2>1. v \in Lists /\ cs[i] \in S /\ i \in Nat
    <3> HIDE DEF Lists
    <3> QED BY <1>6
  <2> HIDE DEF v
  <2>2. f[i] = Pushed(v, cs[i])
    BY <1>4 DEF v
  <2>3. CASE isCoolingDown(keyOf(cs[i]))
    <3>1. cs[i] \in C
      BY ZenonT(60), <2>1, <2>3
    <3>2. f[i] = [v EXCEPT !.cooling = Append(@, cs[i])]
      BY ZenonT(60), <2>2, <2>3 DEF Pushed
    <3> HIDE DEF R, C
    <3>3. Append(v.cooling, cs[i]) \in Seq(C)
      BY <2>1, <3>1
    <3>4. f[i] \in Lists
      BY ZenonT(60), <2>1, <3>2, <3>3
    <3> QED BY ZenonT(60), <2>1, <3>4
  <2>4. CASE ~isCoolingDown(keyOf(cs[i]))
    <3>1. cs[i] \in R
      BY ZenonT(60), <2>1, <2>4
    <3>2. f[i] = [v EXCEPT !.ready = Append(@, cs[i])]
      BY ZenonT(60), <2>2, <2>4 DEF Pushed
    <3> HIDE DEF R, C
    <3>3. Append(v.ready, cs[i]) \in Seq(R)
      BY <2>1, <3>1
    <3>4. f[i] \in Lists
      BY ZenonT(60), <2>1, <3>2, <3>3
    <3> QED BY ZenonT(60), <2>1, <3>4
  <2> QED BY ZenonT(60), <2>3, <2>4
<1> HIDE DEF T
<1>7. n \in T
  <2>1. \A i \in 0 .. n : i \in T
    BY ZenonT(60), <1>5, <1>6, Upto
  <2> QED BY <2>1
<1>8. f[n] \in Lists
  BY ZenonT(60), <1>7 DEF T
<1> HIDE DEF R, C
<1>9. f[n].ready \in Seq(R) /\ f[n].cooling \in Seq(C)
  BY <1>8
<1> QED BY ZenonT(60), <1>1, <1>2, <1>9 DEF R, C

\* What parsing a declaration guarantees of a candidate.
SessionDeclared(s) ==
  /\ s.attachment = "external" => s.metering = "runner-reported"
  /\ s.heartbeat.interval > 0 /\ s.lease # None

Declares(c) ==
  /\ c.protocol = "paid-job/v1" => c.session = None
  /\ c.protocol = "paid-session/v1" => c.job = None /\ SessionDeclared(c.session)

\* A heartbeat that parses has an interval.
LEMMA HeartbeatDeclared ==
  ASSUME NEW s, parseHeartbeat(s) # None PROVE parseHeartbeat(s).interval > 0
<1> DEFINE i == Default(s.interval, 10)
           m == Default(s.missed, 3)
<1>1. optionalPositiveSafeInteger(s.interval) /\ parseHeartbeat(s) = [interval |-> i, missed |-> m]
  BY ZenonT(60) DEF parseHeartbeat
<1>2. i \in Nat \ {0}
  <2>1. CASE s.interval = None
    BY <2>1 DEF Default
  <2>2. CASE s.interval # None
    BY ZenonT(60), <1>1, <2>2 DEF Default, optionalPositiveSafeInteger
  <2> QED BY <2>1, <2>2
<1> HIDE DEF i, m
<1>3. parseHeartbeat(s).interval = i
  BY <1>1
<1> QED BY <1>2, <1>3

\* Session axes that parse declare what a live route needs.
LEMMA SessionParsed ==
  ASSUME NEW s, parseSessionAxes(s) # None PROVE SessionDeclared(parseSessionAxes(s))
<1> DEFINE a == Default(s.attachment, "external")
           r == Default(s.refill, "extensible")
           t == parseSessionAxes(s)
<1>1. /\ t = SessionAxes(s, a, r)
      /\ s.metering \in {"runner-reported", "broker-observed"}
      /\ s.metering = "broker-observed" => a = "inband-ws"
      /\ parseHeartbeat(s) # None /\ parseLease(s) # None
  BY ZenonT(60) DEF parseSessionAxes
<1> HIDE DEF a, r, t
<1>2. /\ t.attachment = a /\ t.metering = s.metering
      /\ t.heartbeat = parseHeartbeat(s) /\ t.lease = parseLease(s)
  BY ZenonT(60), <1>1 DEF SessionAxes
<1>3. t.attachment = "external" => t.metering = "runner-reported"
  BY ZenonT(60), <1>1, <1>2
<1>4. t.heartbeat.interval > 0
  BY ZenonT(60), <1>1, <1>2, HeartbeatDeclared
<1> QED BY ZenonT(60), <1>1, <1>2, <1>3, <1>4 DEF SessionDeclared, t

\* So a declaration that parses, declares.
LEMMA DeclarationParsed ==
  ASSUME NEW p, NEW x, parseRouteProtocolDeclaration(p, x) # None
  PROVE  Declares(parseRouteProtocolDeclaration(p, x))
<1> DEFINE d == parseRouteProtocolDeclaration(p, x)
           job == parseJobAxes(x.job)
           session == IF x.session \in {None, Wrong} THEN None ELSE parseSessionAxes(x.session)
<1>1. \/ p = "paid-job/v1" /\ d = [protocol |-> p, job |-> job, session |-> None]
      \/ /\ p = "paid-session/v1" /\ session # None
         /\ d = [protocol |-> p, job |-> None, session |-> session]
  BY ZenonT(60) DEF parseRouteProtocolDeclaration
<1>2. session # None => SessionDeclared(session)
  BY ZenonT(60), SessionParsed
<1> HIDE DEF d, job, session
<1>3. CASE p = "paid-job/v1" /\ d = [protocol |-> p, job |-> job, session |-> None]
  <2>1. d.protocol = p /\ d.session = None
    BY <1>3
  <2> QED BY <1>3, <2>1 DEF Declares, d
<1>4. CASE /\ p = "paid-session/v1" /\ session # None
           /\ d = [protocol |-> p, job |-> None, session |-> session]
  <2>1. d.protocol = p /\ d.job = None /\ d.session = session
    BY <1>4
  <2> QED BY <1>2, <1>4, <2>1 DEF Declares, d
<1> QED BY ZenonT(60), <1>1, <1>3, <1>4

\* A candidate declares what its announcement did.
LEMMA CandidateDeclares ==
  ASSUME NEW r, NEW d, NEW doc, Declares(d), NEW c, c = Candidate(r, d, doc)
  PROVE  Declares(c)
<1>1. c.protocol = d.protocol /\ c.job = d.job /\ c.session = d.session
  BY ZenonT(60) DEF Candidate
<1> QED BY ZenonT(60), <1>1 DEF Declares

\* A candidate that select lets through serves the request.
LEMMA FittingServes ==
  ASSUME NEW c, NEW q, Declares(c), c.capability = q.capability, c.offering = q.offering,
         routeSatisfiesRequirement(c, routeRequirementForCapability(q.capability))
  PROVE  Serves(c, q)
<1> DEFINE r == routeRequirementForCapability(q.capability)
<1>1. ASSUME q.capability = "video:transcode.abr"
      PROVE  c.session = None /\ {"unary", "stream"} \cap c.job.transports # {}
  <2>1. r = [protocol |-> "paid-job/v1", transports |-> {"unary", "stream"}]
    BY ZenonT(60), <1>1 DEF routeRequirementForCapability
  <2> HIDE DEF r
  <2>2. r.protocol = "paid-job/v1" /\ r.transports = {"unary", "stream"}
    BY ZenonT(60), <2>1
  <2>3. c.protocol = "paid-job/v1" /\ r.transports \cap c.job.transports # {}
    BY ZenonT(60), <2>2 DEF routeSatisfiesRequirement, r
  <2> QED BY ZenonT(60), <2>2, <2>3 DEF Declares
<1>2. ASSUME q.capability = "video:transcode.live"
      PROVE  /\ c.job = None /\ c.session.descriptor = "rtmp-hls/v1"
             /\ c.session.metering = "runner-reported"
             /\ c.session.heartbeat.interval > 0 /\ c.session.lease # None
  <2>1. r = [protocol |-> "paid-session/v1", descriptor |-> "rtmp-hls/v1",
             attachment |-> "external"]
    BY ZenonT(60), <1>2, "video:transcode.live" # "video:transcode.abr"
       DEF routeRequirementForCapability
  <2> HIDE DEF r
  <2>2. /\ r.protocol = "paid-session/v1" /\ r.descriptor = "rtmp-hls/v1"
        /\ r.attachment = "external"
    BY ZenonT(60), <2>1
  <2>3. /\ c.protocol = "paid-session/v1" /\ c.session.descriptor = "rtmp-hls/v1"
        /\ c.session.attachment = "external"
    BY ZenonT(60), <2>2 DEF routeSatisfiesRequirement, r
  <2> QED BY ZenonT(60), <2>3 DEF Declares, SessionDeclared
<1> QED BY ZenonT(60), <1>1, <1>2 DEF Serves

\* What AnswersServe asks of an answer to request q.
GoodAnswer(q, answer) ==
  /\ \A i \in DOMAIN answer :
       /\ Serves(answer[i], q)
       /\ q.kind = "select" => answer[i].url \notin suppressed
       /\ q.kind = "select" /\ q.maxPrice # None => safeBigInt(answer[i].price) <= q.maxPrice
  /\ q.kind = "select" =>
       \A i, j \in DOMAIN answer :
          i < j /\ isCoolingDown(keyOf(answer[i])) => isCoolingDown(keyOf(answer[j]))

\* Candidates that went through the parser, and so can be ordered and used.
Usable(candidates) == IsFiniteSet(candidates) /\ \A c \in candidates : Declares(c)

\* What follows a position past n is past n.
LEMMA LaterAlso ==
  ASSUME NEW i \in Nat, NEW j \in Nat, NEW n \in Nat, i < j, ~(i <= n) PROVE ~(j <= n)
  OBVIOUS

\* Two lists one after the other: where an element of the result stands.
LEMMA Joined ==
  ASSUME NEW R, NEW C, NEW r \in Seq(R), NEW l \in Seq(C)
  PROVE  /\ Len(r) \in Nat
         /\ DOMAIN (r \o l) \subseteq Nat
         /\ \A i \in DOMAIN (r \o l) : IF i <= Len(r) THEN (r \o l)[i] \in R ELSE (r \o l)[i] \in C
<1>1. Len(r) \in Nat /\ Len(l) \in Nat /\ DOMAIN r = 1 .. Len(r) /\ DOMAIN l = 1 .. Len(l)
  OBVIOUS
<1>2. DOMAIN (r \o l) = 1 .. Len(r) + Len(l)
  OBVIOUS
<1>3. ASSUME NEW i \in 1 .. Len(r) + Len(l), i <= Len(r) PROVE (r \o l)[i] \in R
  <2>1. (r \o l)[i] = r[i] /\ i \in DOMAIN r
    BY <1>1, <1>3
  <2>2. r[i] \in R
    BY <2>1
  <2> QED BY <2>1, <2>2
<1>4. ASSUME NEW i \in 1 .. Len(r) + Len(l), ~(i <= Len(r)) PROVE (r \o l)[i] \in C
  <2>1. (r \o l)[i] = l[i - Len(r)] /\ i - Len(r) \in DOMAIN l
    BY <1>1, <1>4
  <2>2. l[i - Len(r)] \in C
    BY <2>1
  <2> QED BY <2>1, <2>2
<1> QED BY <1>1, <1>2, <1>3, <1>4

\* Whatever list the sort and the split leave, its routes serve.
LEMMA RankedServes ==
  ASSUME NEW q, NEW candidates, Usable(candidates), NEW answer \in Ranked(q, candidates)
  PROVE  GoodAnswer(q, answer)
<1> DEFINE fits(c) == /\ c.url \notin suppressed
                      /\ c.capability = q.capability
                      /\ c.offering = q.offering
                      /\ routeSatisfiesRequirement(c, routeRequirementForCapability(q.capability))
                      /\ q.maxPrice # None => safeBigInt(c.price) <= q.maxPrice
                      /\ isSubset(c.constraints, requiredConstraints(q))
                      /\ q.tier # None => candidateSupports(c, Mode(q.capability), q.tier)
           S == {c \in candidates : fits(c)}
           n == Cardinality(S)
           R == {c \in S : ~isCoolingDown(keyOf(c))}
           C == {c \in S : isCoolingDown(keyOf(c))}
<1>1. PICK cs \in [1 .. n -> S] : answer = rankCandidates(cs)
  BY ZenonT(60) DEF Ranked, Sorted
<1>2. ASSUME NEW c \in S
      PROVE  /\ Serves(c, q) /\ c.url \notin suppressed
             /\ q.maxPrice # None => safeBigInt(c.price) <= q.maxPrice
  BY ZenonT(60), FittingServes DEF Usable
<1>3. n \in Nat
  <2>1. S \in SUBSET candidates
    BY ZenonT(60)
  <2> HIDE DEF S
  <2> QED BY ZenonT(60), <2>1, FS_Subset, FS_CardinalityType DEF Usable
<1> HIDE DEF S, n
<1>4. PICK r \in Seq(R), l \in Seq(C) : answer = r \o l
  BY ZenonT(60), <1>1, <1>3, RankOK
<1>5. R \subseteq S /\ C \subseteq S
  BY ZenonT(60)
<1>6. \A c \in C : isCoolingDown(keyOf(c))
  BY ZenonT(60)
<1>7. \A c \in R : ~isCoolingDown(keyOf(c))
  BY ZenonT(60)
<1> HIDE DEF R, C
<1>8. /\ Len(r) \in Nat /\ DOMAIN answer \subseteq Nat
      /\ \A i \in DOMAIN answer : IF i <= Len(r) THEN answer[i] \in R ELSE answer[i] \in C
  BY ZenonT(60), <1>4, Joined
<1>9. \A i \in DOMAIN answer : answer[i] \in S
  BY ZenonT(60), <1>5, <1>8
<1>10. ASSUME NEW i \in DOMAIN answer, NEW j \in DOMAIN answer, i < j,
              isCoolingDown(keyOf(answer[i]))
       PROVE  isCoolingDown(keyOf(answer[j]))
  <2>1. ~(i <= Len(r))
    BY ZenonT(60), <1>7, <1>8, <1>10
  <2>2. i \in Nat /\ j \in Nat
    BY <1>8
  <2>3. ~(j <= Len(r))
    BY ZenonT(60), <1>8, <1>10, <2>1, <2>2, LaterAlso
  <2> QED BY ZenonT(60), <1>6, <1>8, <2>3
<1> QED BY ZenonT(60), <1>2, <1>9, <1>10 DEF GoodAnswer

\* How select may end.
LEMMA SelectedServes ==
  ASSUME NEW w, Shape(w), NEW snap, Usable(snap.got), NEW s \in Selected(w, snap)
  PROVE  /\ s.got = {} /\ s.pc \in {"answered", "over"}
         /\ s.pc = "answered" => s.req = w.req /\ GoodAnswer(w.req, s.answer)
<1>1. CASE w.req.headersParse
  <2>1. PICK answer \in Ranked(w.req, snap.got) : s = Answer(w, snap.asOf, answer)
    BY ZenonT(60), <1>1 DEF Selected
  <2>2. GoodAnswer(w.req, answer)
    BY ZenonT(60), RankedServes
  <2>3. s.req = w.req /\ s.answer = answer /\ s.got = {} /\ s.pc = "answered"
    BY <2>1 DEF Answer, Shape
  <2> QED BY ZenonT(60), <2>2, <2>3
<1>2. CASE ~w.req.headersParse
  <2>1. s = Over
    BY ZenonT(60), <1>2 DEF Selected
  <2>2. Over.pc = "over" /\ Over.got = {}
    BY DEF Over, Idle
  <2> QED BY ZenonT(60), <2>1, <2>2
<1> QED BY <1>1, <1>2

\* Candidates of a finite listing, each of one route, are usable.
LEMMA FlattenedUsable ==
  ASSUME NEW got, IsFiniteSet(got), NEW f, NEW T,
         \A t \in T : \E r \in got : t = f[r] /\ Declares(t)
  PROVE  Usable(T)
<1> DEFINE G == {r \in got : f[r] \in T}
           g == [r \in G |-> f[r]]
<1>1. G \in SUBSET got
  BY ZenonT(60)
<1>2. g \in [G -> T]
  BY ZenonT(60)
<1>3. ASSUME NEW t \in T PROVE \E r \in G : g[r] = t
  BY ZenonT(60)
<1> HIDE DEF G, g
<1>4. g \in Surjection(G, T)
  BY ZenonT(60), <1>2, <1>3 DEF Surjection
<1>5. IsFiniteSet(G)
  BY ZenonT(60), <1>1, FS_Subset
<1>6. IsFiniteSet(T)
  BY ZenonT(60), <1>4, <1>5, FS_Surjection
<1> QED BY ZenonT(60), <1>6 DEF Usable

\* What SelectMany returns is usable.
LEMMA SelectManyUsable ==
  ASSUME NEW got, IsFiniteSet(got)
  PROVE  Usable(UNION {flattenSelectedRoute(r) : r \in got})
<1> DEFINE T == UNION {flattenSelectedRoute(r) : r \in got}
           d(r) == parseRouteProtocolDeclaration(r.protocol, r.extra)
           f == [r \in got |-> Candidate(r, d(r), r.extra.doc)]
<1>1. ASSUME NEW t \in T PROVE \E r \in got : t = f[r] /\ Declares(t)
  <2>1. PICK r \in got : t \in flattenSelectedRoute(r)
    BY ZenonT(60)
  <2>2. d(r) # None /\ t = Candidate(r, d(r), r.extra.doc)
    BY ZenonT(60), <2>1 DEF flattenSelectedRoute
  <2>3. t = f[r]
    BY ZenonT(60), <2>2
  <2>4. Declares(d(r))
    BY ZenonT(60), <2>2, DeclarationParsed
  <2> HIDE DEF d, f
  <2>5. Declares(t)
    BY ZenonT(60), <2>2, <2>4, CandidateDeclares
  <2> QED BY ZenonT(60), <2>3, <2>5
<1> HIDE DEF T, f
<1>2. Usable(T)
  BY ZenonT(60), <1>1, FlattenedUsable
<1> QED BY ZenonT(60), <1>2 DEF T

\* So is what a broker resolves to.
LEMMA ResolveUsable ==
  ASSUME NEW got, IsFiniteSet(got)
  PROVE  Usable(UNION {flattenResolveResult(r) : r \in got})
<1> DEFINE T == UNION {flattenResolveResult(r) : r \in got}
           x(r) == mergeExtra(r.nodeExtra, r.extra)
           d(r) == parseRouteProtocolDeclaration(protocolFromExtra(x(r)), x(r))
           f == [r \in got |-> Candidate(r, d(r), x(r).doc)]
<1>1. ASSUME NEW t \in T PROVE \E r \in got : t = f[r] /\ Declares(t)
  <2>1. PICK r \in got : t \in flattenResolveResult(r)
    BY ZenonT(60)
  <2>2. d(r) # None /\ t = Candidate(r, d(r), x(r).doc)
    BY ZenonT(60), <2>1 DEF flattenResolveResult
  <2>3. t = f[r]
    BY ZenonT(60), <2>2
  <2>4. Declares(d(r))
    BY ZenonT(60), <2>2, DeclarationParsed
  <2> HIDE DEF d, f
  <2>5. Declares(t)
    BY ZenonT(60), <2>2, <2>4, CandidateDeclares
  <2> QED BY ZenonT(60), <2>3, <2>5
<1> HIDE DEF T, f
<1>2. Usable(T)
  BY ZenonT(60), <1>1, FlattenedUsable
<1> QED BY ZenonT(60), <1>2 DEF T

\* What a call was handed by the resolver is finite; only inspect resolves
\* addresses or stores a snapshot again.
WaitOK(w) ==
  /\ IsFiniteSet(w.got)
  /\ w.pc \in {"resolving", "hit"} => w.req.kind = "inspect"
  /\ w.pc = "hit" => Usable(w.got)

ServeInv ==
  /\ FreshInv
  /\ listing \in DOMAIN Listings
  /\ \A key \in DOMAIN cache : Usable(cache[key].got)
  /\ \A c \in Calls : WaitOK(call[c])

\* What AnswersServe says of a step.
ServeStep ==
  \A c \in Calls :
     LET w == call'[c]
     IN  w.pc = "answered" /\ w # call[c] /\ w.req.kind # "inspect"
           => GoodAnswer(w.req, w.answer)

\* With an empty cache and no call, nothing was answered.
LEMMA InitServe == Init => ServeInv
<1> SUFFICES ASSUME Init PROVE ServeInv
  OBVIOUS
<1>1. call = [c \in Calls |-> Idle] /\ cache = <<>> /\ listing \in DOMAIN Listings
  BY DEF Init
<1>2. WaitOK(Idle)
  <2>1. Idle.got = {} /\ Idle.pc = "idle"
    BY DEF Idle
  <2> QED BY ZenonT(60), <2>1, FS_EmptySet DEF WaitOK
<1>3. DOMAIN cache = {}
  BY <1>1
<1>4. \A c \in Calls : WaitOK(call[c])
  BY ZenonT(60), <1>1, <1>2
<1> QED BY ZenonT(60), <1>1, <1>3, <1>4, InitFresh DEF ServeInv

\* A step of one call.
LEMMA CallServes ==
  ASSUME ServeInv, NEW c \in Calls, NEW w, WaitOK(w), call' = [call EXCEPT ![c] = w],
         w.pc = "answered" /\ w.req.kind # "inspect" => GoodAnswer(w.req, w.answer)
  PROVE  (\A d \in Calls : WaitOK(call'[d])) /\ ServeStep
<1>1. call'[c] = w /\ \A d \in Calls \ {c} : call'[d] = call[d]
  BY DEF ServeInv, FreshInv, CallsOK
<1>2. \A d \in Calls : WaitOK(call'[d])
  BY ZenonT(60), <1>1 DEF ServeInv
<1>3. ServeStep
  BY ZenonT(60), <1>1 DEF ServeStep
<1> QED BY <1>2, <1>3

\* The cache keeps usable candidates.
LEMMA CacheUsable ==
  ASSUME ServeInv, NEW key, NEW snap, Usable(snap.got), cache' = Put(cache, key, snap)
  PROVE  \A k \in DOMAIN cache' : Usable(cache'[k].got)
<1>1. DOMAIN cache' = DOMAIN cache \cup {key}
  BY ZenonT(60) DEF Put
<1>2. ASSUME NEW k \in DOMAIN cache' PROVE cache'[k] = IF k = key THEN snap ELSE cache[k]
  BY ZenonT(60), <1>1 DEF Put
<1>3. ASSUME NEW k \in DOMAIN cache' PROVE Usable(cache'[k].got)
  BY ZenonT(60), <1>1, <1>2 DEF ServeInv
<1> QED BY ZenonT(60), <1>3

\* A call that threw answered nothing.
LEMMA OverServes ==
  WaitOK(Over) /\ Over.pc # "answered"
<1>1. Over.got = {} /\ Over.pc = "over"
  BY DEF Over, Idle
<1> QED BY ZenonT(60), <1>1, FS_EmptySet DEF WaitOK

\* select, up to the answer or to the wait.
LEMMA SelectServes ==
  ASSUME ServeInv, NEW c \in Calls, NEW q, select(c, q) PROVE ServeInv' /\ ServeStep
<1> DEFINE w == [Idle EXCEPT !.req = q, !.at = now]
           a == [w EXCEPT !.pc = "asking"]
<1>0. FreshInv'
  BY ZenonT(60), SelectFresh DEF ServeInv
<1>1. Shape(w) /\ w.req = q
  BY ZenonT(60), BeginOK DEF ServeInv
<1>2. a.pc = "asking" /\ a.got = {}
  BY DEF Idle
<1>3. UNCHANGED <<cache, listing>>
  BY DEF select, allButCall
<1> HIDE DEF w, a
<1>4. CASE Fresh(CacheKey(q))
  <2>1. PICK s \in Selected(w, cache[CacheKey(q)]) : call' = [call EXCEPT ![c] = s]
    BY ZenonT(60), <1>4 DEF select, w
  <2>2. Usable(cache[CacheKey(q)].got)
    BY ZenonT(60), <1>4 DEF ServeInv, Fresh
  <2>3. /\ s.got = {} /\ s.pc \in {"answered", "over"}
        /\ s.pc = "answered" => s.req = w.req /\ GoodAnswer(w.req, s.answer)
    BY ZenonT(60), <1>1, <2>2, SelectedServes
  <2>4. WaitOK(s)
    BY ZenonT(60), <2>3, FS_EmptySet DEF WaitOK
  <2>5. (\A d \in Calls : WaitOK(call'[d])) /\ ServeStep
    BY ZenonT(60), <2>1, <2>3, <2>4, CallServes
  <2> QED BY ZenonT(60), <1>0, <1>3, <2>5 DEF ServeInv
<1>5. CASE ~Fresh(CacheKey(q))
  <2>1. call' = [call EXCEPT ![c] = a]
    BY ZenonT(60), <1>5 DEF select, a, w
  <2>2. WaitOK(a)
    BY ZenonT(60), <1>2, FS_EmptySet DEF WaitOK
  <2>3. (\A d \in Calls : WaitOK(call'[d])) /\ ServeStep
    BY ZenonT(60), <1>2, <2>1, <2>2, CallServes
  <2> QED BY ZenonT(60), <1>0, <1>3, <2>3 DEF ServeInv
<1> QED BY ZenonT(60), <1>4, <1>5

\* inspect, up to the wait for the resolver or the one after a hit.
LEMMA InspectServes ==
  ASSUME ServeInv, NEW c \in Calls, NEW q, inspect(c, q) PROVE ServeInv' /\ ServeStep
<1> DEFINE w == [Idle EXCEPT !.req = q, !.at = now]
           a == [w EXCEPT !.pc = "asking"]
           h == cache[InspectKey]
           s == [w EXCEPT !.pc = "hit", !.asOf = h.asOf, !.at = h.expiresAt, !.got = h.got]
<1>0. FreshInv' /\ UNCHANGED <<cache, listing>> /\ q.kind = "inspect"
  BY ZenonT(60), InspectFresh DEF ServeInv, inspect, allButCall
<1>1. (Fresh(InspectKey) /\ call' = [call EXCEPT ![c] = s]) \/ call' = [call EXCEPT ![c] = a]
  BY ZenonT(60) DEF inspect
<1>2. a.pc = "asking" /\ a.got = {}
  BY DEF Idle
<1>3. s.pc = "hit" /\ s.got = h.got /\ s.req = q
  BY DEF Idle
<1>4. Fresh(InspectKey) => Usable(h.got)
  BY ZenonT(60) DEF ServeInv, Fresh
<1> HIDE DEF w, a, h, s
<1>5. CASE call' = [call EXCEPT ![c] = a]
  <2>1. WaitOK(a)
    BY ZenonT(60), <1>2, FS_EmptySet DEF WaitOK
  <2>2. (\A d \in Calls : WaitOK(call'[d])) /\ ServeStep
    BY ZenonT(60), <1>2, <1>5, <2>1, CallServes
  <2> QED BY ZenonT(60), <1>0, <2>2 DEF ServeInv
<1>6. CASE Fresh(InspectKey) /\ call' = [call EXCEPT ![c] = s]
  <2>1. WaitOK(s)
    BY ZenonT(60), <1>0, <1>3, <1>4, <1>6 DEF WaitOK, Usable
  <2>2. (\A d \in Calls : WaitOK(call'[d])) /\ ServeStep
    BY ZenonT(60), <1>3, <1>6, <2>1, CallServes
  <2> QED BY ZenonT(60), <1>0, <2>2 DEF ServeInv
<1> QED BY ZenonT(60), <1>1, <1>5, <1>6

\* inspect, after a hit.
LEMMA HitServes ==
  ASSUME ServeInv, NEW c \in Calls, storeAgain(c) PROVE ServeInv' /\ ServeStep
<1> DEFINE w == call[c]
           snap == Snapshot(w.asOf, w.at, w.got)
           s == Answer(w, w.asOf, <<w.got>>)
<1>0. Shape(w) /\ WaitOK(w) /\ w.pc = "hit"
  BY ZenonT(60) DEF ServeInv, FreshInv, CallsOK, LoadOK, storeAgain
<1>1. FreshInv' /\ UNCHANGED listing
  BY ZenonT(60), HitFresh DEF ServeInv, storeAgain
<1>2. call' = [call EXCEPT ![c] = s] /\ cache' = Put(cache, InspectKey, snap)
  BY ZenonT(60) DEF storeAgain
<1> HIDE DEF w
<1>3. snap.got = w.got
  BY ZenonT(60) DEF Snapshot
<1>4. s.got = {} /\ s.pc = "answered" /\ s.req = w.req
  BY ZenonT(60), <1>0 DEF Shape, Answer
<1> HIDE DEF snap, s
<1>5. WaitOK(s) /\ s.req.kind = "inspect"
  BY ZenonT(60), <1>0, <1>4, FS_EmptySet DEF WaitOK
<1>6. (\A d \in Calls : WaitOK(call'[d])) /\ ServeStep
  BY ZenonT(60), <1>2, <1>5, CallServes
<1>7. \A k \in DOMAIN cache' : Usable(cache'[k].got)
  BY ZenonT(60), <1>0, <1>2, <1>3, CacheUsable DEF WaitOK
<1> QED BY ZenonT(60), <1>1, <1>6, <1>7 DEF ServeInv

\* A route that LOC names and the gateway can dispatch to.
LEMMA DispatchableServes ==
  ASSUME NEW q, NEW r, NEW d, d = mapRouteSnapshot(r), d # None,
         r.capability = q.capability, r.offering = q.offering, Dispatchable(q, r, d)
  PROVE  Serves(Candidate(r, d, r.extra.doc), q)
<1> DEFINE x == [r.extra EXCEPT !.protocol = None]
           k == Candidate(r, d, r.extra.doc)
<1>1. d = parseRouteProtocolDeclaration(r.protocol, x)
  BY ZenonT(60) DEF mapRouteSnapshot
<1> HIDE DEF x
<1>2. Declares(d)
  BY ZenonT(60), <1>1, DeclarationParsed
<1>3. /\ k.capability = r.capability /\ k.offering = r.offering
      /\ k.protocol = d.protocol /\ k.job = d.job /\ k.session = d.session
  BY ZenonT(60) DEF Candidate
<1> HIDE DEF k
<1>4. ASSUME q.capability = "video:transcode.abr"
      PROVE  k.session = None /\ {"unary", "stream"} \cap k.job.transports # {}
  <2>1. d.protocol = "paid-job/v1" /\ "stream" \in d.job.transports
    BY ZenonT(60), <1>4 DEF Dispatchable
  <2> QED BY ZenonT(60), <1>2, <1>3, <2>1 DEF Declares
<1>5. ASSUME q.capability = "video:transcode.live"
      PROVE  /\ k.job = None /\ k.session.descriptor = "rtmp-hls/v1"
             /\ k.session.metering = "runner-reported"
             /\ k.session.heartbeat.interval > 0 /\ k.session.lease # None
  <2>1. /\ d.protocol = "paid-session/v1" /\ d.session.descriptor = "rtmp-hls/v1"
        /\ d.session.metering = "runner-reported"
    BY ZenonT(60), <1>5, "video:transcode.live" # "video:transcode.abr" DEF Dispatchable
  <2> QED BY ZenonT(60), <1>2, <1>3, <2>1 DEF Declares, SessionDeclared
<1> QED BY ZenonT(60), <1>3, <1>4, <1>5 DEF Serves, k

\* LOC's discovery answers with a route that serves.
LEMMA WorkerServes ==
  ASSUME ServeInv, NEW c \in Calls, NEW q, selectWorker(c, q) PROVE ServeInv' /\ ServeStep
<1> DEFINE w == [Idle EXCEPT !.req = q, !.at = now]
<1>0. FreshInv' /\ UNCHANGED <<cache, listing>> /\ q.kind = "loc"
  BY ZenonT(60), WorkerFresh DEF ServeInv, selectWorker, allButCall
<1>1. ASSUME NEW answer, call' = [call EXCEPT ![c] = Answer(w, now, answer)],
             \A i \in DOMAIN answer : Serves(answer[i], q)
      PROVE  ServeInv' /\ ServeStep
  <2> DEFINE s == Answer(w, now, answer)
  <2>1. s.pc = "answered" /\ s.got = {} /\ s.req = q /\ s.answer = answer
    BY DEF Idle, Answer
  <2> HIDE DEF s
  <2>2. GoodAnswer(q, answer)
    BY ZenonT(60), <1>0, <1>1, "loc" # "select" DEF GoodAnswer
  <2>3. WaitOK(s)
    BY ZenonT(60), <2>1, FS_EmptySet DEF WaitOK
  <2>4. (\A d \in Calls : WaitOK(call'[d])) /\ ServeStep
    BY ZenonT(60), <1>1, <2>1, <2>2, <2>3, CallServes DEF s
  <2> QED BY ZenonT(60), <1>0, <2>4 DEF ServeInv
<1>2. CASE call' = [call EXCEPT ![c] = Over]
  <2>1. (\A d \in Calls : WaitOK(call'[d])) /\ ServeStep
    BY ZenonT(60), <1>2, OverServes, CallServes
  <2> QED BY ZenonT(60), <1>0, <2>1 DEF ServeInv
<1>3. CASE call' = [call EXCEPT ![c] = Answer(w, now, <<>>)]
  <2>1. DOMAIN <<>> = {}
    OBVIOUS
  <2> HIDE DEF w
  <2> QED BY ZenonT(60), <1>1, <1>3, <2>1
<1>4. ASSUME NEW r, NEW d, d = mapRouteSnapshot(r), d # None, r.capability = q.capability,
             r.offering = q.offering, Dispatchable(q, r, d),
             call' = [call EXCEPT ![c] = Answer(w, now, <<Candidate(r, d, r.extra.doc)>>)]
      PROVE  ServeInv' /\ ServeStep
  <2> DEFINE k == Candidate(r, d, r.extra.doc)
  <2>1. Serves(k, q)
    BY ZenonT(60), <1>4, DispatchableServes
  <2> HIDE DEF k, w
  <2>2. \A i \in DOMAIN <<k>> : <<k>>[i] = k
    OBVIOUS
  <2>3. \A i \in DOMAIN <<k>> : Serves(<<k>>[i], q)
    BY ZenonT(60), <2>1, <2>2
  <2>4. call' = [call EXCEPT ![c] = Answer(w, now, <<k>>)]
    BY ZenonT(60), <1>4 DEF k
  <2> QED BY ZenonT(60), <1>1, <2>3, <2>4
<1> HIDE DEF w
<1> QED BY ZenonT(60), <1>2, <1>3, <1>4 DEF selectWorker, w

\* What a step leaves to show when it answers no call.
LEMMA WaitServes ==
  ASSUME ServeInv, FreshInv', UNCHANGED <<cache, listing>>, NEW c \in Calls, NEW w,
         call' = [call EXCEPT ![c] = w], WaitOK(w), w.pc # "answered"
  PROVE  ServeInv' /\ ServeStep
<1>1. (\A d \in Calls : WaitOK(call'[d])) /\ ServeStep
  BY ZenonT(60), CallServes
<1> QED BY ZenonT(60), <1>1 DEF ServeInv

\* A call that asks the resolver.
LEMMA AskServes ==
  ASSUME ServeInv, NEW c \in Calls,
         selectMany(c) \/ listKnown(c) \/ \E eth : resolveByAddress(c, eth)
  PROVE  ServeInv' /\ ServeStep
<1> DEFINE w == call[c]
<1>0. /\ Shape(w) /\ WaitOK(w) /\ IsFiniteSet(Known)
      /\ call \in [Calls -> {call[d] : d \in Calls}]
  BY ZenonT(60), RouteAssumption DEF ServeInv, FreshInv, CallsOK, LoadOK, Known
<1>1. FreshInv' /\ UNCHANGED <<cache, listing>>
  BY ZenonT(60), AskFresh DEF ServeInv, selectMany, listKnown, resolveByAddress, allButCall
<1>2. CASE selectMany(c)
  <2> DEFINE got == {r \in Known : /\ r.capability = w.req.capability
                                   /\ r.offering = w.req.offering}
             v == [w EXCEPT !.pc = "loaded", !.asOf = now, !.got = got]
  <2>1. call' = [call EXCEPT ![c] = v]
    BY ZenonT(60), <1>2 DEF selectMany
  <2>2. got \in SUBSET Known
    BY ZenonT(60)
  <2> HIDE DEF w, got
  <2>3. v.pc = "loaded" /\ v.got = got
    BY ZenonT(60), <1>0 DEF Shape
  <2>4. IsFiniteSet(got)
    BY ZenonT(60), <1>0, <2>2, FS_Subset
  <2> HIDE DEF v
  <2>5. WaitOK(v)
    BY ZenonT(60), <2>3, <2>4 DEF WaitOK
  <2> QED BY ZenonT(60), <1>1, <2>1, <2>3, <2>5, WaitServes
<1>3. CASE listKnown(c)
  <2> DEFINE v == [w EXCEPT !.pc = "resolving", !.asOf = now, !.left = {r.eth : r \in Known}]
  <2>1. call' = [call EXCEPT ![c] = v] /\ w.req.kind = "inspect"
    BY ZenonT(60), <1>0, <1>3 DEF listKnown
  <2> HIDE DEF w
  <2>2. v.pc = "resolving" /\ v.got = w.got /\ v.req = w.req
    BY ZenonT(60), <1>0 DEF Shape
  <2> HIDE DEF v
  <2>3. WaitOK(v)
    BY ZenonT(60), <1>0, <2>1, <2>2 DEF WaitOK
  <2> QED BY ZenonT(60), <1>1, <2>1, <2>2, <2>3, WaitServes
<1>4. ASSUME NEW eth, resolveByAddress(c, eth) PROVE ServeInv' /\ ServeStep
  <2> DEFINE new == {r \in Known : r.eth = eth}
             v == [w EXCEPT !.left = @ \ {eth}, !.got = @ \cup new]
  <2>1. call' = [call EXCEPT ![c] = v] /\ w.pc = "resolving"
    BY ZenonT(60), <1>0, <1>4 DEF resolveByAddress
  <2>2. new \in SUBSET Known
    BY ZenonT(60)
  <2> HIDE DEF w, new
  <2>3. v.pc = w.pc /\ v.got = w.got \cup new /\ v.req = w.req
    BY ZenonT(60), <1>0 DEF Shape
  <2>4. IsFiniteSet(new)
    BY ZenonT(60), <1>0, <2>2, FS_Subset
  <2>5. IsFiniteSet(w.got \cup new)
    BY ZenonT(60), <1>0, <2>4, FS_Union DEF WaitOK
  <2> HIDE DEF v
  <2>6. WaitOK(v)
    BY ZenonT(60), <1>0, <2>1, <2>3, <2>5 DEF WaitOK
  <2> QED BY ZenonT(60), <1>1, <2>1, <2>3, <2>6, WaitServes
<1> QED BY ZenonT(60), <1>2, <1>3, <1>4

\* select, after the resolver answered.
LEMMA SelectLoadServes ==
  ASSUME ServeInv, NEW c \in Calls, loadSelectSnapshot(c) PROVE ServeInv' /\ ServeStep
<1> DEFINE w == call[c]
           got == UNION {flattenSelectedRoute(r) : r \in w.got}
           snap == Snapshot(w.asOf, w.at + TTL, got)
<1>0. Shape(w) /\ WaitOK(w)
  BY ZenonT(60) DEF ServeInv, FreshInv, CallsOK, LoadOK
<1>1. FreshInv' /\ UNCHANGED listing
  BY ZenonT(60), SelectLoadFresh DEF ServeInv, loadSelectSnapshot
<1>2. Usable(got)
  BY ZenonT(60), <1>0, SelectManyUsable DEF WaitOK
<1>3. \/ /\ \E s \in Selected(w, snap) : call' = [call EXCEPT ![c] = s]
         /\ cache' = Put(cache, CacheKey(w.req), snap)
      \/ call' = [call EXCEPT ![c] = Over] /\ UNCHANGED cache
  BY ZenonT(60) DEF loadSelectSnapshot
<1> HIDE DEF w, got
<1>4. snap.got = got
  BY ZenonT(60) DEF Snapshot
<1> HIDE DEF snap
<1>5. ASSUME NEW s \in Selected(w, snap), call' = [call EXCEPT ![c] = s],
             cache' = Put(cache, CacheKey(w.req), snap)
      PROVE  ServeInv' /\ ServeStep
  <2>1. /\ s.got = {} /\ s.pc \in {"answered", "over"}
        /\ s.pc = "answered" => s.req = w.req /\ GoodAnswer(w.req, s.answer)
    BY ZenonT(60), <1>0, <1>2, <1>4, SelectedServes
  <2>2. WaitOK(s)
    BY ZenonT(60), <2>1, FS_EmptySet DEF WaitOK
  <2>3. (\A d \in Calls : WaitOK(call'[d])) /\ ServeStep
    BY ZenonT(60), <1>5, <2>1, <2>2, CallServes
  <2>4. \A k \in DOMAIN cache' : Usable(cache'[k].got)
    BY ZenonT(60), <1>2, <1>4, <1>5, CacheUsable
  <2> QED BY ZenonT(60), <1>1, <2>3, <2>4 DEF ServeInv
<1>6. CASE call' = [call EXCEPT ![c] = Over] /\ UNCHANGED cache
  BY ZenonT(60), <1>1, <1>6, OverServes, WaitServes
<1> QED BY ZenonT(60), <1>3, <1>5, <1>6

\* inspect, after the resolver answered.
LEMMA InspectLoadServes ==
  ASSUME ServeInv, NEW c \in Calls, loadSnapshot(c) PROVE ServeInv' /\ ServeStep
<1> DEFINE w == call[c]
           got == UNION {flattenResolveResult(r) : r \in w.got}
           snap == Snapshot(w.asOf, w.at + TTL, got)
           s == Answer(w, w.asOf, <<snap.got>>)
<1>0. Shape(w) /\ WaitOK(w) /\ w.pc = "resolving"
  BY ZenonT(60) DEF ServeInv, FreshInv, CallsOK, LoadOK, loadSnapshot
<1>1. FreshInv' /\ UNCHANGED listing
  BY ZenonT(60), InspectLoadFresh DEF ServeInv, loadSnapshot
<1>2. Usable(got)
  BY ZenonT(60), <1>0, ResolveUsable DEF WaitOK
<1>3. \/ call' = [call EXCEPT ![c] = s] /\ cache' = Put(cache, InspectKey, snap)
      \/ call' = [call EXCEPT ![c] = Over] /\ UNCHANGED cache
  BY ZenonT(60) DEF loadSnapshot
<1> HIDE DEF w, got
<1>4. snap.got = got
  BY ZenonT(60) DEF Snapshot
<1> HIDE DEF snap
<1>5. s.got = {} /\ s.pc = "answered" /\ s.req = w.req
  BY ZenonT(60), <1>0 DEF Shape, Answer
<1> HIDE DEF s
<1>6. CASE call' = [call EXCEPT ![c] = s] /\ cache' = Put(cache, InspectKey, snap)
  <2>1. WaitOK(s) /\ s.req.kind = "inspect"
    BY ZenonT(60), <1>0, <1>5, FS_EmptySet DEF WaitOK
  <2>2. (\A d \in Calls : WaitOK(call'[d])) /\ ServeStep
    BY ZenonT(60), <1>6, <2>1, CallServes
  <2>3. \A k \in DOMAIN cache' : Usable(cache'[k].got)
    BY ZenonT(60), <1>2, <1>4, <1>6, CacheUsable
  <2> QED BY ZenonT(60), <1>1, <2>2, <2>3 DEF ServeInv
<1>7. CASE call' = [call EXCEPT ![c] = Over] /\ UNCHANGED cache
  BY ZenonT(60), <1>1, <1>7, OverServes, WaitServes
<1> QED BY ZenonT(60), <1>3, <1>6, <1>7

\* The resolver fails, or the caller reports how the route did.
LEMMA EndServes ==
  ASSUME ServeInv, NEW c \in Calls, ResolverFails(c) \/ \E o : recordOutcome(c, o)
  PROVE  ServeInv' /\ ServeStep
<1>1. UNCHANGED <<cache, listing>> /\ call' = [call EXCEPT ![c] = Over]
  BY DEF ResolverFails, recordOutcome, allButCall
<1>2. FreshInv'
  BY ZenonT(60), EndFresh DEF ServeInv
<1> QED BY ZenonT(60), <1>1, <1>2, OverServes, WaitServes

\* Steps that make no call.
LEMMA StillServes ==
  ASSUME ServeInv, UNCHANGED <<call, cache>>, now' \in {now, now + 1}, listing' \in DOMAIN Listings
  PROVE  ServeInv' /\ ServeStep
<1>1. FreshInv'
  BY ZenonT(60), StillFresh DEF ServeInv
<1>2. ServeStep
  BY ZenonT(60) DEF ServeStep
<1>3. \A c \in Calls : WaitOK(call'[c])
  BY ZenonT(60) DEF ServeInv
<1> QED BY ZenonT(60), <1>1, <1>2, <1>3 DEF ServeInv

\* Every step keeps the invariant and answers with routes that serve.
LEMMA NextServes == ServeInv /\ [Next]_vars => ServeInv' /\ ServeStep
<1> SUFFICES ASSUME ServeInv, [Next]_vars PROVE ServeInv' /\ ServeStep
  OBVIOUS
<1>0. listing \in DOMAIN Listings
  BY DEF ServeInv
<1>1. CASE UNCHANGED vars
  BY ZenonT(60), <1>0, <1>1, StillServes DEF vars
<1>2. ASSUME NEW url, suppressBroker(url) \/ unsuppressBroker(url)
      PROVE  ServeInv' /\ ServeStep
  BY ZenonT(60), <1>0, <1>2, StillServes DEF suppressBroker, unsuppressBroker
<1>3. CASE Relist \/ Tick
  BY ZenonT(60), <1>0, <1>3, StillServes DEF Relist, Tick
<1> QED BY ZenonT(60), <1>1, <1>2, <1>3, SelectServes, InspectServes, HitServes, WorkerServes, AskServes,
           SelectLoadServes, InspectLoadServes, EndServes DEF Next

\* Every route that select or selectWorker answers with can serve the request;
\* those of select are within its price and not suppressed, and no cooling one
\* stands before a ready one, for any listing of the resolver, any request and
\* any race of loads, outcomes and suppressions.
THEOREM AnswersServeHolds == Spec => AnswersServe
<1>1. ServeInv /\ [Next]_vars => ServeInv'
  BY NextServes
<1>2. ServeInv /\ [Next]_vars => AnswersServe!1
  BY NextServes DEF ServeStep, GoodAnswer
<1>3. Spec => []ServeInv /\ [][Next]_vars
  BY <1>1, InitServe, PTL DEF Spec
<1> QED BY <1>2, <1>3, PTL DEF AnswersServe

-----------------------------------------------------------------------------
(* Every set of candidates can be ranked.                                  *)

\* Some member of a finite set that R orders has nothing after it.
LEMMA LastExists ==
  ASSUME NEW U, IsFiniteSet(U), U # {}, NEW R,
         \A x \in U : <<x, x>> \notin R,
         \A x, y, z \in U : <<x, y>> \in R /\ <<y, z>> \in R => <<x, z>> \in R
  PROVE  \E m \in U : \A x \in U : <<m, x>> \notin R
<1> DEFINE A(m) == {x \in U : <<m, x>> \in R}
           F == {A(m) : m \in U}
           O == StrictSubsetOrdering(U)
<1>1. IsWellFoundedOn(O, SUBSET U)
  BY ZenonT(60), FS_StrictSubsetOrderingWellFounded, FS_FiniteSubsetsOfFinite
<1>2. \A s, t \in SUBSET U : s \subseteq t /\ s # t => <<s, t>> \in O
  BY DEF StrictSubsetOrdering
<1>3. F \subseteq SUBSET U /\ F # {}
  <2>1. PICK u \in U : TRUE
    OBVIOUS
  <2>2. A(u) \in F
    BY ZenonT(60)
  <2>3. \A m \in U : A(m) \in SUBSET U
    BY ZenonT(60)
  <2>4. ASSUME NEW b \in F PROVE b \in SUBSET U
    BY ZenonT(60), <2>3
  <2> HIDE DEF F
  <2> QED BY ZenonT(60), <2>2, <2>4
<1> HIDE DEF O
<1>4. PICK a \in F : \A b \in F : <<b, a>> \notin O
  <2> HIDE DEF F
  <2> QED BY ZenonT(60), <1>1, <1>3, WFMin
<1>5. PICK m \in U : a = A(m)
  OBVIOUS
<1>6. ASSUME NEW x \in U, <<m, x>> \in R PROVE FALSE
  <2>1. A(x) \subseteq A(m)
    BY <1>6
  <2>2. x \in A(m) /\ x \notin A(x)
    BY <1>6
  <2>3. A(x) \in F /\ A(x) \in SUBSET U /\ A(m) \in SUBSET U
    BY ZenonT(60)
  <2> HIDE DEF A, F
  <2> QED BY ZenonT(60), <1>2, <1>4, <1>5, <2>1, <2>2, <2>3
<1> QED BY ZenonT(60), <1>6

\* The list s has the members of V, each where R wants it.
Lists(s, n, V, R) ==
  /\ s \in [1 .. n -> V]
  /\ \A x \in V : \E i \in 1 .. n : s[i] = x
  /\ \A i, j \in 1 .. n : <<s[i], s[j]>> \in R => i < j

\* A last member goes to the end of the list of the others.
LEMMA ListExtends ==
  ASSUME NEW n \in Nat \ {0}, NEW V, NEW R, NEW m \in V,
         \A x \in V : <<m, x>> \notin R,
         NEW s, Lists(s, n - 1, V \ {m}, R)
  PROVE  \E t : Lists(t, n, V, R)
<1> DEFINE t == [i \in 1 .. n |-> IF i = n THEN m ELSE s[i]]
<1>1. ASSUME NEW i \in 1 .. n PROVE i = n \/ i \in 1 .. n - 1
  BY <1>1
<1>2. \A i \in 1 .. n - 1 : i \in 1 .. n /\ i # n /\ i < n /\ s[i] \in V
  BY DEF Lists
<1>3. t[n] = m /\ n \in 1 .. n
  OBVIOUS
<1>4. \A i \in 1 .. n - 1 : t[i] = s[i]
  BY <1>2
<1>5. t \in [1 .. n -> V]
  BY <1>1, <1>2
<1> HIDE DEF t
<1>6. ASSUME NEW x \in V PROVE \E i \in 1 .. n : t[i] = x
  <2>1. CASE x = m
    BY ZenonT(60), <2>1, <1>3
  <2>2. CASE x # m
    <3>1. PICK i \in 1 .. n - 1 : s[i] = x
      BY ZenonT(60), <2>2 DEF Lists
    <3> QED BY ZenonT(60), <3>1, <1>2, <1>4
  <2> QED BY ZenonT(60), <2>1, <2>2
<1>7. ASSUME NEW i \in 1 .. n, NEW j \in 1 .. n, <<t[i], t[j]>> \in R PROVE i < j
  <2>1. i # n
    <3>1. t[j] \in V
      BY ZenonT(60), <1>5
    <3> QED BY ZenonT(60), <1>3, <1>7, <3>1
  <2>2. i \in 1 .. n - 1
    BY ZenonT(60), <1>1, <2>1
  <2>3. CASE j = n
    BY ZenonT(60), <1>2, <2>2, <2>3
  <2>4. CASE j # n
    <3>1. j \in 1 .. n - 1
      BY ZenonT(60), <1>1, <2>4
    <3>2. <<s[i], s[j]>> \in R
      BY ZenonT(60), <1>4, <1>7, <2>2, <3>1
    <3> QED BY ZenonT(60), <2>2, <3>1, <3>2 DEF Lists
  <2> QED BY ZenonT(60), <2>3, <2>4
<1> QED BY ZenonT(60), <1>5, <1>6, <1>7 DEF Lists

\* What a finite set's order leaves open, some list of it decides.
LEMMA ListExists ==
  ASSUME NEW S, IsFiniteSet(S), NEW R,
         \A x \in S : <<x, x>> \notin R,
         \A x, y, z \in S : <<x, y>> \in R /\ <<y, z>> \in R => <<x, z>> \in R
  PROVE  \E s : Lists(s, Cardinality(S), S, R)
<1> DEFINE T == {n \in Nat : \A V \in SUBSET S : Cardinality(V) = n => \E s : Lists(s, n, V, R)}
           c == Cardinality(S)
<1>0. c \in Nat
  BY FS_CardinalityType
<1>1. ASSUME NEW V \in SUBSET S PROVE IsFiniteSet(V) /\ Cardinality(V) \in Nat
  BY ZenonT(60), FS_Subset, FS_CardinalityType
<1>2. 0 \in T
  <2> SUFFICES ASSUME NEW V \in SUBSET S, Cardinality(V) = 0 PROVE \E s : Lists(s, 0, V, R)
    OBVIOUS
  <2>1. V = {}
    BY ZenonT(60), <1>1, FS_EmptySet
  <2>2. Lists(<<>>, 0, V, R)
    BY <2>1 DEF Lists
  <2> QED BY ZenonT(60), <2>2
<1>3. ASSUME NEW n \in 1 .. c, n - 1 \in T PROVE n \in T
  <2>0. n \in Nat \ {0}
    BY <1>0, <1>3
  <2> SUFFICES ASSUME NEW V \in SUBSET S, Cardinality(V) = n PROVE \E s : Lists(s, n, V, R)
    BY <2>0
  <2>1. V # {}
    BY <2>0, FS_EmptySet
  <2>2. PICK m \in V : \A x \in V : <<m, x>> \notin R
    <3>1. \A x \in V : <<x, x>> \notin R
      BY ZenonT(60)
    <3>2. \A x, y, z \in V : <<x, y>> \in R /\ <<y, z>> \in R => <<x, z>> \in R
      BY ZenonT(60)
    <3> QED BY ZenonT(60), <1>1, <2>1, <3>1, <3>2, LastExists
  <2>3. V \ {m} \in SUBSET S /\ Cardinality(V \ {m}) = n - 1
    BY <1>1, FS_RemoveElement
  <2>4. PICK s : Lists(s, n - 1, V \ {m}, R)
    BY ZenonT(60), <1>3, <2>3
  <2> QED BY ZenonT(60), <2>0, <2>2, <2>4, ListExtends
<1> HIDE DEF T
<1>4. c \in T
  <2>1. \A i \in 0 .. c : i \in T
    BY ZenonT(60), <1>0, <1>2, <1>3, Upto
  <2> QED BY <1>0, <2>1
<1> USE DEF T
<1> QED BY ZenonT(60), <1>4

\* What compareCandidates compares is a number, beside the match itself.
Comparable(c, preferred) ==
  /\ countMatchingLeaves(c.doc, preferred) \in Nat
  /\ safeBigInt(c.price) \in Nat
  /\ c.url \in Nat /\ c.eth \in Nat

\* compareCandidates is a strict order.
LEMMA CompareOrders ==
  ASSUME NEW p, NEW a, NEW b, NEW c, Comparable(a, p), Comparable(b, p), Comparable(c, p)
  PROVE  /\ ~compareCandidates(a, a, p)
         /\ compareCandidates(a, b, p) /\ compareCandidates(b, c, p)
              => compareCandidates(a, c, p)
<1> DEFINE m(x) == countMatchingLeaves(x.doc, p)
           v(x) == safeBigInt(x.price)
           f(x) == isSubset(x.doc, p)
           after(x, y) == \/ m(x) > m(y)
                          \/ /\ m(x) = m(y)
                             /\ \/ v(x) < v(y)
                                \/ v(x) = v(y) /\ x.url < y.url
                                \/ v(x) = v(y) /\ x.url = y.url /\ x.eth < y.eth
<1>1. ASSUME NEW x, NEW y
      PROVE  compareCandidates(x, y, p) <=> \/ f(x) /\ ~f(y)
                                            \/ (f(x) <=> f(y)) /\ after(x, y)
  <2>1. \A z : f(z) \in BOOLEAN
    BY ZenonT(60) DEF isSubset
  <2>2. \A z : scorePreference(z.doc, p).fullMatch = f(z)
                 /\ scorePreference(z.doc, p).matchedLeaves = m(z)
    BY ZenonT(60) DEF scorePreference
  <2>3. (f(x) = f(y)) <=> (f(x) <=> f(y))
    BY ZenonT(60), <2>1
  <2> QED BY ZenonT(60), <2>2, <2>3 DEF compareCandidates
<1>2. ~after(a, a) /\ (after(a, b) /\ after(b, c) => after(a, c))
  BY DEF Comparable
<1> HIDE DEF after, f
<1> QED BY ZenonT(60), <1>1, <1>2

\* Whatever the resolver returned, a call of select has an answer to give: the
\* candidates that fit can be sorted by compareCandidates, ties and all.
THEOREM AlwaysRanked ==
  ASSUME NEW q, NEW candidates, IsFiniteSet(candidates),
         \A c \in candidates : Comparable(c, preferredExtra(q))
  PROVE  Ranked(q, candidates) # {}
<1> DEFINE fits(c) == /\ c.url \notin suppressed
                      /\ c.capability = q.capability
                      /\ c.offering = q.offering
                      /\ routeSatisfiesRequirement(c, routeRequirementForCapability(q.capability))
                      /\ q.maxPrice # None => safeBigInt(c.price) <= q.maxPrice
                      /\ isSubset(c.constraints, requiredConstraints(q))
                      /\ q.tier # None => candidateSupports(c, Mode(q.capability), q.tier)
           S == {c \in candidates : fits(c)}
           p == preferredExtra(q)
           R == {e \in S \X S : compareCandidates(e[1], e[2], p)}
<1>1. S \in SUBSET candidates /\ \A c \in S : Comparable(c, p)
  BY ZenonT(60)
<1>2. Ranked(q, candidates) =
        {rankCandidates(s) : s \in
           {s \in [1 .. Cardinality(S) -> S] :
              Range(s) = S /\ \A i, j \in DOMAIN s : compareCandidates(s[i], s[j], p) => i < j}}
  BY ZenonT(60) DEF Ranked, Sorted
<1> HIDE DEF S, p
<1>3. IsFiniteSet(S)
  BY ZenonT(60), <1>1, FS_Subset
<1>4. \A x, y \in S : <<x, y>> \in R <=> compareCandidates(x, y, p)
  OBVIOUS
<1> HIDE DEF R
<1>5. \A x \in S : <<x, x>> \notin R
  BY ZenonT(60), <1>1, <1>4, CompareOrders
<1>6. \A x, y, z \in S : <<x, y>> \in R /\ <<y, z>> \in R => <<x, z>> \in R
  BY ZenonT(60), <1>1, <1>4, CompareOrders
<1>7. PICK s : Lists(s, Cardinality(S), S, R)
  BY ZenonT(60), <1>3, <1>5, <1>6, ListExists
<1>8. s \in [1 .. Cardinality(S) -> S]
  BY ZenonT(60), <1>7 DEF Lists
<1>9. Range(s) = S
  BY ZenonT(60), <1>7, <1>8 DEF Lists, Range
<1>10. \A i, j \in DOMAIN s : compareCandidates(s[i], s[j], p) => i < j
  BY ZenonT(60), <1>4, <1>7, <1>8 DEF Lists
<1> QED BY ZenonT(60), <1>2, <1>8, <1>9, <1>10
=============================================================================
