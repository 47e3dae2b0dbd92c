-------------------------- MODULE StateUpgradeProofs --------------------------
(***************************************************************************)
(* The theorems of StateUpgrade.  Most of the work is about what one       *)
(* upgrade computes: that the order in which Go visits the renames makes   *)
(* no difference, which kinds the values have afterwards, and where what a *)
(* user set has gone.                                                      *)
(***************************************************************************)
EXTENDS StateUpgrade, FiniteSetTheorems, TLAPS

-----------------------------------------------------------------------------
(* Induction, and functions defined by it. *)

LEMMA Least ==
    ASSUME NEW T \in SUBSET Nat, T # {}
    PROVE  \E x \in T : \A y \in T : ~(y < x)
<1>1. IsWellFoundedOn(OpToRel(<, Nat), Nat)
  BY NatLessThanWellFounded
<1>2. \E x \in T : \A y \in T : <<y, x>> \notin OpToRel(<, Nat)
  BY <1>1, WFMin
<1> QED
  BY <1>2 DEF OpToRel

LEMMA Induction ==
    ASSUME NEW P, 0 \in P, \A n \in Nat : n \in P => n + 1 \in P
    PROVE  Nat \subseteq P
<1> SUFFICES ASSUME ~(Nat \subseteq P) PROVE FALSE
  OBVIOUS
<1>1. PICK x \in Nat \ P : \A y \in Nat \ P : ~(y < x)
  BY Least
<1>2. x # 0 /\ x - 1 \in Nat /\ x - 1 < x
  BY <1>1
<1> QED
  BY <1>1, <1>2

LEMMA UpTo ==
    ASSUME NEW n \in Nat, NEW P, 0 \in P, \A i \in 1 .. n : i - 1 \in P => i \in P
    PROVE  0 .. n \subseteq P
<1> DEFINE Q == {i \in Nat : i <= n => i \in P}
<1>1. 0 \in Q
  OBVIOUS
<1>2. ASSUME NEW i \in Nat, i \in Q PROVE i + 1 \in Q
  BY <1>2
<1> HIDE DEF Q
<1>3. Nat \subseteq Q
  BY <1>1, <1>2, Induction
<1> QED
  BY <1>3 DEF Q

IsRun(g, base, next, n) == g[0] = base /\ \A i \in 1 .. n : g[i] = next[i][g[i - 1]]

LEMMA Recursion ==
    ASSUME NEW X, NEW base \in X, NEW n \in Nat, NEW next \in [1 .. n -> [X -> X]]
    PROVE  \E g \in [0 .. n -> X] : IsRun(g, base, next, n)
<1> DEFINE Is(g, k) == g[0] = base /\ \A i \in 1 .. k : g[i] = next[i][g[i - 1]]
           P == {k \in 0 .. n : \E g \in [0 .. k -> X] : Is(g, k)}
<1>1. 0 \in P
  <2>1. [i \in 0 .. 0 |-> base] \in [0 .. 0 -> X]
    OBVIOUS
  <2>2. Is([i \in 0 .. 0 |-> base], 0)
    OBVIOUS
  <2> HIDE DEF Is
  <2> QED
    BY <2>1, <2>2
<1>2. ASSUME NEW k \in 1 .. n, k - 1 \in P PROVE k \in P
  <2>1. PICK g \in [0 .. k - 1 -> X] : Is(g, k - 1)
    <3> HIDE DEF Is
    <3> QED
      BY <1>2
  <2> DEFINE h == [i \in 0 .. k |-> IF i = k THEN next[k][g[k - 1]] ELSE g[i]]
  <2>2. g[k - 1] \in X /\ next[k] \in [X -> X]
    OBVIOUS
  <2>3. h \in [0 .. k -> X]
    BY <2>2
  <2>4. Is(h, k)
    BY <2>1
  <2> HIDE DEF Is, h
  <2> QED
    BY <2>3, <2>4
<1> HIDE DEF P
<1>3. 0 .. n \subseteq P
  BY <1>1, <1>2, UpTo
<1> HIDE DEF Is
<1>4. \E g \in [0 .. n -> X] : Is(g, n)
  BY <1>3 DEF P
<1> QED
  BY <1>4 DEF Is, IsRun

-----------------------------------------------------------------------------
(* The renames of a step. *)

States == UNION {[D -> StateValues] : D \in SUBSET StateNames}
Results == States \cup {Unreadable}
Renamings == UNION {[D -> StateNames] : D \in SUBSET StateNames}

LEMMA RenameType ==
    ASSUME NEW m \in States, NEW old \in StateNames, NEW new \in StateNames
    PROVE  Rename(m, old, new) \in States
<1>1. PICK D \in SUBSET StateNames : m \in [D -> StateValues]
  BY DEF States
<1>2. CASE old \notin D
  BY <1>1, <1>2 DEF Rename
<1>3. CASE old \in D
  <2> DEFINE E == (D \cup {new}) \ {old}
  <2>1. Rename(m, old, new) \in [E -> StateValues]
    BY <1>1, <1>3 DEF Rename
  <2> QED
    BY <2>1 DEF States
<1> QED
  BY <1>2, <1>3

LEMMA RenamedRuns ==
    ASSUME NEW m \in States, NEW renames \in Renamings, NEW order \in Seq(StateNames)
    PROVE  \E after \in [0 .. Len(order) -> States] :
             /\ after[0] = m
             /\ \A i \in 1 .. Len(order) :
                  after[i] = IF order[i] \in DOMAIN renames
                             THEN Rename(after[i - 1], order[i], renames[order[i]])
                             ELSE after[i - 1]
             /\ Renamed(m, renames, order) = after[Len(order)]
<1> DEFINE n == Len(order)
           Visit(r, i) == IF order[i] \in DOMAIN renames
                          THEN Rename(r, order[i], renames[order[i]])
                          ELSE r
           Is(g) == g = [i \in 0 .. n |-> IF i = 0 THEN m ELSE Visit(g[i - 1], i)]
           next == [i \in 1 .. n |-> [r \in States |-> Visit(r, i)]]
           after == CHOOSE g : Is(g)
<1>0. n \in Nat
  OBVIOUS
<1>1. ASSUME NEW i \in 1 .. n, NEW r \in States PROVE Visit(r, i) \in States
  BY RenameType DEF Renamings
<1>2. Renamed(m, renames, order) = after[n]
  BY DEF Renamed
<1> HIDE DEF Visit, n
<1>3. next \in [1 .. n -> [States -> States]]
  BY <1>1
<1>4. PICK g \in [0 .. n -> States] : g[0] = m /\ \A i \in 1 .. n : g[i] = next[i][g[i - 1]]
  <2> HIDE DEF next
  <2>1. \E g \in [0 .. n -> States] : IsRun(g, m, next, n)
    BY <1>0, <1>3, Recursion
  <2> QED
    BY <2>1 DEF IsRun
<1>5. Is(g)
  <2>1. ASSUME NEW i \in 1 .. n PROVE g[i] = Visit(g[i - 1], i)
    <3>1. g[i - 1] \in States
      BY <1>0
    <3> QED
      BY <1>4, <3>1
  <2> HIDE DEF next
  <2> QED
    BY <1>0, <1>4, <2>1
<1> HIDE DEF Is
<1>6. Is(after)
  BY <1>5
<1> HIDE DEF after
<1>7. /\ DOMAIN after = 0 .. n /\ after = [i \in 0 .. n |-> after[i]]
      /\ after[0] = m
      /\ \A i \in 1 .. n : after[i] = Visit(after[i - 1], i)
  <2>1. after = [i \in 0 .. n |-> IF i = 0 THEN m ELSE Visit(after[i - 1], i)]
    BY <1>6 DEF Is
  <2>2. DOMAIN after = 0 .. n /\ after = [i \in 0 .. n |-> after[i]]
    BY <2>1, Zenon
  <2>3. \A i \in 0 .. n : after[i] = IF i = 0 THEN m ELSE Visit(after[i - 1], i)
    BY <2>1, Zenon
  <2> QED
    BY <1>0, <2>2, <2>3
<1>8. after \in [0 .. n -> States]
  <2> DEFINE P == {i \in 0 .. n : after[i] \in States}
  <2>1. 0 \in P
    BY <1>0, <1>7
  <2>2. ASSUME NEW i \in 1 .. n, i - 1 \in P PROVE i \in P
    BY <1>0, <1>1, <1>7, <2>2
  <2> HIDE DEF P
  <2>3. 0 .. n \subseteq P
    BY <1>0, <2>1, <2>2, UpTo
  <2> QED
    BY <1>7, <2>3 DEF P
<1> QED
  BY <1>2, <1>7, <1>8 DEF n, Visit

(* What it comes to: once the names in seen have been visited, a value has *)
(* its new name unless that one has a value of its own.                    *)
Simple(renames) ==
    \A o, p \in DOMAIN renames :
      renames[o] \notin DOMAIN renames /\ (renames[o] = renames[p] => o = p)

Moved(m, renames, seen) == DOMAIN m \cap DOMAIN renames \cap seen

Merged(m, renames, seen) ==
    LET moved == Moved(m, renames, seen)
    IN [n \in (DOMAIN m \ moved) \cup {renames[o] : o \in moved} |->
          IF (n \in DOMAIN m /\ m[n] # Nil) \/ ~ \E o \in moved : renames[o] = n
          THEN m[n]
          ELSE m[CHOOSE o \in moved : renames[o] = n]]

IsMerged(f, m, renames, moved) ==
    /\ DOMAIN f = (DOMAIN m \ moved) \cup {renames[o] : o \in moved}
    /\ \A n \in DOMAIN m \ moved : (m[n] # Nil \/ \A o \in moved : renames[o] # n) => f[n] = m[n]
    /\ \A o \in moved :
         f[renames[o]] = IF renames[o] \in DOMAIN m /\ m[renames[o]] # Nil THEN m[renames[o]] ELSE m[o]

LEMMA MergedAt ==
    ASSUME NEW m \in States, NEW renames \in Renamings, Simple(renames), NEW seen
    PROVE  IsMerged(Merged(m, renames, seen), m, renames, Moved(m, renames, seen))
<1> DEFINE moved == Moved(m, renames, seen)
           From(n) == CHOOSE o \in moved : renames[o] = n
<1>1. ASSUME NEW o \in moved PROVE From(renames[o]) = o
  BY DEF Simple, Moved
<1>2. Merged(m, renames, seen) =
        [n \in (DOMAIN m \ moved) \cup {renames[o] : o \in moved} |->
           IF (n \in DOMAIN m /\ m[n] # Nil) \/ ~ \E o \in moved : renames[o] = n
           THEN m[n]
           ELSE m[From(n)]]
  BY DEF Merged
<1> HIDE DEF moved, From
<1>3. ASSUME NEW o \in moved
      PROVE  Merged(m, renames, seen)[renames[o]] =
               IF renames[o] \in DOMAIN m /\ m[renames[o]] # Nil THEN m[renames[o]] ELSE m[o]
  BY <1>1, <1>2
<1>4. ASSUME NEW n \in DOMAIN m \ moved, m[n] # Nil \/ \A o \in moved : renames[o] # n
      PROVE  Merged(m, renames, seen)[n] = m[n]
  BY <1>2, <1>4
<1>5. DOMAIN Merged(m, renames, seen) = (DOMAIN m \ moved) \cup {renames[o] : o \in moved}
  BY <1>2
<1> QED
  BY <1>3, <1>4, <1>5 DEF moved, IsMerged

LEMMA MergedIsAFunction ==
    \A m, renames, seen : Merged(m, renames, seen) =
      [n \in DOMAIN Merged(m, renames, seen) |-> Merged(m, renames, seen)[n]]
BY DEF Merged

LEMMA MergedVisit ==
    ASSUME NEW m \in States, NEW renames \in Renamings, Simple(renames), NEW seen, NEW old
    PROVE  Merged(m, renames, seen \cup {old}) =
             IF old \in DOMAIN renames
             THEN Rename(Merged(m, renames, seen), old, renames[old])
             ELSE Merged(m, renames, seen)
<1> DEFINE before == Merged(m, renames, seen)
           moved == Moved(m, renames, seen)
           all == seen \cup {old}
<1>1. /\ DOMAIN before = (DOMAIN m \ moved) \cup {renames[o] : o \in moved}
      /\ \A n \in DOMAIN m \ moved : (m[n] # Nil \/ \A o \in moved : renames[o] # n) => before[n] = m[n]
      /\ \A o \in moved : before[renames[o]] =
           IF renames[o] \in DOMAIN m /\ m[renames[o]] # Nil THEN m[renames[o]] ELSE m[o]
  <2>1. IsMerged(before, m, renames, moved)
    BY MergedAt
  <2> QED
    BY <2>1 DEF IsMerged
<1>2. CASE Moved(m, renames, all) = moved
  <2>1. Merged(m, renames, all) = before
    BY <1>2 DEF Merged
  <2>2. old \in DOMAIN renames => old \notin DOMAIN before
    BY <1>1, <1>2 DEF Simple, Moved
  <2> QED
    BY <2>1, <2>2 DEF Rename
<1>3. CASE Moved(m, renames, all) # moved
  <2> DEFINE new == renames[old]
             later == Merged(m, renames, all)
             result == Rename(before, old, new)
  <2>1. /\ old \in DOMAIN m /\ old \in DOMAIN renames /\ old \notin moved
        /\ Moved(m, renames, all) = moved \cup {old}
    BY <1>3 DEF Moved
  <2>2. \A o \in moved : o \in DOMAIN renames /\ o \in DOMAIN m
    BY DEF Moved
  <2>3. /\ old \in DOMAIN before /\ before[old] = m[old]
        /\ new \notin moved /\ new # old
        /\ \A o \in moved : renames[o] # new /\ renames[o] # old
    BY <1>1, <2>1, <2>2 DEF Simple
  <2>4. new \in DOMAIN before <=> new \in DOMAIN m
    BY <1>1, <2>3
  <2>5. new \in DOMAIN m => before[new] = m[new]
    BY <1>1, <2>3
  <2>6. /\ DOMAIN later = (DOMAIN m \ (moved \cup {old})) \cup {renames[o] : o \in moved \cup {old}}
        /\ \A n \in DOMAIN m \ (moved \cup {old}) :
             (m[n] # Nil \/ \A o \in moved \cup {old} : renames[o] # n) => later[n] = m[n]
        /\ \A o \in moved \cup {old} : later[renames[o]] =
             IF renames[o] \in DOMAIN m /\ m[renames[o]] # Nil THEN m[renames[o]] ELSE m[o]
    <3>1. IsMerged(later, m, renames, Moved(m, renames, all))
      BY MergedAt
    <3> QED
      BY <2>1, <3>1 DEF IsMerged
  <2>7. /\ DOMAIN result = (DOMAIN before \cup {new}) \ {old}
        /\ \A n \in DOMAIN result :
             result[n] = IF n = new /\ (new \notin DOMAIN before \/ before[new] = Nil)
                         THEN before[old] ELSE before[n]
        /\ result = [n \in DOMAIN result |-> result[n]]
    BY <2>3 DEF Rename
  <2>8. later = [n \in DOMAIN later |-> later[n]]
    BY MergedIsAFunction
  <2> HIDE DEF before, later, result, moved, new
  <2>9. DOMAIN later = DOMAIN result
    BY <1>1, <2>1, <2>3, <2>6, <2>7 DEF new
  <2>10. ASSUME NEW n \in DOMAIN later PROVE later[n] = result[n]
    <3>1. CASE n = new
      BY <2>1, <2>3, <2>4, <2>5, <2>6, <2>7, <2>9, <3>1 DEF new
    <3>2. CASE \E o \in moved : n = renames[o]
      BY <1>1, <2>3, <2>6, <2>7, <2>9, <3>2
    <3>3. CASE n # new /\ ~ \E o \in moved : n = renames[o]
      <4>1. n \in DOMAIN m \ (moved \cup {old})
        BY <2>6, <3>3 DEF new
      <4>2. later[n] = m[n] /\ before[n] = m[n]
        BY <1>1, <2>6, <3>3, <4>1 DEF new
      <4> QED
        BY <2>7, <2>9, <3>3, <4>2
    <3> QED
      BY <3>1, <3>2, <3>3
  <2> QED
    BY <2>1, <2>7, <2>8, <2>9, <2>10 DEF before, later, result, new
<1> QED
  BY <1>2, <1>3

LEMMA OrdersVisitAll ==
    ASSUME NEW order \in Orders
    PROVE  order \in Seq(StateNames) /\ {order[i] : i \in 1 .. Len(order)} = StateNames
<1> DEFINE n == Cardinality(StateNames)
<1>1. n \in Nat
  BY StateNamesAssumption, FS_CardinalityType
<1>2. order \in [1 .. n -> StateNames] /\ \A i, j \in 1 .. n : i # j => order[i] # order[j]
  BY DEF Orders, SetToSeqs
<1>3. Cardinality(1 .. n) = n
  BY <1>1, FS_Interval
<1>4. order \in Injection(1 .. n, StateNames)
  BY <1>2 DEF Injection, IsInjective
<1>5. order \in Surjection(1 .. n, StateNames)
  BY <1>3, <1>4, StateNamesAssumption, FS_Injection
<1> HIDE DEF n
<1>6. order \in Seq(StateNames) /\ Len(order) = n
  BY <1>1, <1>2
<1>7. \A t \in StateNames : \E i \in 1 .. n : order[i] = t
  BY <1>5 DEF Surjection
<1> QED
  BY <1>2, <1>6, <1>7

LEMMA RenamedIs ==
    ASSUME NEW m \in States, NEW renames \in Renamings, Simple(renames), NEW order \in Orders
    PROVE  Renamed(m, renames, order) = Merged(m, renames, StateNames)
<1> DEFINE n == Len(order)
           Seen(i) == {order[j] : j \in 1 .. i}
<1>1. order \in Seq(StateNames) /\ Seen(n) = StateNames
  BY OrdersVisitAll
<1>2. PICK after \in [0 .. n -> States] :
        /\ after[0] = m
        /\ \A i \in 1 .. n :
             after[i] = IF order[i] \in DOMAIN renames
                        THEN Rename(after[i - 1], order[i], renames[order[i]])
                        ELSE after[i - 1]
        /\ Renamed(m, renames, order) = after[n]
  BY <1>1, RenamedRuns
<1> DEFINE P == {i \in 0 .. n : after[i] = Merged(m, renames, Seen(i))}
<1>3. 0 \in P
  <2>1. Moved(m, renames, Seen(0)) = {}
    BY DEF Moved
  <2>2. IsMerged(Merged(m, renames, Seen(0)), m, renames, {})
    BY <2>1, MergedAt
  <2>3. Merged(m, renames, Seen(0)) = [k \in DOMAIN m |-> m[k]]
    BY <2>2, MergedIsAFunction DEF IsMerged
  <2>4. m = [k \in DOMAIN m |-> m[k]]
    BY DEF States
  <2> QED
    BY <1>1, <1>2, <2>3, <2>4
<1>4. ASSUME NEW i \in 1 .. n, i - 1 \in P PROVE i \in P
  <2>1. Seen(i) = Seen(i - 1) \cup {order[i]}
    BY <1>1
  <2>2. after[i - 1] = Merged(m, renames, Seen(i - 1))
    BY <1>4
  <2> HIDE DEF Seen
  <2>3. Merged(m, renames, Seen(i)) =
          IF order[i] \in DOMAIN renames
          THEN Rename(Merged(m, renames, Seen(i - 1)), order[i], renames[order[i]])
          ELSE Merged(m, renames, Seen(i - 1))
    <3>1. \A seen, old : Merged(m, renames, seen \cup {old}) =
            IF old \in DOMAIN renames
            THEN Rename(Merged(m, renames, seen), old, renames[old])
            ELSE Merged(m, renames, seen)
      BY MergedVisit
    <3> QED
      BY <2>1, <3>1, Zenon
  <2>4. after[i] = Merged(m, renames, Seen(i))
    BY <1>2, <2>2, <2>3
  <2> QED
    BY <1>1, <2>4
<1> HIDE DEF P
<1>5. 0 .. n \subseteq P
  BY <1>1, <1>3, <1>4, UpTo
<1>6. n \in P
  BY <1>1, <1>5
<1> QED
  BY <1>1, <1>2, <1>6 DEF P

-----------------------------------------------------------------------------
(* One step, and the steps of a release. *)

LEMMA RenamedType ==
    ASSUME NEW m \in States, NEW renames \in Renamings, NEW order \in Orders
    PROVE  Renamed(m, renames, order) \in States
<1>1. order \in Seq(StateNames) /\ Len(order) \in 0 .. Len(order)
  BY OrdersVisitAll
<1> QED
  BY <1>1, RenamedRuns

LEMMA ConvertedType ==
    ASSUME NEW v \in StateValues, NEW n, NEW step
    PROVE  Converted(v, n, step) \in StateValues
BY DEF Converted, AsNumber, AsText, StateValues, StateKinds, Nil

LEMMA StepType ==
    ASSUME NEW r \in Results, NEW step \in StepRecords, NEW order \in Orders
    PROVE  ApplyStep(r, step, order) \in Results
<1> DEFINE renamed == Renamed(r, step.renames, order)
<1>1. CASE ApplyStep(r, step, order) = Unreadable
  BY <1>1 DEF Results
<1>2. CASE ApplyStep(r, step, order) # Unreadable
  <2>1. r \in States /\ step.renames \in Renamings
    BY <1>2 DEF ApplyStep, Results, StepRecords, Renamings
  <2>2. renamed \in States
    BY <2>1, RenamedType
  <2>3. ApplyStep(r, step, order) = [n \in DOMAIN renamed \ step.drop |-> Converted(renamed[n], n, step)]
    BY <1>2 DEF ApplyStep
  <2> HIDE DEF renamed
  <2>4. DOMAIN renamed \subseteq StateNames /\ \A n \in DOMAIN renamed : renamed[n] \in StateValues
    BY <2>2 DEF States
  <2>5. ApplyStep(r, step, order) \in [DOMAIN renamed \ step.drop -> StateValues]
    BY <2>3, <2>4, ConvertedType
  <2> QED
    BY <2>4, <2>5 DEF Results, States
<1> QED
  BY <1>1, <1>2

LEMMA StepAnyOrder ==
    ASSUME NEW r \in Results, NEW step \in StepRecords, Simple(step.renames),
           NEW order \in Orders, NEW other \in Orders
    PROVE  ApplyStep(r, step, order) = ApplyStep(r, step, other)
<1>1. CASE r = Unreadable
  BY <1>1 DEF ApplyStep
<1>2. CASE r \in States
  <2>1. step.renames \in Renamings
    BY DEF StepRecords, Renamings
  <2>2. Renamed(r, step.renames, order) = Renamed(r, step.renames, other)
    BY <1>2, <2>1, RenamedIs
  <2> QED
    BY <2>2 DEF ApplyStep
<1> QED
  BY <1>1, <1>2 DEF Results

IsUpgrade(after, m, from, steps, order) ==
    /\ after[0] = m
    /\ \A i \in 1 .. Len(steps) :
         after[i] = IF Applies(steps[i], from) THEN ApplyStep(after[i - 1], steps[i], order)
                    ELSE after[i - 1]
    /\ StepsApplied(m, from, steps, order) = after[Len(steps)]

LEMMA StepsRun ==
    ASSUME NEW m \in Results, NEW from, NEW steps \in Seq(StepRecords), NEW order \in Orders
    PROVE  \E after \in [0 .. Len(steps) -> Results] : IsUpgrade(after, m, from, steps, order)
<1> DEFINE n == Len(steps)
           Turn(r, i) == IF Applies(steps[i], from) THEN ApplyStep(r, steps[i], order) ELSE r
           Is(g) == g = [i \in 0 .. n |-> IF i = 0 THEN m ELSE Turn(g[i - 1], i)]
           next == [i \in 1 .. n |-> [r \in Results |-> Turn(r, i)]]
           after == CHOOSE g : Is(g)
<1>0. n \in Nat
  OBVIOUS
<1>1. ASSUME NEW i \in 1 .. n, NEW r \in Results PROVE Turn(r, i) \in Results
  BY StepType
<1>2. StepsApplied(m, from, steps, order) = after[n]
  BY DEF StepsApplied
<1> HIDE DEF Turn, n
<1>3. next \in [1 .. n -> [Results -> Results]]
  BY <1>1
<1>4. PICK g \in [0 .. n -> Results] : g[0] = m /\ \A i \in 1 .. n : g[i] = next[i][g[i - 1]]
  <2> HIDE DEF next
  <2>1. \E g \in [0 .. n -> Results] : IsRun(g, m, next, n)
    BY <1>0, <1>3, Recursion
  <2> QED
    BY <2>1 DEF IsRun
<1>5. Is(g)
  <2>1. ASSUME NEW i \in 1 .. n PROVE g[i] = Turn(g[i - 1], i)
    <3>1. g[i - 1] \in Results
      BY <1>0
    <3> QED
      BY <1>4, <3>1
  <2> HIDE DEF next
  <2> QED
    BY <1>0, <1>4, <2>1
<1> HIDE DEF Is
<1>6. Is(after)
  BY <1>5
<1> HIDE DEF after
<1>7. /\ DOMAIN after = 0 .. n /\ after = [i \in 0 .. n |-> after[i]]
      /\ after[0] = m
      /\ \A i \in 1 .. n : after[i] = Turn(after[i - 1], i)
  <2>1. after = [i \in 0 .. n |-> IF i = 0 THEN m ELSE Turn(after[i - 1], i)]
    BY <1>6 DEF Is
  <2>2. DOMAIN after = 0 .. n /\ after = [i \in 0 .. n |-> after[i]]
    BY <2>1, Zenon
  <2>3. \A i \in 0 .. n : after[i] = IF i = 0 THEN m ELSE Turn(after[i - 1], i)
    BY <2>1, Zenon
  <2> QED
    BY <1>0, <2>2, <2>3
<1>8. after \in [0 .. n -> Results]
  <2> DEFINE P == {i \in 0 .. n : after[i] \in Results}
  <2>1. 0 \in P
    BY <1>0, <1>7
  <2>2. ASSUME NEW i \in 1 .. n, i - 1 \in P PROVE i \in P
    BY <1>0, <1>1, <1>7, <2>2
  <2> HIDE DEF P
  <2>3. 0 .. n \subseteq P
    BY <1>0, <2>1, <2>2, UpTo
  <2> QED
    BY <1>7, <2>3 DEF P
<1> QED
  BY <1>2, <1>7, <1>8 DEF n, Turn, IsUpgrade

LEMMA StepsType ==
    ASSUME NEW m \in Results, NEW from, NEW steps \in Seq(StepRecords), NEW order \in Orders
    PROVE  StepsApplied(m, from, steps, order) \in Results
<1>1. Len(steps) \in 0 .. Len(steps)
  OBVIOUS
<1> QED
  BY <1>1, StepsRun DEF IsUpgrade

(* UpgradeState does not depend on the order in which Go visits the map of *)
(* a step's renames, even where a new name has a value already.            *)
THEOREM StepsAnyOrder ==
    ASSUME NEW m \in Results, NEW from, NEW steps \in Seq(StepRecords),
           \A i \in DOMAIN steps : Simple(steps[i].renames),
           NEW order \in Orders, NEW other \in Orders
    PROVE  StepsApplied(m, from, steps, order) = StepsApplied(m, from, steps, other)
<1> DEFINE n == Len(steps)
<1>0. n \in Nat /\ DOMAIN steps = 1 .. n /\ \A i \in 1 .. n : steps[i] \in StepRecords
  OBVIOUS
<1>1. PICK a \in [0 .. n -> Results] : IsUpgrade(a, m, from, steps, order)
  BY StepsRun
<1>2. PICK b \in [0 .. n -> Results] : IsUpgrade(b, m, from, steps, other)
  BY StepsRun
<1> DEFINE P == {i \in 0 .. n : a[i] = b[i]}
<1>r. /\ a[0] = m /\ b[0] = m
      /\ \A i \in 1 .. n :
           a[i] = IF Applies(steps[i], from) THEN ApplyStep(a[i - 1], steps[i], order) ELSE a[i - 1]
      /\ \A i \in 1 .. n :
           b[i] = IF Applies(steps[i], from) THEN ApplyStep(b[i - 1], steps[i], other) ELSE b[i - 1]
      /\ StepsApplied(m, from, steps, order) = a[n]
      /\ StepsApplied(m, from, steps, other) = b[n]
  BY <1>1, <1>2 DEF IsUpgrade
<1> HIDE DEF n
<1>3. 0 \in P
  BY <1>0, <1>r
<1>4. ASSUME NEW i \in 1 .. n, i - 1 \in P PROVE i \in P
  <2>1. a[i - 1] = b[i - 1] /\ a[i - 1] \in Results /\ steps[i] \in StepRecords
    BY <1>0, <1>4
  <2>2. ApplyStep(a[i - 1], steps[i], order) = ApplyStep(a[i - 1], steps[i], other)
    BY <1>0, <2>1, StepAnyOrder
  <2> QED
    BY <1>0, <1>r, <2>1, <2>2
<1> HIDE DEF P
<1>5. 0 .. n \subseteq P
  BY <1>0, <1>3, <1>4, UpTo
<1>6. n \in P
  BY <1>0, <1>5
<1> QED
  BY <1>r, <1>6 DEF P

-----------------------------------------------------------------------------
(* The kinds of the values. *)

KindSets == UNION {[D -> SUBSET StateKinds] : D \in SUBSET StateNames}
Schemas == UNION {[D -> StateKinds] : D \in SUBSET StateNames}

(* Unreadable, or a state with values of these kinds. *)
FitsKinds(r, kinds) ==
    \/ r = Unreadable
    \/ /\ DOMAIN r \subseteq DOMAIN kinds
       /\ \A n \in DOMAIN r : r[n] # Nil =>
            r[n].kind \in kinds[n] /\ (r[n].kind = "number" => r[n].of \in Numerals)

LEMMA StepKindsType ==
    ASSUME NEW kinds \in KindSets, NEW step \in StepRecords
    PROVE  StepKinds(kinds, step) \in KindSets
<1> DEFINE D == {n \in StateNames \ step.drop : Sources(kinds, step, n) # {}}
           After(n) == {KindAfter(k, step, n) : k \in UNION {kinds[o] : o \in Sources(kinds, step, n)}}
<1>1. ASSUME NEW n \in D PROVE After(n) \in SUBSET StateKinds
  <2>1. \A o \in Sources(kinds, step, n) : kinds[o] \subseteq StateKinds
    BY DEF Sources, KindSets
  <2>2. \A k \in StateKinds : KindAfter(k, step, n) \in StateKinds
    BY DEF KindAfter, StateKinds
  <2> QED
    BY <2>1, <2>2
<1>2. StepKinds(kinds, step) = [n \in D |-> After(n)]
  BY DEF StepKinds
<1> HIDE DEF After
<1>3. StepKinds(kinds, step) \in [D -> SUBSET StateKinds]
  BY <1>1, <1>2
<1>4. D \in SUBSET StateNames
  OBVIOUS
<1> HIDE DEF D
<1> QED
  BY <1>3, <1>4 DEF KindSets

IsKinds(after, schema, from, steps) ==
    /\ after[0] = [n \in DOMAIN schema |-> {schema[n]}]
    /\ \A i \in 1 .. Len(steps) :
         after[i] = IF steps[i].from >= from THEN StepKinds(after[i - 1], steps[i]) ELSE after[i - 1]
    /\ KindsThrough(schema, from, steps) = after[Len(steps)]

LEMMA KindsRun ==
    ASSUME NEW schema \in Schemas, NEW from, NEW steps \in Seq(StepRecords)
    PROVE  \E after \in [0 .. Len(steps) -> KindSets] : IsKinds(after, schema, from, steps)
<1> DEFINE n == Len(steps)
           m == [k \in DOMAIN schema |-> {schema[k]}]
           Turn(r, i) == IF steps[i].from >= from THEN StepKinds(r, steps[i]) ELSE r
           Is(g) == g = [i \in 0 .. n |-> IF i = 0 THEN m ELSE Turn(g[i - 1], i)]
           next == [i \in 1 .. n |-> [r \in KindSets |-> Turn(r, i)]]
           after == CHOOSE g : Is(g)
<1>0. n \in Nat
  OBVIOUS
<1>1. ASSUME NEW i \in 1 .. n, NEW r \in KindSets PROVE Turn(r, i) \in KindSets
  BY StepKindsType
<1>2. KindsThrough(schema, from, steps) = after[n]
  BY DEF KindsThrough
<1>m. m \in KindSets
  <2>1. PICK D \in SUBSET StateNames : schema \in [D -> StateKinds]
    BY DEF Schemas
  <2>2. m \in [D -> SUBSET StateKinds]
    BY <2>1
  <2> HIDE DEF m
  <2> QED
    BY <2>2 DEF KindSets
<1> HIDE DEF Turn, n, m
<1>3. next \in [1 .. n -> [KindSets -> KindSets]]
  BY <1>1
<1>4. PICK g \in [0 .. n -> KindSets] : g[0] = m /\ \A i \in 1 .. n : g[i] = next[i][g[i - 1]]
  <2> HIDE DEF next
  <2>1. \E g \in [0 .. n -> KindSets] : IsRun(g, m, next, n)
    BY <1>0, <1>3, <1>m, Recursion
  <2> QED
    BY <2>1 DEF IsRun
<1>5. Is(g)
  <2>1. ASSUME NEW i \in 1 .. n PROVE g[i] = Turn(g[i - 1], i)
    <3>1. g[i - 1] \in KindSets
      BY <1>0
    <3> QED
      BY <1>4, <3>1
  <2> HIDE DEF next
  <2> QED
    BY <1>0, <1>4, <2>1
<1> HIDE DEF Is
<1>6. Is(after)
  BY <1>5
<1> HIDE DEF after
<1>7. /\ DOMAIN after = 0 .. n /\ after = [i \in 0 .. n |-> after[i]]
      /\ after[0] = m
      /\ \A i \in 1 .. n : after[i] = Turn(after[i - 1], i)
  <2>1. after = [i \in 0 .. n |-> IF i = 0 THEN m ELSE Turn(after[i - 1], i)]
    BY <1>6 DEF Is
  <2>2. DOMAIN after = 0 .. n /\ after = [i \in 0 .. n |-> after[i]]
    BY <2>1, Zenon
  <2>3. \A i \in 0 .. n : after[i] = IF i = 0 THEN m ELSE Turn(after[i - 1], i)
    BY <2>1, Zenon
  <2> QED
    BY <1>0, <2>2, <2>3
<1>8. after \in [0 .. n -> KindSets]
  <2> DEFINE P == {i \in 0 .. n : after[i] \in KindSets}
  <2>1. 0 \in P
    BY <1>0, <1>7, <1>m
  <2>2. ASSUME NEW i \in 1 .. n, i - 1 \in P PROVE i \in P
    BY <1>0, <1>1, <1>7, <2>2
  <2> HIDE DEF P
  <2>3. 0 .. n \subseteq P
    BY <1>0, <2>1, <2>2, UpTo
  <2> QED
    BY <1>7, <2>3 DEF P
<1> QED
  BY <1>2, <1>7, <1>8 DEF n, m, Turn, IsKinds

(* Every value of a renamed state was in the state, under this name or the *)
(* one that the step renames to it.                                        *)
LEMMA MergedFrom ==
    ASSUME NEW m \in States, NEW renames \in Renamings, Simple(renames),
           NEW n \in DOMAIN Merged(m, renames, StateNames)
    PROVE  \E o \in DOMAIN m :
             /\ Merged(m, renames, StateNames)[n] = m[o]
             /\ n = IF o \in DOMAIN renames THEN renames[o] ELSE o
<1> DEFINE f == Merged(m, renames, StateNames)
           moved == Moved(m, renames, StateNames)
<1>1. IsMerged(f, m, renames, moved)
  BY MergedAt
<1>2. DOMAIN m \subseteq StateNames
  BY DEF States
<1>3. moved = DOMAIN m \cap DOMAIN renames
  BY <1>2 DEF Moved
<1> HIDE DEF f, moved
<1>4. CASE \E o \in moved : n = renames[o]
  <2>1. PICK o \in moved : n = renames[o]
    BY <1>4
  <2>2. CASE n \in DOMAIN m /\ m[n] # Nil
    <3>1. f[n] = m[n]
      BY <1>1, <2>1, <2>2 DEF IsMerged
    <3>2. n \notin DOMAIN renames
      BY <1>3, <2>1 DEF Simple
    <3> QED
      BY <2>2, <3>1, <3>2 DEF f
  <2>3. CASE ~(n \in DOMAIN m /\ m[n] # Nil)
    <3>1. f[n] = m[o]
      BY <1>1, <2>1, <2>3 DEF IsMerged
    <3> QED
      BY <1>3, <2>1, <3>1 DEF f
  <2> QED
    BY <2>2, <2>3
<1>5. CASE ~ \E o \in moved : n = renames[o]
  <2>1. n \in DOMAIN m \ moved
    BY <1>1, <1>5 DEF IsMerged, f
  <2>2. f[n] = m[n]
    BY <1>1, <1>5, <2>1 DEF IsMerged
  <2> QED
    BY <1>3, <2>1, <2>2 DEF f
<1> QED
  BY <1>4, <1>5

LEMMA ConvertedKind ==
    ASSUME NEW v \in StateValues, NEW n, NEW step,
           v.kind = "number" => v.of \in Numerals,
           n \in step.toNumber => Convertible(v),
           Converted(v, n, step) # Nil
    PROVE  /\ v # Nil
           /\ Converted(v, n, step).kind = KindAfter(v.kind, step, n)
           /\ Converted(v, n, step).kind = "number" => Converted(v, n, step).of \in Numerals
BY DEF Converted, AsNumber, AsText, StateValues, StateKinds, Nil, KindAfter, Convertible

LEMMA StepFits ==
    ASSUME NEW r \in Results, NEW step \in StepRecords, Simple(step.renames), NEW order \in Orders,
           NEW kinds \in KindSets, FitsKinds(r, kinds)
    PROVE  FitsKinds(ApplyStep(r, step, order), StepKinds(kinds, step))
<1> DEFINE renamed == Renamed(r, step.renames, order)
           after == ApplyStep(r, step, order)
           allowed == StepKinds(kinds, step)
<1>1. CASE after = Unreadable
  BY <1>1 DEF FitsKinds
<1>2. CASE after # Unreadable
  <2>1. r # Unreadable /\ r \in States /\ step.renames \in Renamings
    BY <1>2 DEF ApplyStep, Results, StepRecords, Renamings
  <2>2. renamed = Merged(r, step.renames, StateNames) /\ renamed \in States
    BY <2>1, RenamedIs, RenamedType
  <2>3. /\ after = [n \in DOMAIN renamed \ step.drop |-> Converted(renamed[n], n, step)]
        /\ \A n \in DOMAIN renamed : n \in step.toNumber => Convertible(renamed[n])
    BY <1>2 DEF ApplyStep
  <2> HIDE DEF renamed, after
  <2>4. ASSUME NEW n \in DOMAIN after
        PROVE  /\ n \in DOMAIN allowed
               /\ after[n] # Nil => /\ after[n].kind \in allowed[n]
                                    /\ after[n].kind = "number" => after[n].of \in Numerals
    <3>1. PICK o \in DOMAIN r :
            /\ renamed[n] = r[o]
            /\ n = IF o \in DOMAIN step.renames THEN step.renames[o] ELSE o
      BY <2>1, <2>2, <2>3, MergedFrom
    <3>2. o \in DOMAIN kinds /\ o \in StateNames /\ r[o] \in StateValues /\ n \in StateNames
      BY <2>1, <2>2, <2>3 DEF FitsKinds, States
    <3>3. o \in Sources(kinds, step, n)
      BY <3>1, <3>2 DEF Sources
    <3>4. n \in DOMAIN allowed
      BY <2>3, <3>2, <3>3 DEF StepKinds
    <3>5. CASE after[n] # Nil
      <4> DEFINE v == r[o]
      <4>1. after[n] = Converted(v, n, step)
        BY <2>3, <3>1
      <4>2. n \in step.toNumber => Convertible(v)
        BY <2>3, <3>1
      <4>3. v # Nil => v.kind \in kinds[o] /\ (v.kind = "number" => v.of \in Numerals)
        BY <2>1 DEF FitsKinds
      <4>4. v.kind = "number" => v.of \in Numerals
        BY <4>3 DEF Nil
      <4> HIDE DEF v
      <4>5. v \in StateValues
        BY <3>2 DEF v
      <4>6. /\ v # Nil
            /\ after[n].kind = KindAfter(v.kind, step, n)
            /\ after[n].kind = "number" => after[n].of \in Numerals
        BY <3>5, <4>1, <4>2, <4>4, <4>5, ConvertedKind
      <4>7. allowed[n] = {KindAfter(k, step, n) : k \in UNION {kinds[q] : q \in Sources(kinds, step, n)}}
        BY <3>4 DEF StepKinds
      <4> QED
        BY <3>3, <3>4, <4>3, <4>6, <4>7
    <3> QED
      BY <3>4, <3>5
  <2> QED
    BY <2>4 DEF FitsKinds, after
<1> QED
  BY <1>1, <1>2

LEMMA StatesOfFit ==
    ASSUME NEW schema \in Schemas, NEW m \in StatesOf(schema)
    PROVE  /\ m \in States /\ DOMAIN m \subseteq DOMAIN schema
           /\ \A n \in DOMAIN m : Fits(m[n], schema[n])
           /\ FitsKinds(m, [k \in DOMAIN schema |-> {schema[k]}])
<1>1. PICK D \in SUBSET DOMAIN schema : m \in [D -> StateValues]
  BY DEF StatesOf
<1>2. DOMAIN schema \subseteq StateNames
  BY DEF Schemas
<1>3. m \in States
  BY <1>1, <1>2 DEF States
<1>4. \A n \in DOMAIN m : Fits(m[n], schema[n])
  BY DEF StatesOf
<1>5. ASSUME NEW n \in DOMAIN m, m[n] # Nil
      PROVE  m[n].kind = schema[n] /\ (m[n].kind = "number" => m[n].of \in Numerals)
  <2>1. m[n] \in StateValues /\ m[n].kind # "null"
    BY <1>1, <1>5 DEF StateValues, StateKinds
  <2> QED
    BY <1>4, <2>1 DEF Fits
<1> QED
  BY <1>1, <1>3, <1>4, <1>5 DEF FitsKinds

LEMMA StepsFit ==
    ASSUME NEW schema \in Schemas, NEW m \in StatesOf(schema), NEW from \in Nat,
           NEW steps \in Seq(StepRecords), \A i \in DOMAIN steps : Simple(steps[i].renames),
           NEW order \in Orders
    PROVE  FitsKinds(StepsApplied(m, from, steps, order), KindsThrough(schema, from, steps))
<1> DEFINE n == Len(steps)
<1>0. n \in Nat /\ DOMAIN steps = 1 .. n /\ \A i \in 1 .. n : steps[i] \in StepRecords
  OBVIOUS
<1> DEFINE base == [k \in DOMAIN schema |-> {schema[k]}]
<1>m. m \in Results /\ FitsKinds(m, base)
  BY StatesOfFit DEF Results
<1>1. PICK a \in [0 .. n -> Results] : IsUpgrade(a, m, from, steps, order)
  BY <1>m, StepsRun
<1>2. PICK b \in [0 .. n -> KindSets] : IsKinds(b, schema, from, steps)
  BY KindsRun
<1>r. /\ a[0] = m /\ b[0] = base
      /\ \A i \in 1 .. n :
           a[i] = IF steps[i].from >= from THEN ApplyStep(a[i - 1], steps[i], order) ELSE a[i - 1]
      /\ \A i \in 1 .. n : b[i] = IF steps[i].from >= from THEN StepKinds(b[i - 1], steps[i]) ELSE b[i - 1]
      /\ StepsApplied(m, from, steps, order) = a[n]
      /\ KindsThrough(schema, from, steps) = b[n]
  BY <1>1, <1>2 DEF IsUpgrade, IsKinds, Applies
<1> HIDE DEF n, base
<1> DEFINE P == {i \in 0 .. n : FitsKinds(a[i], b[i])}
<1>3. 0 \in P
  BY <1>0, <1>r, <1>m
<1>4. ASSUME NEW i \in 1 .. n, i - 1 \in P PROVE i \in P
  <2>1. a[i - 1] \in Results /\ b[i - 1] \in KindSets /\ FitsKinds(a[i - 1], b[i - 1])
    BY <1>0, <1>4
  <2>2. FitsKinds(ApplyStep(a[i - 1], steps[i], order), StepKinds(b[i - 1], steps[i]))
    BY <1>0, <2>1, StepFits
  <2> QED
    BY <1>0, <1>r, <2>1, <2>2
<1> HIDE DEF P
<1>5. 0 .. n \subseteq P
  BY <1>0, <1>3, <1>4, UpTo
<1>6. n \in P
  BY <1>0, <1>5
<1> QED
  BY <1>r, <1>6 DEF P

-----------------------------------------------------------------------------
(* The releases of a resource. *)

LEMMA ReleaseType ==
    ASSUME NEW h \in Histories, NEW k \in DOMAIN h
    PROVE  /\ h[k].schema \in Schemas /\ h[k].steps \in Seq(StepRecords)
           /\ ValidSteps(h[k], k - 1) /\ WellWritten(h[k])
           /\ \A i \in DOMAIN h[k].steps : Simple(h[k].steps[i].renames)
<1>1. h[k] \in Releases /\ ValidSteps(h[k], k - 1) /\ WellWritten(h[k])
  BY HistoryAssumption
<1>2. h[k].schema \in Schemas /\ h[k].steps \in Seq(StepRecords)
  BY <1>1 DEF Releases, Schemas
<1>3. \A i \in DOMAIN h[k].steps : Simple(h[k].steps[i].renames)
  BY <1>1 DEF WellWritten, Simple
<1> QED
  BY <1>1, <1>2, <1>3

LEMMA UpgradeFits ==
    ASSUME KindsLead, NEW h \in Histories, NEW i \in DOMAIN h, NEW j \in DOMAIN h, i < j,
           NEW m \in StatesOf(h[i].schema), NEW order \in Orders,
           StepsApplied(m, i - 1, h[j].steps, order) # Unreadable
    PROVE  StepsApplied(m, i - 1, h[j].steps, order) \in StatesOf(h[j].schema)
<1> DEFINE r == StepsApplied(m, i - 1, h[j].steps, order)
           kinds == KindsThrough(h[i].schema, i - 1, h[j].steps)
           schema == h[j].schema
<1>0. i - 1 \in Nat /\ i \in Nat /\ j \in Nat
  BY HistoryAssumption
<1>1. FitsKinds(r, kinds)
  BY <1>0, ReleaseType, StepsFit
<1>2. \A n \in DOMAIN kinds : n \in DOMAIN schema /\ kinds[n] = {schema[n]}
  BY DEF KindsLead, SchemaNames
<1>3. r \in States
  <2>1. m \in Results
    BY ReleaseType, StatesOfFit DEF Results
  <2>2. r \in Results
    BY <2>1, ReleaseType, StepsType
  <2> QED
    BY <2>2 DEF Results
<1>4. r # Unreadable
  OBVIOUS
<1> HIDE DEF r, kinds, schema
<1>5. \A n \in DOMAIN r : n \in DOMAIN schema /\ Fits(r[n], schema[n])
  BY <1>1, <1>2, <1>4 DEF FitsKinds, Fits, Nil
<1>6. r \in [DOMAIN r -> StateValues]
  BY <1>3 DEF States
<1>7. r \in StatesOf(schema)
  BY <1>5, <1>6 DEF StatesOf
<1> QED
  BY <1>7 DEF r, schema

Composes(h, i, j, m) ==
    \A first, second, both \in Orders :
      StepsApplied(StepsApplied(m, i - 1, h[j].steps, first), j - 1, h[j + 1].steps, second)
        = StepsApplied(m, i - 1, h[j + 1].steps, both)

LEMMA UpgradesCompose ==
    ASSUME ReleasesCompose, NEW h \in Histories, NEW i \in DOMAIN h, NEW j \in DOMAIN h, i < j,
           j + 1 \in DOMAIN h, NEW m \in StatesOf(h[i].schema)
    PROVE  Composes(h, i, j, m)
<1> SUFFICES ASSUME NEW first \in Orders, NEW second \in Orders, NEW both \in Orders
             PROVE  StepsApplied(StepsApplied(m, i - 1, h[j].steps, first), j - 1, h[j + 1].steps, second)
                      = StepsApplied(m, i - 1, h[j + 1].steps, both)
  BY DEF Composes
<1>1. m \in Results
  BY ReleaseType, StatesOfFit DEF Results
<1>2. StepsApplied(m, i - 1, h[j].steps, first) = StepsApplied(m, i - 1, h[j].steps, second)
  BY <1>1, ReleaseType, StepsAnyOrder
<1>3. StepsApplied(m, i - 1, h[j + 1].steps, second) = StepsApplied(m, i - 1, h[j + 1].steps, both)
  BY <1>1, ReleaseType, StepsAnyOrder
<1>4. StepsApplied(StepsApplied(m, i - 1, h[j].steps, second), j - 1, h[j + 1].steps, second)
        = StepsApplied(m, i - 1, h[j + 1].steps, second)
  BY DEF ReleasesCompose
<1> QED
  BY <1>2, <1>3, <1>4

-----------------------------------------------------------------------------
(* What is stored fits the schema of its version. *)

InHistory ==
    /\ releases \in Histories
    /\ installed \in 0 .. Len(releases) - 1
    /\ storedAt \in 0 .. installed
    /\ StoredFitsSchema
    /\ original \in StatesOf(Schema(0))

LEMMA Indexes ==
    ASSUME releases \in Histories, NEW v \in 0 .. Len(releases) - 1
    PROVE  /\ v + 1 \in DOMAIN releases /\ ReleaseOf(v) = releases[v + 1] /\ (v + 1) - 1 = v
           /\ Schema(v) = releases[v + 1].schema
<1>1. Len(releases) \in Nat /\ DOMAIN releases = 1 .. Len(releases)
  BY HistoryAssumption
<1> QED
  BY <1>1 DEF ReleaseOf, Schema

LEMMA InHistoryInit == UpgradeInit => InHistory
<1> SUFFICES ASSUME UpgradeInit PROVE InHistory
  OBVIOUS
<1>1. Len(releases) \in Nat \ {0}
  BY HistoryAssumption DEF UpgradeInit
<1> QED
  BY <1>1 DEF UpgradeInit, InHistory, StoredFitsSchema

LEMMA OpenedFits ==
    ASSUME KindsLead, InHistory, OpenState
    PROVE  stored' \in StatesOf(Schema(installed))
<1>1. PICK order \in Orders : stored' = Upgraded(stored, storedAt, installed, order)
  BY DEF OpenState
<1>2. /\ storedAt < installed /\ stored' # Unreadable /\ releases \in Histories
      /\ storedAt \in 0 .. Len(releases) - 1 /\ installed \in 0 .. Len(releases) - 1
      /\ stored \in StatesOf(Schema(storedAt))
  BY DEF OpenState, InHistory, StoredFitsSchema
<1> DEFINE i == storedAt + 1
           j == installed + 1
<1>3. /\ i \in DOMAIN releases /\ j \in DOMAIN releases /\ i < j /\ i - 1 = storedAt
      /\ stored \in StatesOf(releases[i].schema) /\ Schema(installed) = releases[j].schema
      /\ stored' = StepsApplied(stored, i - 1, releases[j].steps, order)
  BY <1>1, <1>2, Indexes DEF Upgraded
<1> HIDE DEF i, j
<1> QED
  BY <1>2, <1>3, UpgradeFits

LEMMA InHistoryStep ==
    ASSUME KindsLead, InHistory, [UpgradeNext]_upgradeVars
    PROVE  InHistory'
<1>1. CASE InstallRelease
  BY <1>1 DEF InHistory, InstallRelease, StoredFitsSchema, Schema, ReleaseOf
<1>2. CASE OpenState
  <2>1. stored' \in StatesOf(Schema(installed))
    BY <1>2, OpenedFits
  <2> QED
    BY <1>2, <2>1 DEF InHistory, OpenState, StoredFitsSchema, Schema, ReleaseOf
<1>3. CASE UNCHANGED upgradeVars
  BY <1>3 DEF InHistory, upgradeVars, StoredFitsSchema, Schema, ReleaseOf
<1> QED
  BY <1>1, <1>2, <1>3 DEF UpgradeNext

(* UpgradeState never makes a state unreadable: whichever releases it      *)
(* missed, what the steps make of it fits the schema it is stored for.     *)
THEOREM StoredStatesFit == ASSUME KindsLead PROVE UpgradeSpec => []StoredFitsSchema
<1>1. UpgradeInit => InHistory
  BY InHistoryInit
<1>2. InHistory /\ [UpgradeNext]_upgradeVars => InHistory'
  BY InHistoryStep
<1>3. InHistory => StoredFitsSchema
  BY DEF InHistory
<1> QED
  BY <1>1, <1>2, <1>3, PTL DEF UpgradeSpec

-----------------------------------------------------------------------------
(* The routes that the values take. *)

Routes == [at : SUBSET StateNames, kind : StateKinds \cup {"null"}, parsed : SUBSET StateKinds]

(* A route leads to one name or to none, and a flag is never read as a     *)
(* number and still a flag.                                                *)
Leads(route) ==
    /\ route.at = {} \/ \E n \in StateNames : route.at = {n}
    /\ route.at # {} => route.kind \in StateKinds
    /\ route.kind = "bool" => route.parsed = {}

Maps(D) == {R \in [D -> Routes] : \A o \in D : Leads(R[o])}

Apart(R) == \A o, p \in DOMAIN R : o # p => R[o].at \cap R[p].at = {}

Step(R, step) == [o \in DOMAIN R |-> RouteAfter(R[o], step)]

(* What becomes of a value along its route. *)
Fails(v, route) ==
    /\ v # Nil
    /\ \/ "bool" \in route.parsed
       \/ "text" \in route.parsed /\ v.of \notin Numerals \cup Blanks

Outcome(v, route) ==
    IF v = Nil \/ ("text" \in route.parsed /\ v.of \in Blanks) THEN Nil
    ELSE [kind |-> route.kind, of |-> v.of]

(* The result r has the values of m where the routes lead them. *)
Arrives(r, m, R) ==
    /\ r \in States
    /\ \A o \in DOMAIN m : R[o].at \subseteq DOMAIN r
    /\ \A n \in DOMAIN r : \E o \in DOMAIN m : n \in R[o].at
    /\ \A o \in DOMAIN m : \A n \in R[o].at : r[n] = Outcome(m[o], R[o])

Follows(r, m, R) ==
    IF \E o \in DOMAIN m : Fails(m[o], R[o]) THEN r = Unreadable ELSE Arrives(r, m, R)

LEMMA UnreadableIsNoState == Unreadable \notin States
<1> SUFFICES ASSUME Unreadable \in States PROVE FALSE
  OBVIOUS
<1>1. PICK D \in SUBSET StateNames : Unreadable \in [D -> StateValues]
  BY DEF States
<1>2. "error" \in DOMAIN Unreadable /\ Unreadable["error"].kind = "error"
  BY DEF Unreadable
<1>3. Unreadable["error"] \in StateValues
  BY <1>1, <1>2
<1> QED
  BY <1>2, <1>3 DEF StateValues, StateKinds, Nil

LEMMA FollowsOne ==
    ASSUME NEW m, NEW R, NEW r, NEW s, Follows(r, m, R), Follows(s, m, R)
    PROVE  r = s
<1>1. CASE \E o \in DOMAIN m : Fails(m[o], R[o])
  BY <1>1 DEF Follows
<1>2. CASE ~ \E o \in DOMAIN m : Fails(m[o], R[o])
  <2>1. Arrives(r, m, R) /\ Arrives(s, m, R)
    BY <1>2 DEF Follows
  <2>2. DOMAIN r = DOMAIN s
    BY <2>1 DEF Arrives
  <2>3. \A n \in DOMAIN r : r[n] = s[n]
    BY <2>1 DEF Arrives
  <2>4. r = [n \in DOMAIN r |-> r[n]] /\ s = [n \in DOMAIN s |-> s[n]]
    BY <2>1 DEF Arrives, States
  <2> QED
    BY <2>2, <2>3, <2>4
<1> QED
  BY <1>1, <1>2

LEMMA RouteAfterType ==
    ASSUME NEW route \in Routes, Leads(route), NEW step \in StepRecords,
           step.toNumber \cap step.drop = {}
    PROVE  RouteAfter(route, step) \in Routes /\ Leads(RouteAfter(route, step))
<1> DEFINE new(n) == IF n \in DOMAIN step.renames THEN step.renames[n] ELSE n
           at == {new(n) : n \in route.at} \ step.drop
           read == at \cap step.toNumber # {}
           after == RouteAfter(route, step)
<1>1. \A n \in StateNames : new(n) \in StateNames
  BY DEF StepRecords
<1>2. /\ after.at = at
      /\ after.kind = CASE at = {} -> "null"
                        [] at \cap step.toString # {} -> "text"
                        [] read /\ at \cap step.toString = {} -> "number"
                        [] OTHER -> route.kind
      /\ after.parsed = route.parsed \cup (IF read THEN {route.kind} \ {"number"} ELSE {})
      /\ after = [at |-> after.at, kind |-> after.kind, parsed |-> after.parsed]
  BY DEF RouteAfter
<1> HIDE DEF new, after
<1>3. /\ route.at \subseteq StateNames /\ route.kind \in StateKinds \cup {"null"}
      /\ route.parsed \subseteq StateKinds
  BY DEF Routes
<1>4. at = {} \/ \E n \in StateNames : at = {n}
  BY <1>1 DEF Leads
<1>5. at # {} => route.at # {} /\ route.kind \in StateKinds
  BY DEF Leads
<1> HIDE DEF at
<1>6. after.kind \in StateKinds \cup {"null"} /\ (at # {} => after.kind \in StateKinds)
  BY <1>2, <1>3, <1>5 DEF StateKinds
<1>7. after.parsed \subseteq StateKinds
  BY <1>2, <1>3, <1>5 
<1>8. after.kind = "bool" => after.parsed = {}
  BY <1>2 DEF Leads
<1>9. after \in Routes
  BY <1>1, <1>2, <1>3, <1>4, <1>6, <1>7 DEF Routes
<1> QED
  BY <1>2, <1>4, <1>6, <1>8, <1>9 DEF Leads, after

(* One value, one step: where it is read as a number it fails exactly when *)
(* its route says so.                                                      *)
LEMMA ValueFollows ==
    ASSUME NEW v \in StateValues, NEW route \in Routes, Leads(route), NEW n, n \in route.at,
           NEW step \in StepRecords, NEW new, new \notin step.drop,
           new = IF n \in DOMAIN step.renames THEN step.renames[n] ELSE n,
           ~Fails(v, route)
    PROVE  /\ RouteAfter(route, step).at = {new}
           /\ Fails(v, RouteAfter(route, step))
                <=> new \in step.toNumber /\ ~Convertible(Outcome(v, route))
           /\ ~Fails(v, RouteAfter(route, step)) =>
                Converted(Outcome(v, route), new, step) = Outcome(v, RouteAfter(route, step))
<1> DEFINE after == RouteAfter(route, step)
           w == Outcome(v, route)
<1>1. route.at = {n}
  BY DEF Leads
<1>2. {IF q \in DOMAIN step.renames THEN step.renames[q] ELSE q : q \in route.at} \ step.drop = {new}
  BY <1>1
<1>3. /\ after.at = {new}
      /\ after.kind = IF new \in step.toString THEN "text"
                      ELSE IF new \in step.toNumber THEN "number" ELSE route.kind
      /\ after.parsed = route.parsed \cup (IF new \in step.toNumber THEN {route.kind} \ {"number"} ELSE {})
  BY <1>2 DEF RouteAfter
<1> HIDE DEF after
<1>4. route.kind \in StateKinds /\ (route.kind = "bool" => route.parsed = {}) /\ route.parsed \subseteq StateKinds
  BY <1>1 DEF Leads, Routes
<1>5. CASE v = Nil
  <2>1. w = Nil /\ ~Fails(v, after) /\ Outcome(v, after) = Nil
    BY <1>5 DEF Outcome, Fails
  <2>2. Convertible(Nil) /\ Converted(Nil, new, step) = Nil
    BY DEF Convertible, Converted, AsNumber, AsText, Nil
  <2> QED
    BY <1>3, <2>1, <2>2 DEF after
<1>6. CASE v # Nil /\ "text" \in route.parsed /\ v.of \in Blanks
  <2>1. w = Nil
    BY <1>6 DEF Outcome
  <2>2. "bool" \notin route.parsed /\ route.kind # "bool"
    BY <1>4, <1>6 DEF Fails
  <2>3. "text" \in after.parsed /\ "bool" \notin after.parsed
    BY <1>3, <1>6, <2>2
  <2>4. ~Fails(v, after) /\ Outcome(v, after) = Nil
    BY <1>6, <2>3 DEF Fails, Outcome
  <2>5. Convertible(Nil) /\ Converted(Nil, new, step) = Nil
    BY DEF Convertible, Converted, AsNumber, AsText, Nil
  <2> QED
    BY <1>3, <2>1, <2>4, <2>5 DEF after
<1>7. CASE v # Nil /\ ~("text" \in route.parsed /\ v.of \in Blanks)
  <2>1. w = [kind |-> route.kind, of |-> v.of] /\ w # Nil
    BY <1>4, <1>7 DEF Outcome, Nil, StateKinds
  <2>2. "bool" \notin route.parsed /\ ("text" \in route.parsed => v.of \in Numerals)
    BY <1>7 DEF Fails
  <2> HIDE DEF w
  <2>3. Fails(v, after) <=> \/ "bool" \in after.parsed
                            \/ "text" \in after.parsed /\ v.of \notin Numerals \cup Blanks
    BY <1>7 DEF Fails
  <2>4. CASE new \notin step.toNumber
    <3>1. ~Fails(v, after)
      BY <1>3, <2>2, <2>3, <2>4
    <3>2. Converted(w, new, step) = [kind |-> after.kind, of |-> v.of]
      BY <1>3, <2>1, <2>4 DEF Converted, AsText
    <3>3. Outcome(v, after) = [kind |-> after.kind, of |-> v.of]
      BY <1>3, <1>7, <2>4 DEF Outcome
    <3> QED
      BY <1>3, <2>4, <3>1, <3>2, <3>3 DEF after, w
  <2>5. CASE new \in step.toNumber /\ route.kind = "bool"
    <3>1. Fails(v, after)
      BY <1>3, <2>3, <2>5
    <3>2. ~Convertible(w)
      BY <2>1, <2>5 DEF Convertible
    <3> QED
      BY <1>3, <2>5, <3>1, <3>2 DEF after, w
  <2>6. CASE new \in step.toNumber /\ route.kind = "number"
    <3>1. ~Fails(v, after) /\ after.parsed = route.parsed
      BY <1>3, <2>2, <2>3, <2>6
    <3>2. Convertible(w) /\ Converted(w, new, step) = [kind |-> after.kind, of |-> v.of]
      BY <1>3, <2>1, <2>6 DEF Converted, AsNumber, AsText, Convertible
    <3>3. Outcome(v, after) = [kind |-> after.kind, of |-> v.of]
      BY <1>7, <3>1 DEF Outcome
    <3> QED
      BY <1>3, <2>6, <3>1, <3>2, <3>3 DEF after, w
  <2>7. CASE new \in step.toNumber /\ route.kind = "text"
    <3>1. "text" \in after.parsed /\ "bool" \notin after.parsed
      BY <1>3, <2>2, <2>7
    <3>2. Convertible(w) <=> v.of \in Numerals \cup Blanks
      BY <2>1, <2>7 DEF Convertible
    <3>3. Fails(v, after) <=> ~Convertible(w)
      BY <2>3, <3>1, <3>2
    <3>4. CASE v.of \in Blanks
      <4>1. Converted(w, new, step) = Nil
        BY <2>1, <2>7, <3>4 DEF Converted, AsNumber, AsText, Nil
      <4>2. Outcome(v, after) = Nil
        BY <3>1, <3>4 DEF Outcome
      <4> QED
        BY <1>3, <2>7, <3>3, <4>1, <4>2 DEF after, w
    <3>5. CASE v.of \notin Blanks
      <4>1. Converted(w, new, step) = [kind |-> after.kind, of |-> v.of]
        BY <1>3, <2>1, <2>7, <3>5 DEF Converted, AsNumber, AsText, Nil
      <4>2. Outcome(v, after) = [kind |-> after.kind, of |-> v.of]
        BY <1>7, <3>5 DEF Outcome
      <4> QED
        BY <1>3, <2>7, <3>3, <4>1, <4>2 DEF after, w
    <3> QED
      BY <3>4, <3>5
  <2> QED
    BY <1>4, <2>4, <2>5, <2>6, <2>7 DEF StateKinds
<1> QED
  BY <1>5, <1>6, <1>7

(* What validateStateUpgrades and the authors see to in a step. *)
StepAlone(step) ==
    /\ Simple(step.renames)
    /\ \A o \in DOMAIN step.renames : step.renames[o] \notin step.drop
    /\ step.toNumber \cap step.drop = {}

NewName(n, step) == IF n \in DOMAIN step.renames THEN step.renames[n] ELSE n

LEMMA RouteNames ==
    ASSUME NEW route \in Routes, Leads(route), NEW step
    PROVE  /\ \A n \in route.at : route.at = {n}
           /\ RouteAfter(route, step).at = {NewName(n, step) : n \in route.at} \ step.drop
           /\ route.parsed \subseteq RouteAfter(route, step).parsed
           /\ RouteAfter(route, step).at = {} => RouteAfter(route, step).parsed = route.parsed
BY DEF Leads, RouteAfter, NewName

(* The renames of a step take every value along its route. *)
TakesAlong(f, m, R, step) ==
    /\ \A o \in DOMAIN m : \A n \in R[o].at :
         NewName(n, step) \in DOMAIN f /\ f[NewName(n, step)] = Outcome(m[o], R[o])
    /\ \A k \in DOMAIN f : \E o \in DOMAIN m : \E n \in R[o].at : k = NewName(n, step)

LEMMA NamesFollow ==
    ASSUME NEW D, NEW m, DOMAIN m \subseteq D, NEW R \in Maps(D),
           NEW step \in StepRecords, StepAlone(step), Apart(Step(R, step)),
           NEW r, Arrives(r, m, R)
    PROVE  TakesAlong(Merged(r, step.renames, StateNames), m, R, step)
<1> DEFINE renames == step.renames
           f == Merged(r, renames, StateNames)
           moved == Moved(r, renames, StateNames)
           after(o) == RouteAfter(R[o], step)
<1>1. r \in States /\ renames \in Renamings /\ Simple(renames)
  BY DEF Arrives, StepRecords, Renamings, StepAlone
<1>2. IsMerged(f, r, renames, moved)
  BY <1>1, MergedAt
<1>3. moved = DOMAIN r \cap DOMAIN renames
  BY <1>1 DEF Moved, States
<1>4. \A k \in DOMAIN f : \E n \in DOMAIN r : k = NewName(n, step)
  BY <1>1, MergedFrom DEF NewName
<1>5. ASSUME NEW o \in DOMAIN m
      PROVE  /\ \A n \in R[o].at : R[o].at = {n}
             /\ after(o).at = {NewName(n, step) : n \in R[o].at} \ step.drop
  <2>1. R[o] \in Routes /\ Leads(R[o])
    BY DEF Maps
  <2> QED
    BY <2>1, RouteNames
<1>6. \A o, p \in DOMAIN m : o # p => after(o).at \cap after(p).at = {}
  BY DEF Apart, Step, Maps
<1>7. /\ \A o \in DOMAIN m : R[o].at \subseteq DOMAIN r
      /\ \A n \in DOMAIN r : \E o \in DOMAIN m : n \in R[o].at
      /\ \A o \in DOMAIN m : \A n \in R[o].at : r[n] = Outcome(m[o], R[o])
  BY DEF Arrives
<1>8. \A o \in DOMAIN renames : renames[o] \notin step.drop /\ renames[o] \notin DOMAIN renames
  BY <1>1 DEF StepAlone, Simple
<1>9. \A n : NewName(n, step) = IF n \in DOMAIN renames THEN renames[n] ELSE n
  BY DEF NewName
<1> HIDE DEF f, moved, after, renames
<1>10. ASSUME NEW o \in DOMAIN m, NEW n \in R[o].at
       PROVE  NewName(n, step) \in DOMAIN f /\ f[NewName(n, step)] = r[n]
  <2>1. CASE n \in DOMAIN renames
    <3>1. n \in moved /\ NewName(n, step) = renames[n]
      BY <1>3, <1>7, <1>9, <2>1
    <3>2. ASSUME renames[n] \in DOMAIN r PROVE FALSE
      <4>1. PICK p \in DOMAIN m : renames[n] \in R[p].at
        BY <1>7, <3>2
      <4>2. o # p
        BY <1>5, <1>8, <2>1, <4>1
      <4>3. NewName(renames[n], step) = renames[n]
        BY <1>8, <1>9, <2>1
      <4>4. renames[n] \in after(p).at
        BY <1>5, <1>8, <2>1, <4>1, <4>3
      <4>5. renames[n] \in after(o).at
        BY <1>5, <1>8, <2>1, <3>1
      <4> QED
        BY <1>6, <4>2, <4>4, <4>5
    <3> QED
      BY <1>2, <3>1, <3>2 DEF IsMerged
  <2>2. CASE n \notin DOMAIN renames
    <3>1. n \in DOMAIN r \ moved /\ NewName(n, step) = n
      BY <1>3, <1>7, <1>9, <2>2
    <3>2. ASSUME NEW q \in moved, renames[q] = n PROVE FALSE
      <4>1. q \in DOMAIN r /\ q \in DOMAIN renames /\ NewName(q, step) = n
        BY <1>3, <1>9, <3>2
      <4>2. PICK p \in DOMAIN m : q \in R[p].at
        BY <1>7, <4>1
      <4>3. o # p
        BY <1>5, <2>2, <4>1, <4>2
      <4>4. n \notin step.drop
        BY <1>8, <3>2, <4>1
      <4>5. n \in after(p).at
        BY <1>5, <4>1, <4>2, <4>4
      <4>6. n \in after(o).at
        BY <1>5, <3>1, <4>4
      <4> QED
        BY <1>6, <4>3, <4>5, <4>6
    <3> QED
      BY <1>2, <3>1, <3>2 DEF IsMerged
  <2> QED
    BY <2>1, <2>2
<1> QED
  BY <1>4, <1>7, <1>10 DEF f, renames, TakesAlong

LEMMA StepFollows ==
    ASSUME NEW D, NEW m \in States, DOMAIN m \subseteq D, NEW R \in Maps(D),
           NEW step \in StepRecords, StepAlone(step), Apart(Step(R, step)),
           NEW r \in Results, Follows(r, m, R), NEW order \in Orders
    PROVE  Follows(ApplyStep(r, step, order), m, Step(R, step))
<1> DEFINE f == Merged(r, step.renames, StateNames)
           after == ApplyStep(r, step, order)
           S == Step(R, step)
<1>1. ASSUME NEW o \in DOMAIN m
      PROVE  R[o] \in Routes /\ Leads(R[o]) /\ S[o] = RouteAfter(R[o], step) /\ m[o] \in StateValues
  BY DEF Maps, Step, States
<1>2. CASE \E o \in DOMAIN m : Fails(m[o], R[o])
  <2>1. r = Unreadable /\ after = Unreadable
    BY <1>2 DEF Follows, ApplyStep
  <2>2. \E o \in DOMAIN m : Fails(m[o], S[o])
    BY <1>1, <1>2, RouteNames DEF Fails
  <2> HIDE DEF after, S
  <2> QED
    BY <2>1, <2>2 DEF Follows, after, S
<1>3. CASE ~ \E o \in DOMAIN m : Fails(m[o], R[o])
  <2>1. Arrives(r, m, R) /\ r \in States /\ r # Unreadable
    BY <1>3, UnreadableIsNoState DEF Follows, Arrives
  <2>2. Renamed(r, step.renames, order) = f /\ f \in States
    <3>1. step.renames \in Renamings /\ Simple(step.renames)
      BY DEF StepRecords, Renamings, StepAlone
    <3> QED
      BY <2>1, <3>1, RenamedIs, RenamedType
  <2>3. after = IF \E k \in step.toNumber \cap DOMAIN f : ~Convertible(f[k])
                THEN Unreadable
                ELSE [k \in DOMAIN f \ step.drop |-> Converted(f[k], k, step)]
    BY <2>1, <2>2 DEF ApplyStep
  <2>4. /\ \A o \in DOMAIN m : \A n \in R[o].at :
             NewName(n, step) \in DOMAIN f /\ f[NewName(n, step)] = Outcome(m[o], R[o])
        /\ \A k \in DOMAIN f : \E o \in DOMAIN m : \E n \in R[o].at : k = NewName(n, step)
    <3>1. TakesAlong(f, m, R, step)
      BY <2>1, NamesFollow
    <3> HIDE DEF f
    <3> QED
      BY <3>1 DEF TakesAlong
  <2> HIDE DEF f, after, S
  <2>5. ASSUME NEW o \in DOMAIN m
        PROVE  /\ S[o].at = {NewName(n, step) : n \in R[o].at} \ step.drop
               /\ S[o].at = {} => ~Fails(m[o], S[o])
    <3>1. S[o].at = {} => S[o].parsed = R[o].parsed
      BY <1>1, RouteNames
    <3> QED
      BY <1>1, <1>3, <3>1, RouteNames DEF Fails
  <2>6. ASSUME NEW o \in DOMAIN m, NEW n \in R[o].at, NewName(n, step) \notin step.drop
        PROVE  /\ Fails(m[o], S[o])
                    <=> NewName(n, step) \in step.toNumber /\ ~Convertible(f[NewName(n, step)])
               /\ ~Fails(m[o], S[o]) =>
                    Converted(f[NewName(n, step)], NewName(n, step), step) = Outcome(m[o], S[o])
    <3>1. NewName(n, step) = IF n \in DOMAIN step.renames THEN step.renames[n] ELSE n
      BY DEF NewName
    <3>2. ~Fails(m[o], R[o]) /\ f[NewName(n, step)] = Outcome(m[o], R[o])
      BY <1>3, <2>4
    <3> QED
      BY <1>1, <2>6, <3>1, <3>2, ValueFollows
  <2>7. step.toNumber \cap step.drop = {}
    BY DEF StepAlone
  <2>8. CASE \E o \in DOMAIN m : Fails(m[o], S[o])
    <3>1. PICK o \in DOMAIN m : Fails(m[o], S[o])
      BY <2>8
    <3>2. PICK n \in R[o].at : NewName(n, step) \notin step.drop
      BY <2>5, <3>1
    <3>3. after = Unreadable
      BY <2>3, <2>4, <2>6, <3>1, <3>2
    <3> QED
      BY <2>8, <3>3 DEF Follows, after, S
  <2>9. CASE ~ \E o \in DOMAIN m : Fails(m[o], S[o])
    <3>1. ~ \E k \in step.toNumber \cap DOMAIN f : ~Convertible(f[k])
      BY <2>4, <2>6, <2>7, <2>9
    <3>2. after = [k \in DOMAIN f \ step.drop |-> Converted(f[k], k, step)]
      BY <2>3, <3>1
    <3>3. after \in States
      <4>1. DOMAIN f \subseteq StateNames /\ \A k \in DOMAIN f : f[k] \in StateValues
        BY <2>2 DEF States
      <4>2. after \in [DOMAIN f \ step.drop -> StateValues]
        BY <3>2, <4>1, ConvertedType
      <4> QED
        BY <4>1, <4>2 DEF States
    <3>4. Arrives(after, m, S)
      <4>1. ASSUME NEW o \in DOMAIN m, NEW k \in S[o].at
            PROVE  k \in DOMAIN after /\ after[k] = Outcome(m[o], S[o])
        <5>1. PICK n \in R[o].at : k = NewName(n, step) /\ k \notin step.drop
          BY <2>5
        <5> QED
          BY <2>4, <2>6, <2>9, <3>2, <5>1
      <4>2. ASSUME NEW k \in DOMAIN after PROVE \E o \in DOMAIN m : k \in S[o].at
        <5>1. k \in DOMAIN f /\ k \notin step.drop
          BY <3>2
        <5> QED
          BY <2>4, <2>5, <5>1
      <4> QED
        BY <3>3, <4>1, <4>2 DEF Arrives
    <3> QED
      BY <2>9, <3>4 DEF Follows, after, S
  <2> QED
    BY <2>8, <2>9
<1> QED
  BY <1>2, <1>3

LEMMA StepMaps ==
    ASSUME NEW D, NEW R \in Maps(D), NEW step \in StepRecords, step.toNumber \cap step.drop = {}
    PROVE  /\ [o \in D |-> RouteAfter(R[o], step)] \in Maps(D)
           /\ Step(R, step) = [o \in D |-> RouteAfter(R[o], step)]
BY RouteAfterType DEF Maps, Step

IsRoutes(run, start, from, steps) ==
    /\ run[0] = start
    /\ \A i \in 1 .. Len(steps) :
         run[i] = IF steps[i].from >= from THEN Step(run[i - 1], steps[i]) ELSE run[i - 1]

LEMMA RoutesRun ==
    ASSUME NEW D, NEW start \in Maps(D), NEW from, NEW steps \in Seq(StepRecords),
           \A i \in DOMAIN steps : StepAlone(steps[i])
    PROVE  /\ RoutesThrough(start, from, steps) \in [0 .. Len(steps) -> Maps(D)]
           /\ IsRoutes(RoutesThrough(start, from, steps), start, from, steps)
<1> DEFINE n == Len(steps)
           X == Maps(D)
           Turn(R, i) == IF steps[i].from >= from THEN [o \in DOMAIN start |-> RouteAfter(R[o], steps[i])]
                         ELSE R
           Is(g) == g = [i \in 0 .. n |-> IF i = 0 THEN start ELSE Turn(g[i - 1], i)]
           next == [i \in 1 .. n |-> [R \in X |-> Turn(R, i)]]
           after == CHOOSE g : Is(g)
<1>0. /\ n \in Nat /\ DOMAIN start = D
      /\ \A i \in 1 .. n : steps[i] \in StepRecords /\ steps[i].toNumber \cap steps[i].drop = {}
  BY DEF Maps, StepAlone
<1>s. ASSUME NEW i \in 1 .. n, NEW R \in X
      PROVE  /\ Turn(R, i) \in X
             /\ Turn(R, i) = IF steps[i].from >= from THEN Step(R, steps[i]) ELSE R
  <2> HIDE DEF n, X
  <2>1. /\ [o \in D |-> RouteAfter(R[o], steps[i])] \in X
        /\ Step(R, steps[i]) = [o \in D |-> RouteAfter(R[o], steps[i])]
    BY <1>0, StepMaps DEF X
  <2> QED
    BY <1>0, <2>1
<1>1. ASSUME NEW i \in 1 .. n, NEW R \in X PROVE Turn(R, i) \in X
  BY <1>s
<1>2. RoutesThrough(start, from, steps) = after
  BY DEF RoutesThrough
<1> HIDE DEF Turn, n, X
<1>m. start \in X
  BY DEF X
<1>3. next \in [1 .. n -> [X -> X]]
  BY <1>1
<1>4. PICK g \in [0 .. n -> X] : g[0] = start /\ \A i \in 1 .. n : g[i] = next[i][g[i - 1]]
  <2> HIDE DEF next
  <2>1. \E g \in [0 .. n -> X] : IsRun(g, start, next, n)
    BY <1>0, <1>3, <1>m, Recursion
  <2> QED
    BY <2>1 DEF IsRun
<1>5. Is(g)
  <2>1. ASSUME NEW i \in 1 .. n PROVE g[i] = Turn(g[i - 1], i)
    <3>1. g[i - 1] \in X
      BY <1>0
    <3> QED
      BY <1>4, <3>1
  <2> HIDE DEF next
  <2> QED
    BY <1>0, <1>4, <2>1
<1> HIDE DEF Is
<1>6. Is(after)
  BY <1>5
<1> HIDE DEF after
<1>7. /\ DOMAIN after = 0 .. n /\ after = [i \in 0 .. n |-> after[i]]
      /\ after[0] = start
      /\ \A i \in 1 .. n : after[i] = Turn(after[i - 1], i)
  <2>1. after = [i \in 0 .. n |-> IF i = 0 THEN start ELSE Turn(after[i - 1], i)]
    BY <1>6 DEF Is
  <2>2. DOMAIN after = 0 .. n /\ after = [i \in 0 .. n |-> after[i]]
    BY <2>1, Zenon
  <2>3. \A i \in 0 .. n : after[i] = IF i = 0 THEN start ELSE Turn(after[i - 1], i)
    BY <2>1, Zenon
  <2> QED
    BY <1>0, <2>2, <2>3
<1>8. after \in [0 .. n -> X]
  <2> DEFINE P == {i \in 0 .. n : after[i] \in X}
  <2>1. 0 \in P
    BY <1>0, <1>7, <1>m
  <2>2. ASSUME NEW i \in 1 .. n, i - 1 \in P PROVE i \in P
    <3>1. Turn(after[i - 1], i) \in X
      BY <1>1, <2>2
    <3>2. after[i] = Turn(after[i - 1], i)
      BY <1>7, Zenon
    <3>3. after[i] \in X
      BY <3>1, <3>2, Zenon
    <3>4. i \in 0 .. n
      BY <1>0
    <3> QED
      BY <3>3, <3>4
  <2> HIDE DEF P
  <2>3. 0 .. n \subseteq P
    BY <1>0, <2>1, <2>2, UpTo
  <2> QED
    BY <1>7, <2>3 DEF P
<1>9. ASSUME NEW i \in 1 .. n
      PROVE  after[i] = IF steps[i].from >= from THEN Step(after[i - 1], steps[i]) ELSE after[i - 1]
  <2>1. i - 1 \in 0 .. n
    BY <1>0
  <2>2. after[i - 1] \in X
    BY <1>8, <2>1
  <2> QED
    BY <1>s, <1>7, <2>2
<1> QED
  BY <1>2, <1>7, <1>8, <1>9 DEF n, X, IsRoutes

(* What a release makes of a state follows the routes, as long as they are *)
(* apart.                                                                  *)
LEMMA StepsFollow ==
    ASSUME NEW D, NEW m \in States, DOMAIN m \subseteq D, NEW start \in Maps(D),
           NEW from \in Nat, NEW steps \in Seq(StepRecords),
           \A i \in DOMAIN steps : StepAlone(steps[i]),
           KeepApart(RoutesThrough(start, from, steps)),
           NEW r \in Results, Follows(r, m, start), NEW order \in Orders
    PROVE  /\ Follows(StepsApplied(r, from, steps, order), m,
                      RoutesThrough(start, from, steps)[Len(steps)])
           /\ RoutesThrough(start, from, steps)[Len(steps)] \in Maps(D)
<1> DEFINE n == Len(steps)
           run == RoutesThrough(start, from, steps)
<1>0. n \in Nat /\ DOMAIN steps = 1 .. n /\ \A i \in 1 .. n : steps[i] \in StepRecords
  OBVIOUS
<1>1. PICK a \in [0 .. n -> Results] : IsUpgrade(a, r, from, steps, order)
  BY StepsRun
<1>2. run \in [0 .. n -> Maps(D)] /\ IsRoutes(run, start, from, steps)
  BY RoutesRun
<1>r. /\ a[0] = r /\ run[0] = start
      /\ \A i \in 1 .. n :
           a[i] = IF steps[i].from >= from THEN ApplyStep(a[i - 1], steps[i], order) ELSE a[i - 1]
      /\ \A i \in 1 .. n : run[i] = IF steps[i].from >= from THEN Step(run[i - 1], steps[i]) ELSE run[i - 1]
      /\ StepsApplied(r, from, steps, order) = a[n]
  BY <1>1, <1>2 DEF IsUpgrade, IsRoutes, Applies
<1>3. \A i \in 0 .. n : Apart(run[i])
  BY <1>2 DEF KeepApart, Apart
<1> HIDE DEF n, run
<1> DEFINE P == {i \in 0 .. n : Follows(a[i], m, run[i])}
<1>4. 0 \in P
  BY <1>0, <1>r
<1>5. ASSUME NEW i \in 1 .. n, i - 1 \in P PROVE i \in P
  <2>1. a[i - 1] \in Results /\ run[i - 1] \in Maps(D) /\ Follows(a[i - 1], m, run[i - 1])
    BY <1>0, <1>2, <1>5
  <2>2. CASE steps[i].from >= from
    <3>1. Apart(Step(run[i - 1], steps[i]))
      BY <1>0, <1>3, <1>r, <2>2
    <3>2. Follows(ApplyStep(a[i - 1], steps[i], order), m, Step(run[i - 1], steps[i]))
      BY <1>0, <2>1, <3>1, StepFollows
    <3> QED
      BY <1>0, <1>r, <2>2, <3>2
  <2>3. CASE ~(steps[i].from >= from)
    BY <1>0, <1>r, <2>1, <2>3
  <2> QED
    BY <2>2, <2>3
<1> HIDE DEF P
<1>6. 0 .. n \subseteq P
  BY <1>0, <1>4, <1>5, UpTo
<1>7. n \in P /\ n \in 0 .. n
  BY <1>0, <1>6
<1>8. Follows(a[n], m, run[n]) /\ run[n] \in Maps(D)
  BY <1>2, <1>7 DEF P
<1> QED
  BY <1>r, <1>8 DEF run, n

LEMMA StartFollows ==
    ASSUME NEW schema \in Schemas, NEW m \in StatesOf(schema)
    PROVE  RouteStart(schema) \in Maps(DOMAIN schema) /\ Follows(m, m, RouteStart(schema))
<1> DEFINE R == RouteStart(schema)
<1>1. /\ m \in States /\ DOMAIN m \subseteq DOMAIN schema
      /\ \A n \in DOMAIN m : Fits(m[n], schema[n])
  BY StatesOfFit
<1>2. \A o \in DOMAIN schema : o \in StateNames /\ schema[o] \in StateKinds
  BY DEF Schemas
<1>3. /\ R = [o \in DOMAIN schema |-> [at |-> {o}, kind |-> schema[o], parsed |-> {}]]
      /\ \A o \in DOMAIN schema : R[o].at = {o} /\ R[o].kind = schema[o] /\ R[o].parsed = {}
  BY DEF RouteStart
<1> HIDE DEF R
<1>4. R \in Maps(DOMAIN schema)
  <2>1. ASSUME NEW o \in DOMAIN schema PROVE R[o] \in Routes /\ Leads(R[o])
    <3>1. R[o] = [at |-> {o}, kind |-> schema[o], parsed |-> {}]
      BY <1>3
    <3> QED
      BY <1>2, <3>1 DEF Routes, Leads
  <2>2. R \in [DOMAIN schema -> Routes]
    BY <1>3, <2>1
  <2> QED
    BY <2>1, <2>2 DEF Maps
<1>5. ASSUME NEW o \in DOMAIN m PROVE ~Fails(m[o], R[o]) /\ m[o] = Outcome(m[o], R[o])
  <2>1. m[o] \in StateValues /\ m[o].kind \in {schema[o], "null"} /\ R[o].kind = schema[o]
        /\ R[o].parsed = {}
    BY <1>1, <1>3 DEF States, Fits
  <2>2. m[o] # Nil => m[o] = [kind |-> R[o].kind, of |-> m[o].of]
    BY <2>1 DEF StateValues, StateKinds
  <2> QED
    BY <2>1, <2>2 DEF Fails, Outcome
<1>6. Arrives(m, m, R)
  BY <1>1, <1>3, <1>5 DEF Arrives
<1>7. Follows(m, m, R)
  BY <1>5, <1>6 DEF Follows
<1> QED
  BY <1>4, <1>7 DEF R

(* Where the lists of steps compose in names and kinds, what the upgraders *)
(* compute does.                                                           *)
LEMMA RoutesLead ==
    ASSUME \A h \in Histories : RoutesCompose(h)
    PROVE  ReleasesCompose
<1> SUFFICES ASSUME NEW h \in Histories, NEW i \in DOMAIN h, NEW j \in DOMAIN h, i < j, j + 1 \in DOMAIN h,
                    NEW m \in StatesOf(h[i].schema), NEW order \in Orders
             PROVE  StepsApplied(StepsApplied(m, i - 1, h[j].steps, order), j - 1, h[j + 1].steps, order)
                      = StepsApplied(m, i - 1, h[j + 1].steps, order)
  BY DEF ReleasesCompose
<1> DEFINE D == DOMAIN h[i].schema
           one == h[j].steps
           two == h[j + 1].steps
           start == RouteStart(h[i].schema)
           first == RoutesThrough(start, i - 1, one)
           second == RoutesThrough(first[Len(one)], j - 1, two)
           both == RoutesThrough(start, i - 1, two)
           r == StepsApplied(m, i - 1, one, order)
<1>0. i \in Nat /\ j \in Nat /\ i - 1 \in Nat /\ j - 1 \in Nat
  BY HistoryAssumption
<1>1. ASSUME NEW k \in DOMAIN h
      PROVE  /\ h[k].schema \in Schemas /\ h[k].steps \in Seq(StepRecords)
             /\ \A p \in DOMAIN h[k].steps : StepAlone(h[k].steps[p])
  BY ReleaseType DEF ValidSteps, StepAlone
<1>2. /\ KeepApart(first) /\ KeepApart(second) /\ KeepApart(both)
      /\ second[Len(two)] = both[Len(two)]
  BY DEF RoutesCompose
<1>3. m \in States /\ DOMAIN m \subseteq D /\ start \in Maps(D) /\ Follows(m, m, start)
  BY <1>1, StatesOfFit, StartFollows
<1>4. one \in Seq(StepRecords) /\ two \in Seq(StepRecords)
      /\ (\A p \in DOMAIN one : StepAlone(one[p])) /\ (\A p \in DOMAIN two : StepAlone(two[p]))
  BY <1>1
<1>5. m \in Results /\ r \in Results
  BY <1>3, <1>4, StepsType DEF Results
<1> HIDE DEF D, one, two, start
<1>6. Follows(r, m, first[Len(one)]) /\ first[Len(one)] \in Maps(D)
  BY <1>0, <1>2, <1>3, <1>4, <1>5, StepsFollow
<1>7. Follows(StepsApplied(m, i - 1, two, order), m, both[Len(two)])
  BY <1>0, <1>2, <1>3, <1>4, <1>5, StepsFollow
<1> HIDE DEF r, first
<1>8. Follows(StepsApplied(r, j - 1, two, order), m, second[Len(two)])
  BY <1>0, <1>2, <1>3, <1>4, <1>5, <1>6, StepsFollow
<1> HIDE DEF second, both
<1>9. StepsApplied(r, j - 1, two, order) = StepsApplied(m, i - 1, two, order)
  BY <1>2, <1>7, <1>8, FollowsOne
<1> QED
  BY <1>9 DEF r, one, two

-----------------------------------------------------------------------------
(* A state that missed releases is as far from its twin as their steps are *)
(* from being one.                                                         *)

Lockstep ==
    /\ storedAt = installed => twin = stored
    /\ storedAt < installed =>
         \A order \in Orders : twin = StepsApplied(stored, storedAt, ReleaseOf(installed).steps, order)

Together == InHistory /\ Lockstep

LEMMA TogetherInit == UpgradeInit => Together
BY InHistoryInit DEF UpgradeInit, Together, Lockstep

LEMMA InstallKeepsLockstep ==
    ASSUME ReleasesCompose, Together, InstallRelease
    PROVE  Lockstep'
<1> DEFINE i == storedAt + 1
           j == installed + 1
<1>1. PICK last \in Orders : twin' = Upgraded(twin, installed, installed + 1, last)
  BY DEF InstallRelease
<1>2. /\ releases' = releases /\ installed' = installed + 1 /\ storedAt' = storedAt /\ stored' = stored
      /\ releases \in Histories /\ installed + 1 \in 0 .. Len(releases) - 1
      /\ storedAt \in 0 .. installed /\ installed \in 0 .. Len(releases) - 1
      /\ storedAt \in 0 .. Len(releases) - 1
      /\ stored \in StatesOf(Schema(storedAt))
  BY HistoryAssumption DEF InstallRelease, Together, InHistory, StoredFitsSchema
<1>3. /\ i \in DOMAIN releases /\ j \in DOMAIN releases /\ j + 1 \in DOMAIN releases
      /\ i - 1 = storedAt /\ j - 1 = installed
      /\ stored \in StatesOf(releases[i].schema)
      /\ ReleaseOf(installed) = releases[j] /\ ReleaseOf(installed + 1) = releases[j + 1]
  BY <1>2, Indexes
<1>4. twin' = StepsApplied(twin, installed, releases[j + 1].steps, last)
  BY <1>1, <1>3 DEF Upgraded
<1>5. ASSUME NEW order \in Orders
      PROVE  twin' = StepsApplied(stored, storedAt, releases[j + 1].steps, order)
  <2>1. CASE storedAt = installed
    <3>1. twin = stored
      BY <2>1 DEF Together, Lockstep
    <3>2. stored \in Results
      BY <1>2, <1>3, ReleaseType, StatesOfFit DEF Results
    <3> HIDE DEF i, j
    <3> QED
      BY <1>2, <1>3, <1>4, <2>1, <3>1, <3>2, ReleaseType, StepsAnyOrder
  <2>2. CASE storedAt # installed
    <3>1. i < j /\ storedAt < installed
      BY <1>2, <2>2
    <3>2. twin = StepsApplied(stored, storedAt, releases[j].steps, last)
      BY <1>3, <3>1 DEF Together, Lockstep
    <3> HIDE DEF i, j
    <3>3. Composes(releases, i, j, stored)
      BY <1>2, <1>3, <3>1, UpgradesCompose
    <3> QED
      BY <1>3, <1>4, <3>2, <3>3 DEF Composes
  <2> QED
    BY <2>1, <2>2
<1>6. storedAt' # installed'
  BY <1>2
<1>7. (ReleaseOf(installed))' = releases[j + 1]
  BY <1>2, <1>3 DEF ReleaseOf
<1> QED
  BY <1>2, <1>5, <1>6, <1>7 DEF Lockstep

LEMMA TogetherStep ==
    ASSUME KindsLead, ReleasesCompose, Together, [UpgradeNext]_upgradeVars
    PROVE  Together'
<1>1. InHistory'
  BY InHistoryStep DEF Together
<1>2. CASE InstallRelease
  BY <1>1, <1>2, InstallKeepsLockstep DEF Together
<1>3. CASE OpenState
  <2>1. PICK order \in Orders : stored' = Upgraded(stored, storedAt, installed, order)
    BY <1>3 DEF OpenState
  <2>2. storedAt < installed /\ twin' = twin /\ installed' = installed /\ storedAt' = installed
        /\ installed \in Int
    BY <1>3 DEF OpenState, Together, InHistory
  <2>3. stored' = twin
    BY <2>1, <2>2 DEF Upgraded, Together, Lockstep
  <2> QED
    BY <1>1, <2>2, <2>3 DEF Together, Lockstep
<1>4. CASE UNCHANGED upgradeVars
  BY <1>1, <1>4 DEF Together, Lockstep, upgradeVars, ReleaseOf
<1> QED
  BY <1>2, <1>3, <1>4 DEF UpgradeNext

(* UpgradeState brings a state that missed releases to where it would be   *)
(* had it seen them all: every value it holds, converted or refused as it  *)
(* would have been.  What a history needs for that is in the names and     *)
(* kinds its steps list: by them an attribute takes the same route with a  *)
(* release left out, and no two attributes come under one name.            *)
THEOREM JumpsAreSteps ==
    ASSUME KindsLead, \A h \in Histories : RoutesCompose(h)
    PROVE  UpgradeSpec => []JumpsLikeSteps
<1>0. ReleasesCompose
  BY RoutesLead
<1>1. UpgradeInit => Together
  BY TogetherInit
<1>2. Together /\ [UpgradeNext]_upgradeVars => Together'
  BY <1>0, TogetherStep
<1>3. Together => JumpsLikeSteps
  BY DEF Together, Lockstep, JumpsLikeSteps
<1> QED
  BY <1>1, <1>2, <1>3, PTL DEF UpgradeSpec

-----------------------------------------------------------------------------
(* Where the values go. *)

Telling(v) == v.of \notin Blanks \cup {Nil.of}

LEMMA ConvertedTells ==
    ASSUME NEW v \in StateValues, NEW n, NEW step
    PROVE  /\ Telling(v) => Converted(v, n, step).of = v.of
           /\ Converted(v, n, step) # Nil => v # Nil
BY DEF Converted, AsNumber, AsText, StateValues, StateKinds, Nil, Telling

(* What one step does to the values that say something. *)
Carries(after, r, step) ==
    /\ \A q \in DOMAIN r \ (DOMAIN step.renames \cup step.drop) : Telling(r[q]) =>
         q \in DOMAIN after /\ after[q].of = r[q].of
    /\ \A q \in DOMAIN r \cap DOMAIN step.renames :
         LET new == step.renames[q]
         IN Telling(r[q]) /\ new \notin step.drop /\ (new \in DOMAIN r => r[new] = Nil) =>
              new \in DOMAIN after /\ after[new].of = r[q].of
    /\ \A q \in DOMAIN after : after[q] # Nil =>
         \E o \in DOMAIN r : r[o] # Nil /\ q = IF o \in DOMAIN step.renames THEN step.renames[o] ELSE o

LEMMA StepCarries ==
    ASSUME NEW r \in Results, NEW step \in StepRecords, Simple(step.renames), NEW order \in Orders,
           ApplyStep(r, step, order) # Unreadable
    PROVE  Carries(ApplyStep(r, step, order), r, step)
<1> DEFINE renames == step.renames
           f == Merged(r, renames, StateNames)
           moved == Moved(r, renames, StateNames)
           after == ApplyStep(r, step, order)
<1>1. r \in States /\ renames \in Renamings
  BY DEF ApplyStep, Results, StepRecords, Renamings
<1>2. Renamed(r, renames, order) = f /\ f \in States
  BY <1>1, RenamedIs, RenamedType
<1>3. after = [n \in DOMAIN f \ step.drop |-> Converted(f[n], n, step)]
  BY <1>2 DEF ApplyStep
<1>4. IsMerged(f, r, renames, moved)
  BY <1>1, MergedAt
<1>5. DOMAIN r \subseteq StateNames /\ \A n \in DOMAIN r : r[n] \in StateValues
  BY <1>1 DEF States
<1>6. moved = DOMAIN r \cap DOMAIN renames
  BY <1>5 DEF Moved
<1>7. \A n \in DOMAIN f : f[n] \in StateValues
  BY <1>2 DEF States
<1>8. ASSUME NEW n \in DOMAIN f
      PROVE  \E o \in DOMAIN r : f[n] = r[o] /\ n = IF o \in DOMAIN renames THEN renames[o] ELSE o
  BY <1>1, MergedFrom
<1> HIDE DEF f, moved, after, renames
<1>9. ASSUME NEW q \in DOMAIN r \ (DOMAIN renames \cup step.drop), Telling(r[q])
      PROVE  q \in DOMAIN after /\ after[q].of = r[q].of
  <2>1. q \in DOMAIN r \ moved /\ r[q] # Nil
    BY <1>6, <1>9 DEF Telling
  <2>2. q \in DOMAIN f /\ f[q] = r[q]
    BY <1>4, <2>1 DEF IsMerged
  <2> QED
    BY <1>3, <1>5, <1>9, <2>2, ConvertedTells
<1>10. ASSUME NEW q \in DOMAIN r \cap DOMAIN renames, Telling(r[q]), renames[q] \notin step.drop,
              renames[q] \in DOMAIN r => r[renames[q]] = Nil
       PROVE  renames[q] \in DOMAIN after /\ after[renames[q]].of = r[q].of
  <2>1. q \in moved
    BY <1>6
  <2>2. renames[q] \in DOMAIN f /\ f[renames[q]] = r[q]
    BY <1>4, <1>10, <2>1 DEF IsMerged
  <2> QED
    BY <1>3, <1>5, <1>10, <2>2, ConvertedTells
<1>11. ASSUME NEW q \in DOMAIN after, after[q] # Nil
       PROVE  \E o \in DOMAIN r : r[o] # Nil /\ q = IF o \in DOMAIN renames THEN renames[o] ELSE o
  <2>1. q \in DOMAIN f /\ f[q] # Nil
    BY <1>3, <1>7, <1>11, ConvertedTells
  <2> QED
    BY <1>8, <2>1
<1> QED
  BY <1>9, <1>10, <1>11 DEF Carries, after, renames

(* Where the value of n is after i of the steps. *)
Kept(r, m, n, steps, i) ==
    \/ /\ n \in DOMAIN r /\ r[n].of = m[n].of
       /\ \A p \in 1 .. i : n \notin DOMAIN steps[p].renames
    \/ \E p \in 1 .. i :
         /\ n \in DOMAIN steps[p].renames
         /\ steps[p].renames[n] \in DOMAIN r
         /\ r[steps[p].renames[n]].of = m[n].of

(* Where the values come from. *)
Traced(r, m, steps, i) ==
    \A q \in DOMAIN r : r[q] # Nil =>
      \/ q \in DOMAIN m /\ m[q] # Nil
      \/ \E p \in 1 .. i : \E o \in DOMAIN m \cap DOMAIN steps[p].renames : steps[p].renames[o] = q

(* What makes a release lose what a state says under n. *)
Loses(release, m, n) ==
    \E i \in DOMAIN release.steps :
      LET step == release.steps[i]
      IN \/ n \in step.drop
         \/ /\ n \in DOMAIN step.renames
            /\ step.renames[n] \in DOMAIN m
            /\ m[step.renames[n]] # Nil

LEMMA StepKeeps ==
    ASSUME NewNamesDiffer, NEW h \in Histories, NEW k \in DOMAIN h,
           NEW m \in StatesOf(h[1].schema), NEW n \in DOMAIN m, Telling(m[n]), ~Loses(h[k], m, n),
           NEW i \in 1 .. Len(h[k].steps), NEW r \in Results, NEW order \in Orders,
           ApplyStep(r, h[k].steps[i], order) # Unreadable,
           Kept(r, m, n, h[k].steps, i - 1), Traced(r, m, h[k].steps, i - 1)
    PROVE  /\ Kept(ApplyStep(r, h[k].steps[i], order), m, n, h[k].steps, i)
           /\ Traced(ApplyStep(r, h[k].steps[i], order), m, h[k].steps, i)
<1> DEFINE steps == h[k].steps
           step == steps[i]
           after == ApplyStep(r, step, order)
           R(p) == steps[p].renames
<1>1. /\ steps \in Seq(StepRecords) /\ DOMAIN steps = 1 .. Len(steps) /\ Len(steps) \in Nat
      /\ step \in StepRecords /\ Simple(step.renames)
      /\ ValidSteps(h[k], k - 1) /\ WellWritten(h[k])
  BY ReleaseType
<1>2. Carries(after, r, step)
  BY <1>1, StepCarries
<1>3. ASSUME NEW p \in 1 .. Len(steps), NEW q \in 1 .. Len(steps), NEW o \in DOMAIN R(p)
      PROVE  R(p)[o] \notin DOMAIN R(q) /\ R(p)[o] \notin steps[q].drop
  <2>1. R(p)[o] \in SchemaNames(h[k]) /\ steps[q].drop \cap SchemaNames(h[k]) = {}
    BY <1>1 DEF ValidSteps
  <2>2. R(p)[o] \notin DOMAIN R(q)
    BY <1>1 DEF WellWritten
  <2> QED
    BY <2>1, <2>2
<1>4. \A p \in 1 .. Len(steps) :
        /\ n \notin steps[p].drop
        /\ n \in DOMAIN R(p) /\ R(p)[n] \in DOMAIN m => m[R(p)[n]] = Nil
  BY <1>1 DEF Loses
<1>5. ASSUME NEW p \in 1 .. Len(steps), NEW q \in 1 .. Len(steps),
             NEW o \in DOMAIN m \cap DOMAIN R(p), n \in DOMAIN R(q), R(p)[o] = R(q)[n]
      PROVE  o = n
  <2>1. 1 \in DOMAIN h
    BY HistoryAssumption
  <2>2. DOMAIN m \subseteq SchemaNames(h[1])
    BY <2>1, ReleaseType, StatesOfFit DEF SchemaNames
  <2>3. p \in DOMAIN steps /\ q \in DOMAIN steps
    BY <1>1
  <2> QED
    BY <1>5, <2>2, <2>3 DEF NewNamesDiffer
<1>6. /\ Kept(r, m, n, steps, i - 1) /\ Traced(r, m, steps, i - 1)
      /\ i \in 1 .. Len(steps) /\ step.renames = R(i) /\ step.drop = steps[i].drop
  OBVIOUS
<1> HIDE DEF steps, after, step, R
<1>7. Kept(after, m, n, steps, i)
  <2>1. CASE /\ n \in DOMAIN r /\ r[n].of = m[n].of /\ n \notin DOMAIN R(i)
             /\ \A p \in 1 .. i - 1 : n \notin DOMAIN R(p)
    <3>1. Telling(r[n])
      BY <2>1 DEF Telling
    <3>2. n \in DOMAIN after /\ after[n].of = m[n].of
      BY <1>2, <1>4, <1>6, <2>1, <3>1 DEF Carries
    <3>3. \A p \in 1 .. i : n \notin DOMAIN R(p)
      BY <1>1, <1>6, <2>1
    <3> QED
      BY <3>2, <3>3 DEF Kept, R
  <2>2. CASE /\ n \in DOMAIN r /\ r[n].of = m[n].of /\ n \in DOMAIN R(i)
             /\ \A p \in 1 .. i - 1 : n \notin DOMAIN R(p)
    <3> DEFINE new == R(i)[n]
    <3>1. Telling(r[n])
      BY <2>2 DEF Telling
    <3>2. new \notin step.drop
      BY <1>3, <1>6, <2>2
    <3>3. ASSUME new \in DOMAIN r, r[new] # Nil PROVE FALSE
      <4>1. \/ new \in DOMAIN m /\ m[new] # Nil
            \/ \E p \in 1 .. i - 1 : \E o \in DOMAIN m \cap DOMAIN R(p) : R(p)[o] = new
        BY <1>6, <3>3 DEF Traced, R
      <4>2. PICK p \in 1 .. i - 1 : \E o \in DOMAIN m \cap DOMAIN R(p) : R(p)[o] = new
        BY <1>4, <1>6, <2>2, <4>1
      <4>3. p \in 1 .. Len(steps)
        BY <1>1, <1>6
      <4>4. n \in DOMAIN R(p)
        BY <1>5, <1>6, <2>2, <4>2, <4>3
      <4> QED
        BY <2>2, <4>4
    <3>4. new \in DOMAIN after /\ after[new].of = m[n].of
      BY <1>2, <1>6, <2>2, <3>1, <3>2, <3>3 DEF Carries
    <3>5. i \in 1 .. i
      BY <1>1, <1>6
    <3> QED
      BY <2>2, <3>4, <3>5 DEF Kept, R
  <2>3. CASE \E p \in 1 .. i - 1 :
               n \in DOMAIN R(p) /\ R(p)[n] \in DOMAIN r /\ r[R(p)[n]].of = m[n].of
    <3>1. PICK p \in 1 .. i - 1 :
            n \in DOMAIN R(p) /\ R(p)[n] \in DOMAIN r /\ r[R(p)[n]].of = m[n].of
      BY <2>3
    <3>2. p \in 1 .. Len(steps) /\ p \in 1 .. i
      BY <1>1, <1>6
    <3> DEFINE new == R(p)[n]
    <3>3. new \notin DOMAIN R(i) /\ new \notin step.drop
      BY <1>3, <1>6, <3>1, <3>2
    <3>4. Telling(r[new])
      BY <3>1 DEF Telling
    <3>5. new \in DOMAIN after /\ after[new].of = m[n].of
      BY <1>2, <1>6, <3>1, <3>3, <3>4 DEF Carries
    <3> QED
      BY <3>1, <3>2, <3>5 DEF Kept, R
  <2> QED
    BY <1>6, <2>1, <2>2, <2>3 DEF Kept, R
<1>8. Traced(after, m, steps, i)
  <2> SUFFICES ASSUME NEW q \in DOMAIN after, after[q] # Nil
               PROVE  \/ q \in DOMAIN m /\ m[q] # Nil
                      \/ \E p \in 1 .. i : \E o \in DOMAIN m \cap DOMAIN R(p) : R(p)[o] = q
    BY DEF Traced, R
  <2>1. PICK o \in DOMAIN r : r[o] # Nil /\ q = IF o \in DOMAIN R(i) THEN R(i)[o] ELSE o
    BY <1>2, <1>6 DEF Carries
  <2>2. \/ o \in DOMAIN m /\ m[o] # Nil
        \/ \E p \in 1 .. i - 1 : \E u \in DOMAIN m \cap DOMAIN R(p) : R(p)[u] = o
    BY <1>6, <2>1 DEF Traced, R
  <2>3. i \in 1 .. i /\ \A p \in 1 .. i - 1 : p \in 1 .. i /\ p \in 1 .. Len(steps)
    BY <1>1, <1>6
  <2>4. CASE o \in DOMAIN m /\ m[o] # Nil
    BY <2>1, <2>3, <2>4
  <2>5. CASE \E p \in 1 .. i - 1 : \E u \in DOMAIN m \cap DOMAIN R(p) : R(p)[u] = o
    <3>1. o \notin DOMAIN R(i)
      BY <1>3, <1>6, <2>3, <2>5
    <3> QED
      BY <2>1, <2>3, <2>5, <3>1
  <2> QED
    BY <2>2, <2>4, <2>5
<1> QED
  BY <1>7, <1>8 DEF after, steps, step

LEMMA UpgradeKeeps ==
    ASSUME NewNamesDiffer, NEW h \in Histories, NEW k \in DOMAIN h,
           NEW m \in StatesOf(h[1].schema), NEW n \in DOMAIN m, Telling(m[n]), ~Loses(h[k], m, n),
           NEW order \in Orders, StepsApplied(m, 0, h[k].steps, order) # Unreadable
    PROVE  \E q \in DOMAIN StepsApplied(m, 0, h[k].steps, order) :
             StepsApplied(m, 0, h[k].steps, order)[q].of = m[n].of
<1> DEFINE steps == h[k].steps
           l == Len(steps)
<1>0. /\ steps \in Seq(StepRecords) /\ DOMAIN steps = 1 .. l /\ l \in Nat
      /\ \A i \in 1 .. l : steps[i] \in StepRecords
  BY ReleaseType
<1>m. m \in Results
  <2>1. 1 \in DOMAIN h
    BY HistoryAssumption
  <2> QED
    BY <2>1, ReleaseType, StatesOfFit DEF Results
<1> HIDE DEF steps
<1>1. PICK a \in [0 .. l -> Results] : IsUpgrade(a, m, 0, steps, order)
  BY <1>0, <1>m, StepsRun
<1>r. /\ a[0] = m
      /\ \A i \in 1 .. l : a[i] = ApplyStep(a[i - 1], steps[i], order)
      /\ StepsApplied(m, 0, steps, order) = a[l]
  <2>1. \A i \in 1 .. l : Applies(steps[i], 0)
    BY <1>0 DEF Applies, StepRecords
  <2> QED
    BY <1>1, <2>1 DEF IsUpgrade
<1> DEFINE Good(r, i) == r # Unreadable => Kept(r, m, n, steps, i) /\ Traced(r, m, steps, i)
           P == {i \in 0 .. l : Good(a[i], i)}
<1> HIDE DEF l
<1>2. 0 \in P
  BY <1>0, <1>r DEF Kept, Traced
<1>3. ASSUME NEW i \in 1 .. l, i - 1 \in P PROVE i \in P
  <2>1. SUFFICES ASSUME a[i] # Unreadable
                 PROVE  Kept(a[i], m, n, steps, i) /\ Traced(a[i], m, steps, i)
    OBVIOUS
  <2>2. a[i] = ApplyStep(a[i - 1], steps[i], order) /\ a[i - 1] \in Results
    BY <1>0, <1>r
  <2>3. a[i - 1] # Unreadable
    BY <2>1, <2>2 DEF ApplyStep
  <2>4. Kept(a[i - 1], m, n, steps, i - 1) /\ Traced(a[i - 1], m, steps, i - 1)
    BY <1>3, <2>3
  <2> HIDE DEF P
  <2> QED
    BY <1>0, <2>1, <2>2, <2>4, StepKeeps DEF steps, l
<1> HIDE DEF P
<1>4. 0 .. l \subseteq P
  BY <1>0, <1>2, <1>3, UpTo
<1>5. l \in P
  BY <1>0, <1>4
<1>6. a[l] # Unreadable
  BY <1>r DEF steps
<1>7. Kept(a[l], m, n, steps, l)
  BY <1>5, <1>6 DEF P
<1>8. \E q \in DOMAIN a[l] : a[l][q].of = m[n].of
  BY <1>7 DEF Kept
<1> QED
  BY <1>r, <1>8 DEF steps

(* Both states are what the steps of their versions make of the first one. *)
FromOriginal ==
    /\ storedAt = 0 => stored = original
    /\ storedAt > 0 => /\ stored # Unreadable
                       /\ \E order \in Orders :
                            stored = StepsApplied(original, 0, ReleaseOf(storedAt).steps, order)
    /\ installed = 0 => twin = original
    /\ installed > 0 => \A order \in Orders :
                          twin = StepsApplied(original, 0, ReleaseOf(installed).steps, order)

Upgrading == Together /\ FromOriginal

LEMMA UpgradingInit == UpgradeInit => Upgrading
BY TogetherInit DEF UpgradeInit, Upgrading, FromOriginal

LEMMA InstallKeepsOrigin ==
    ASSUME ReleasesCompose, Upgrading, InstallRelease
    PROVE  FromOriginal'
<1> DEFINE j == installed + 1
<1>1. PICK last \in Orders : twin' = Upgraded(twin, installed, installed + 1, last)
  BY DEF InstallRelease
<1>2. /\ releases' = releases /\ installed' = installed + 1
      /\ storedAt' = storedAt /\ stored' = stored /\ original' = original
      /\ releases \in Histories /\ installed + 1 \in 0 .. Len(releases) - 1
      /\ installed \in 0 .. Len(releases) - 1 /\ 0 \in 0 .. Len(releases) - 1
      /\ original \in StatesOf(Schema(0))
  BY HistoryAssumption DEF InstallRelease, Upgrading, Together, InHistory
<1>3. /\ 1 \in DOMAIN releases /\ j \in DOMAIN releases /\ j + 1 \in DOMAIN releases
      /\ j - 1 = installed /\ 1 - 1 = 0 /\ original \in StatesOf(releases[1].schema)
      /\ ReleaseOf(installed) = releases[j] /\ ReleaseOf(installed + 1) = releases[j + 1]
  BY <1>2, Indexes
<1>4. twin' = StepsApplied(twin, installed, releases[j + 1].steps, last)
  BY <1>1, <1>3 DEF Upgraded
<1>5. ASSUME NEW order \in Orders
      PROVE  twin' = StepsApplied(original, 0, releases[j + 1].steps, order)
  <2>1. CASE installed = 0
    <3>1. twin = original
      BY <2>1 DEF Upgrading, FromOriginal
    <3>2. original \in Results
      BY <1>2, <1>3, ReleaseType, StatesOfFit DEF Results
    <3> HIDE DEF j
    <3> QED
      BY <1>2, <1>3, <1>4, <2>1, <3>1, <3>2, ReleaseType, StepsAnyOrder
  <2>2. CASE installed # 0
    <3>1. 1 < j /\ installed > 0
      BY <1>2, <2>2
    <3>2. twin = StepsApplied(original, 0, releases[j].steps, last)
      BY <1>3, <3>1 DEF Upgrading, FromOriginal
    <3> HIDE DEF j
    <3>3. Composes(releases, 1, j, original)
      BY <1>2, <1>3, <3>1, UpgradesCompose
    <3> QED
      BY <1>3, <1>4, <3>2, <3>3 DEF Composes
  <2> QED
    BY <2>1, <2>2
<1>6. installed' # 0
  BY <1>2
<1>7. (ReleaseOf(installed))' = releases[j + 1] /\ (ReleaseOf(storedAt))' = ReleaseOf(storedAt)
  BY <1>2, <1>3 DEF ReleaseOf
<1> QED
  BY <1>2, <1>5, <1>6, <1>7 DEF Upgrading, FromOriginal

LEMMA UpgradingStep ==
    ASSUME KindsLead, ReleasesCompose, Upgrading, [UpgradeNext]_upgradeVars
    PROVE  Upgrading'
<1>1. Together'
  BY TogetherStep DEF Upgrading
<1>2. CASE InstallRelease
  BY <1>1, <1>2, InstallKeepsOrigin DEF Upgrading
<1>3. CASE OpenState
  <2>1. PICK order \in Orders : stored' = Upgraded(stored, storedAt, installed, order)
    BY <1>3 DEF OpenState
  <2>2. /\ storedAt < installed /\ storedAt \in Nat /\ installed \in Nat
        /\ twin' = twin /\ installed' = installed /\ storedAt' = installed /\ original' = original
        /\ releases' = releases /\ stored' # Unreadable
    BY <1>3 DEF OpenState, Upgrading, Together, InHistory
  <2>3. stored' = twin
    BY <2>1, <2>2 DEF Upgraded, Upgrading, Together, Lockstep
  <2>4. installed > 0
    BY <2>2
  <2>5. (ReleaseOf(installed))' = ReleaseOf(installed) /\ (ReleaseOf(storedAt))' = ReleaseOf(installed)
    BY <2>2 DEF ReleaseOf
  <2> QED
    BY <1>1, <2>2, <2>3, <2>4, <2>5 DEF Upgrading, FromOriginal
<1>4. CASE UNCHANGED upgradeVars
  BY <1>1, <1>4 DEF Upgrading, FromOriginal, upgradeVars, ReleaseOf
<1> QED
  BY <1>2, <1>3, <1>4 DEF UpgradeNext

LEMMA NothingLost ==
    ASSUME NewNamesDiffer, Upgrading
    PROVE  SurvivesUpgrade
<1> SUFFICES ASSUME NEW n \in DOMAIN original, Telling(original[n]), ~Loses(ReleaseOf(storedAt), original, n)
             PROVE  \E q \in DOMAIN stored : stored[q].of = original[n].of
  BY DEF SurvivesUpgrade, Telling, Loses
<1>1. CASE storedAt = 0
  BY <1>1 DEF Upgrading, FromOriginal
<1>2. CASE storedAt # 0
  <2>1. /\ releases \in Histories /\ storedAt \in 0 .. Len(releases) - 1
        /\ 0 \in 0 .. Len(releases) - 1 /\ storedAt > 0 /\ original \in StatesOf(Schema(0))
    BY <1>2, HistoryAssumption DEF Upgrading, Together, InHistory
  <2>2. /\ storedAt + 1 \in DOMAIN releases /\ ReleaseOf(storedAt) = releases[storedAt + 1]
        /\ original \in StatesOf(releases[1].schema)
    BY <2>1, Indexes
  <2>3. PICK order \in Orders :
          /\ stored # Unreadable
          /\ stored = StepsApplied(original, 0, releases[storedAt + 1].steps, order)
    BY <2>1, <2>2 DEF Upgrading, FromOriginal
  <2> QED
    BY <2>1, <2>2, <2>3, UpgradeKeeps
<1> QED
  BY <1>1, <1>2

(* UpgradeState keeps whatever a user set, unless the release drops the    *)
(* attribute or renames it to one that had a value of its own.             *)
THEOREM UpgradesKeep ==
    ASSUME KindsLead, ReleasesCompose, NewNamesDiffer PROVE UpgradeSpec => []SurvivesUpgrade
<1>1. UpgradeInit => Upgrading
  BY UpgradingInit
<1>2. Upgrading /\ [UpgradeNext]_upgradeVars => Upgrading'
  BY UpgradingStep
<1>3. Upgrading => SurvivesUpgrade
  BY NothingLost
<1> QED
  BY <1>1, <1>2, <1>3, PTL DEF UpgradeSpec

=============================================================================
