-------------------------- MODULE GrantBudget_proofs --------------------------
(***************************************************************************)
(* Theorems of GrantBudget: one inductive invariant (IInv: types, row      *)
(* locks, what each session has read and holds) carries the others.        *)
(*                                                                         *)
(* The totals are folds over sets.  A total is restated as the number of   *)
(* units it counts (Total), and FoldedIsTotal shows the fold to compute    *)
(* it; the library's facts on finite sets then say how a total changes     *)
(* when one row does.                                                      *)
(*                                                                         *)
(* Steps are described by their effect on other sessions: a Clean step     *)
(* writes rows nobody else has locked and locks rows nobody else has.      *)
(***************************************************************************)
EXTENDS GrantBudget, FiniteSetTheorems, TLAPS
------------------------------------------------------------------------------
(* Sums over finite sets: x counts for f[x] units.                         *)

Units(f, S) == UNION {{x} \X (1..f[x]) : x \in S}
Total(f, S) == Cardinality(Units(f, S))

LEMMA UnitsIn ==
    ASSUME NEW f, NEW S
    PROVE  \A u : u \in Units(f, S) <=> \E x \in S : u \in {x} \X (1..f[x])
BY DEF Units

LEMMA UnitsFinite ==
    ASSUME NEW f, NEW S, IsFiniteSet(S), \A x \in S : f[x] \in Nat
    PROVE  /\ IsFiniteSet(Units(f, S))
           /\ Total(f, S) \in Nat
<1> DEFINE column == [x \in S |-> {x} \X (1..f[x])]
           columns == {{x} \X (1..f[x]) : x \in S}
<1>1. column \in Surjection(S, columns)
  BY DEF Surjection
<1>2. IsFiniteSet(columns)
  <2> HIDE DEF column, columns
  <2> QED BY <1>1, FS_Surjection
<1>3. ASSUME NEW C \in columns PROVE IsFiniteSet(C)
  <2>1. PICK x \in S : C = {x} \X (1..f[x])
    OBVIOUS
  <2>2. IsFiniteSet({x})
    BY FS_Singleton
  <2>3. IsFiniteSet(1..f[x])
    BY FS_Interval
  <2> QED BY <2>1, <2>2, <2>3, FS_Product
<1>4. IsFiniteSet(UNION columns)
  <2> HIDE DEF columns
  <2> QED BY <1>2, <1>3, FS_UNION
<1> QED BY <1>4, FS_CardinalityType DEF Units, Total

LEMMA TotalOfNone ==
    ASSUME NEW f PROVE Total(f, {}) = 0
BY FS_EmptySet DEF Units, Total

LEMMA UnitsSplit ==
    ASSUME NEW f, NEW S, NEW x \in S
    PROVE  /\ Units(f, S) = Units(f, S \ {x}) \cup ({x} \X (1..f[x]))
           /\ Units(f, S \ {x}) \cap ({x} \X (1..f[x])) = {}
BY UnitsIn

LEMMA TotalSplit ==
    ASSUME NEW f, NEW S, IsFiniteSet(S), \A y \in S : f[y] \in Nat, NEW x \in S
    PROVE  Total(f, S) = f[x] + Total(f, S \ {x})
<1> DEFINE rest == Units(f, S \ {x})
           mine == {x} \X (1..f[x])
<1>1. IsFiniteSet(rest) /\ Cardinality(rest) \in Nat
  BY UnitsFinite, FS_Difference DEF Total
<1>2. IsFiniteSet({x}) /\ Cardinality({x}) = 1
  BY FS_Singleton
<1>3. IsFiniteSet(1..f[x]) /\ Cardinality(1..f[x]) = f[x]
  BY FS_Interval
<1>4. IsFiniteSet(mine) /\ Cardinality(mine) = f[x]
  <2>1. IsFiniteSet(mine) /\ Cardinality(mine) = Cardinality({x}) * Cardinality(1..f[x])
    BY <1>2, <1>3, FS_Product
  <2> QED BY <1>2, <1>3, <2>1
<1>5. Units(f, S) = rest \cup mine /\ rest \cap mine = {}
  BY UnitsSplit
<1>6. Cardinality(rest \cup mine)
         = Cardinality(rest) + Cardinality(mine) - Cardinality(rest \cap mine)
  <2> HIDE DEF rest, mine
  <2> QED BY <1>1, <1>4, FS_Union
<1>7. Cardinality({}) = 0
  BY FS_EmptySet
<1>8. f[x] \in Nat
  OBVIOUS
<1> HIDE DEF rest, mine
<1>9. Total(f, S) = Cardinality(rest) + f[x]
  <2>1. Total(f, S) = Cardinality(rest \cup mine)
    BY <1>5 DEF Total
  <2>2. Cardinality(rest \cap mine) = 0
    BY <1>5, <1>7
  <2> QED BY <1>1, <1>4, <1>6, <1>8, <2>1, <2>2
<1>10. Total(f, S \ {x}) = Cardinality(rest)
  BY DEF Total, rest
<1> QED BY <1>1, <1>8, <1>9, <1>10

(* What MapThenFoldSet chooses: the sums of all subsets, an element at a   *)
(* time.                                                                   *)
Folded(f, S, iter) ==
    iter = [s \in SUBSET S |->
              IF s = {} THEN 0
              ELSE f[CHOOSE x \in s : TRUE] + iter[s \ {CHOOSE x \in s : TRUE}]]

LEMMA TotalIsFolded ==
    ASSUME NEW f, NEW S, IsFiniteSet(S), \A x \in S : f[x] \in Nat
    PROVE  Folded(f, S, [T \in SUBSET S |-> Total(f, T)])
<1> DEFINE sum == [T \in SUBSET S |-> Total(f, T)]
<1>1. ASSUME NEW T \in SUBSET S
      PROVE  sum[T] = IF T = {} THEN 0
                      ELSE f[CHOOSE x \in T : TRUE] + sum[T \ {CHOOSE x \in T : TRUE}]
  <2>1. CASE T = {}
    BY <2>1, TotalOfNone
  <2>2. CASE T # {}
    <3> DEFINE x == CHOOSE x \in T : TRUE
    <3>1. x \in T
      BY <2>2
    <3>2. IsFiniteSet(T)
      BY FS_Subset
    <3> HIDE DEF x
    <3>3. Total(f, T) = f[x] + Total(f, T \ {x})
      BY <3>1, <3>2, TotalSplit
    <3>4. sum[T \ {x}] = Total(f, T \ {x})
      OBVIOUS
    <3>5. sum[T] = f[x] + sum[T \ {x}]
      BY <3>3, <3>4
    <3> QED BY <2>2, <3>5 DEF x
  <2> QED BY <2>1, <2>2
<1>2. sum = [T \in SUBSET S |-> IF T = {} THEN 0
                      ELSE f[CHOOSE x \in T : TRUE] + sum[T \ {CHOOSE x \in T : TRUE}]]
  <2> HIDE DEF sum
  <2>1. sum = [T \in SUBSET S |-> sum[T]]
    BY DEF sum
  <2> QED BY <1>1, <2>1
<1> QED BY <1>2 DEF Folded

(* A smallest subset with another sum would lose its chosen element and    *)
(* still have another sum.                                                 *)
LEMMA FoldedIsTotal ==
    ASSUME NEW f, NEW S, IsFiniteSet(S), \A x \in S : f[x] \in Nat,
           NEW iter, Folded(f, S, iter)
    PROVE  \A T \in SUBSET S : iter[T] = Total(f, T)
<1> DEFINE Wrong == {T \in SUBSET S : iter[T] # Total(f, T)}
<1> SUFFICES ASSUME Wrong # {} PROVE FALSE
  OBVIOUS
<1>1. Wrong \subseteq FiniteSubsetsOf(S)
  BY FS_FiniteSubsetsOfFinite
<1>2. PICK T \in Wrong : \A U \in Wrong : <<U, T>> \notin StrictSubsetOrdering(S)
  <2>1. IsWellFoundedOn(StrictSubsetOrdering(S), FiniteSubsetsOf(S))
    BY FS_StrictSubsetOrderingWellFounded
  <2> HIDE DEF Wrong
  <2> QED BY <1>1, <2>1, WFMin
<1>3. \A U \in SUBSET S : U \subseteq T /\ U # T => iter[U] = Total(f, U)
  BY <1>2 DEF StrictSubsetOrdering
<1>4. IsFiniteSet(T)
  BY FS_Subset
<1>5. CASE T = {}
  BY <1>2, <1>5, TotalOfNone DEF Folded
<1>6. CASE T # {}
  <2> DEFINE x == CHOOSE x \in T : TRUE
  <2>1. x \in T
    BY <1>6
  <2>2. iter[T] = f[x] + iter[T \ {x}]
    BY <1>6 DEF Folded
  <2> HIDE DEF x
  <2>3. iter[T \ {x}] = Total(f, T \ {x})
    BY <1>3, <2>1
  <2>4. Total(f, T) = f[x] + Total(f, T \ {x})
    BY <1>4, <2>1, TotalSplit
  <2> QED BY <2>2, <2>3, <2>4
<1> QED BY <1>5, <1>6

(* Less is counted of a part; one element changes its own count.           *)
LEMMA TotalOnPart ==
    ASSUME NEW f, NEW g, NEW S, IsFiniteSet(S), \A x \in S : f[x] \in Nat,
           NEW T \in SUBSET S, \A x \in T : g[x] = f[x]
    PROVE  /\ Total(f, S) \in Nat /\ Total(g, T) \in Nat
           /\ Total(g, T) <= Total(f, S)
<1>1. Units(g, T) \in SUBSET Units(f, S)
  BY UnitsIn
<1>2. IsFiniteSet(Units(f, S)) /\ Total(f, S) \in Nat
  BY UnitsFinite
<1>3. IsFiniteSet(T) /\ \A x \in T : g[x] \in Nat
  BY FS_Subset
<1>4. Total(g, T) \in Nat
  BY <1>3, UnitsFinite
<1> QED BY <1>1, <1>2, <1>4, FS_Subset DEF Total

LEMMA TotalWith ==
    ASSUME NEW f, NEW g, NEW S, IsFiniteSet(S), \A y \in S : g[y] \in Nat,
           NEW x \in S, \A y \in S \ {x} : g[y] = f[y]
    PROVE  /\ Total(f, S \ {x}) \in Nat
           /\ Total(g, S) = g[x] + Total(f, S \ {x})
<1>1. Total(g, S) = g[x] + Total(g, S \ {x})
  BY TotalSplit
<1>2. Units(g, S \ {x}) = Units(f, S \ {x})
  <2>1. \A u : u \in Units(g, S \ {x}) <=> u \in Units(f, S \ {x})
    BY UnitsIn
  <2> QED BY <2>1
<1>3. IsFiniteSet(S \ {x})
  BY FS_Difference
<1>4. Total(f, S \ {x}) \in Nat
  BY <1>3, UnitsFinite
<1> QED BY <1>1, <1>2, <1>4 DEF Total

LEMMA TotalAtMost ==
    ASSUME NEW f, NEW S, IsFiniteSet(S), NEW a \in Nat,
           \A x \in S : f[x] \in Nat /\ f[x] <= a
    PROVE  /\ Cardinality(S) \in Nat /\ Total(f, S) \in Nat
           /\ Total(f, S) <= Cardinality(S) * a
<1>1. IsFiniteSet(1..a) /\ Cardinality(1..a) = a
  BY FS_Interval
<1>2. /\ IsFiniteSet(S \X (1..a))
      /\ Cardinality(S \X (1..a)) = Cardinality(S) * Cardinality(1..a)
  BY <1>1, FS_Product
<1>3. Units(f, S) \in SUBSET (S \X (1..a))
  BY UnitsIn
<1>4. Total(f, S) <= Cardinality(S \X (1..a))
  BY <1>2, <1>3, FS_Subset DEF Total
<1>5. Total(f, S) \in Nat /\ Cardinality(S) \in Nat
  BY UnitsFinite, FS_CardinalityType
<1> QED BY <1>1, <1>2, <1>4, <1>5

(* The sums of the model are totals.                                       *)
SpentSum(a, E) == MapThenSumSet(LAMBDA e : a[e].amount, E)

BudgetSum(b, L) == MapThenSumSet(LAMBDA l : b[l].allocated, L)

LEMMA SpentSumIsTotal ==
    ASSUME NEW a, NEW E, IsFiniteSet(E), NEW f,
           \A e \in E : f[e] = a[e].amount /\ f[e] \in Nat
    PROVE  SpentSum(a, E) = Total(f, E)
<1> DEFINE Eq(iter) == iter = [s \in SUBSET E |->
              IF s = {} THEN 0
              ELSE a[CHOOSE x \in s : TRUE].amount + iter[s \ {CHOOSE x \in s : TRUE}]]
           sum == CHOOSE iter : Eq(iter)
<1>1. SpentSum(a, E) = sum[E]
  BY DEF SpentSum, MapThenSumSet, MapThenFoldSet
<1>2. ASSUME NEW iter PROVE Eq(iter) <=> Folded(f, E, iter)
  <2>1. \A s \in SUBSET E : s # {} => (CHOOSE x \in s : TRUE) \in E
    OBVIOUS
  <2>2. [s \in SUBSET E |->
              IF s = {} THEN 0
              ELSE a[CHOOSE x \in s : TRUE].amount + iter[s \ {CHOOSE x \in s : TRUE}]]
        = [s \in SUBSET E |->
              IF s = {} THEN 0
              ELSE f[CHOOSE x \in s : TRUE] + iter[s \ {CHOOSE x \in s : TRUE}]]
    BY <2>1
  <2> QED BY <2>2 DEF Folded
<1>3. \E iter : Eq(iter)
  <2>1. Folded(f, E, [T \in SUBSET E |-> Total(f, T)])
    BY TotalIsFolded
  <2> HIDE DEF Eq
  <2> QED BY <1>2, <2>1
<1>4. Eq(sum)
  <2> HIDE DEF Eq
  <2> QED BY <1>3
<1>5. Folded(f, E, sum)
  BY <1>2, <1>4
<1> HIDE DEF sum
<1>6. sum[E] = Total(f, E)
  BY <1>5, FoldedIsTotal
<1> QED BY <1>1, <1>6

LEMMA BudgetSumIsTotal ==
    ASSUME NEW b, NEW L, IsFiniteSet(L), NEW f,
           \A l \in L : f[l] = b[l].allocated /\ f[l] \in Nat
    PROVE  BudgetSum(b, L) = Total(f, L)
<1> DEFINE Eq(iter) == iter = [s \in SUBSET L |->
              IF s = {} THEN 0
              ELSE b[CHOOSE x \in s : TRUE].allocated + iter[s \ {CHOOSE x \in s : TRUE}]]
           sum == CHOOSE iter : Eq(iter)
<1>1. BudgetSum(b, L) = sum[L]
  BY DEF BudgetSum, MapThenSumSet, MapThenFoldSet
<1>2. ASSUME NEW iter PROVE Eq(iter) <=> Folded(f, L, iter)
  <2>1. \A s \in SUBSET L : s # {} => (CHOOSE x \in s : TRUE) \in L
    OBVIOUS
  <2>2. [s \in SUBSET L |->
              IF s = {} THEN 0
              ELSE b[CHOOSE x \in s : TRUE].allocated + iter[s \ {CHOOSE x \in s : TRUE}]]
        = [s \in SUBSET L |->
              IF s = {} THEN 0
              ELSE f[CHOOSE x \in s : TRUE] + iter[s \ {CHOOSE x \in s : TRUE}]]
    BY <2>1
  <2> QED BY <2>2 DEF Folded
<1>3. \E iter : Eq(iter)
  <2>1. Folded(f, L, [T \in SUBSET L |-> Total(f, T)])
    BY TotalIsFolded
  <2> HIDE DEF Eq
  <2> QED BY <1>2, <2>1
<1>4. Eq(sum)
  <2> HIDE DEF Eq
  <2> QED BY <1>3
<1>5. Folded(f, L, sum)
  BY <1>2, <1>4
<1> HIDE DEF sum
<1>6. sum[L] = Total(f, L)
  BY <1>5, FoldedIsTotal
<1> QED BY <1>1, <1>6

------------------------------------------------------------------------------
(* The row locks a session holds, by what it does and how far it is.       *)
LocksOf(q) ==
    CASE q.call.op = "allocate" ->
            IF q.pc = "loaded" THEN {"grant"} ELSE {"grant", q.row}
      [] q.call.op \in {"update", "delete"}  -> {q.call.line}
      [] q.call.op \in {"resize", "release"} -> {q.call.expense}
      [] q.call.op \in {"pledge", "confirm"} /\ q.pc = "flushed" -> {q.row}
      [] OTHER -> {}

(* What a session saw of its line is the line, or an older version of it.  *)
Seen(q) ==
    /\ q.row = q.call.line
    /\ q.view.line \in Line
    /\ lines[q.row] # NoLine
    /\ q.row \in Live =>
          /\ q.view.line.version <= lines[q.row].version
          /\ q.view.line.version = lines[q.row].version => q.view.line = lines[q.row]

Sound(q) ==
    /\ q.call.op \in deployment.ops
    /\ q.pc = "locked" => q.call.op = "allocate"
    /\ q.pc = "flushed" => q.call.op \in {"pledge", "confirm"}
    /\ q.holds = LocksOf(q)
    /\ q.call.op \in LineOps => Seen(q)
    /\ q.call.op \in {"resize", "release"} => q.call.expense \in Allocated
    /\ q.call.op = "resize" => q.row = alloc[q.call.expense].line
    /\ q.call.op = "allocate" /\ q.pc # "loaded" => q.row \in Lines
    /\ q.row \in Lines \cap q.holds => q.row \in Live /\ lines[q.row] = q.view.line

SessionsSound == \A s \in Sessions : session[s] # Idle => Sound(session[s])

Exclusive ==
    \A s, t \in Sessions : s # t => session[s].holds \cap session[t].holds = {}

AllocationsHaveLines == \A e \in Allocated : alloc[e].line \in Live

LedgerStartsEmpty ==
    \A l \in Lines : lines[l] = NoLine => ledger[l] = [commit |-> 0, reconcile |-> 0]

IInv ==
    /\ TypeOK
    /\ SessionsSound
    /\ Exclusive
    /\ AllocationsHaveLines

------------------------------------------------------------------------------
(* Types and row locks.                                                    *)

LEMMA CallShape ==
    ASSUME NEW c \in Call
    PROVE  /\ c.op \in AllOps
           /\ c.op \in LineOps => c.line \in Lines
           /\ c.op \in {"update", "admin_update", "pledge", "confirm", "create",
                        "admin_create", "disburse", "resize"} => c.amount \in Amounts
           /\ c.op \in {"create", "admin_create", "allocate"} => c.category \in Categories
           /\ c.op \in {"allocate", "resize", "release"} => c.expense \in Expenses
           /\ c.op \in {"advance", "edit"} =>
                 c.status \in Statuses /\ c.award \in Amounts \cup {NoAward}
BY DEF Call, AllOps, LineOps

LEMMA IdleIsNotBusy ==
    /\ Idle \notin Busy /\ Idle.holds = {} /\ Idle.pc = "idle"
    /\ TypeOK => \A s \in Sessions : session[s] # Idle => session[s] \in Busy
BY DEF Idle, Busy, TypeOK

LEMMA LiveIsLine ==
    TypeOK => \A l \in Lines : l \in Live <=> lines[l] \in Line
BY NullsApart DEF TypeOK, Live

(* What a step of session s does to the rows, as the others see it.        *)
LineWritten(s, l) ==
    \/ lines'[l] = lines[l]
    \/ lines[l] = NoLine
    \/ /\ l \in Live
       /\ \A t \in Sessions \ {s} : l \notin session[t].holds
       /\ lines'[l] \in Line => lines'[l].version > lines[l].version
       /\ lines'[l] # NoLine

AllocWritten(s, e) ==
    \/ alloc'[e] = alloc[e]
    \/ alloc[e] = NoAlloc
    \/ \A t \in Sessions \ {s} : e \notin session[t].holds

LEMMA OthersStaySound ==
    ASSUME TypeOK, TypeOK', deployment' = deployment,
           NEW s \in Sessions, NEW t \in Sessions \ {s}, NEW q \in Busy,
           session[t] = q, Sound(q),
           \A l \in Lines : LineWritten(s, l),
           \A e \in Expenses : AllocWritten(s, e)
    PROVE  Sound(q)'
<1> DEFINE c == q.call  l == q.row
<1>0. /\ c \in Call
      /\ \A e \in Expenses : e \in Allocated <=> alloc[e] # NoAlloc
      /\ (\A e \in Expenses : e \in Allocated <=> alloc[e] # NoAlloc)'
  BY DEF Busy, Allocated
<1>1. CASE c.op \in {"resize", "release"}
  <2>1. c.expense \in Expenses /\ c.expense \in q.holds
    BY <1>0, <1>1, CallShape DEF Sound, LocksOf
  <2>2. alloc'[c.expense] = alloc[c.expense]
    BY <1>0, <1>1, <2>1 DEF Sound, AllocWritten
  <2>3. c.expense \in Allocated /\ (c.expense \in Allocated)'
    BY <1>0, <1>1, <2>1, <2>2 DEF Sound
  <2>4. q.holds = {c.expense} /\ q.holds \cap Lines = {}
    BY <1>1, <2>1, LocksApart DEF Sound, LocksOf
  <2> QED BY <1>1, <2>2, <2>3, <2>4 DEF Sound, LineOps
<1>2. c.op \in LineOps => Seen(q)'
  <2> SUFFICES ASSUME c.op \in LineOps PROVE Seen(q)'
    OBVIOUS
  <2>1. l \in Lines /\ Seen(q)
    BY <1>0, CallShape DEF Sound, Seen
  <2>2. CASE lines'[l] = lines[l]
    BY <2>1, <2>2 DEF Seen, Live
  <2>3. CASE lines'[l] # lines[l]
    <3>1. /\ l \in Live
          /\ lines'[l] \in Line => lines'[l].version > lines[l].version
          /\ lines'[l] # NoLine
      BY <2>1, <2>3 DEF Seen, LineWritten
    <3>2. lines[l] \in Line
      BY <2>1, <3>1, LiveIsLine
    <3>3. (l \in Live)' => lines'[l] \in Line
      BY <2>1 DEF Live, TypeOK
    <3> QED BY <2>1, <3>1, <3>2, <3>3 DEF Seen, Line
  <2> QED BY <2>2, <2>3
<1>3. l \in Lines \cap q.holds => (l \in Live)' /\ lines'[l] = q.view.line
  BY DEF Sound, LineWritten, Live
<1>4. c.op \notin {"resize", "release"} => Sound(q)'
  BY <1>2, <1>3 DEF Sound
<1> QED BY <1>1, <1>4

OnlySession(s) == \A t \in Sessions \ {s} : session'[t] = session[t]

(* A step of session s that keeps the others apart from it: it writes rows *)
(* nobody else has locked, and locks rows nobody else has.                 *)
Clean(s) ==
    /\ TypeOK'
    /\ OnlySession(s)
    /\ \A l \in Lines : LineWritten(s, l)
    /\ \A e \in Expenses : AllocWritten(s, e)
    /\ session'[s] # Idle => Sound(session[s])'
    /\ \A t \in Sessions \ {s} : session'[s].holds \cap session[t].holds = {}
    /\ AllocationsHaveLines'

LEMMA CleanKeepsIInv ==
    ASSUME IInv, NEW s \in Sessions, Clean(s), deployment' = deployment
    PROVE  IInv'
<1>1. SessionsSound'
  <2> SUFFICES ASSUME NEW t \in Sessions, session'[t] # Idle
               PROVE  Sound(session[t])'
    BY DEF SessionsSound
  <2>1. CASE t = s
    BY <2>1 DEF Clean
  <2>2. CASE t # s
    <3>1. PICK q : q = session[t]
      OBVIOUS
    <3>2. session'[t] = q
      BY <2>2, <3>1 DEF Clean, OnlySession
    <3>3. q \in Busy /\ Sound(q)
      BY <3>1, <3>2, IdleIsNotBusy DEF IInv, SessionsSound
    <3>4. Sound(q)'
      BY <2>2, <3>1, <3>3, OthersStaySound DEF Clean, IInv
    <3> QED BY <3>2, <3>4
  <2> QED BY <2>1, <2>2
<1>2. Exclusive'
  BY DEF Clean, OnlySession, IInv, Exclusive
<1> QED BY <1>1, <1>2 DEF Clean, IInv

LEMMA QuietIsClean ==
    ASSUME IInv, NEW s \in Sessions, NEW q \in Busy \cup {Idle},
           session' = [session EXCEPT ![s] = q], UNCHANGED <<deployment, money>>,
           q # Idle => Sound(q),
           \A t \in Sessions \ {s} : q.holds \cap session[t].holds = {}
    PROVE  Clean(s)
<1>1. /\ session'[s] = q /\ OnlySession(s)
      /\ session' \in [Sessions -> Busy \cup {Idle}]
  BY DEF IInv, TypeOK, OnlySession
<1>2. TypeOK'
  BY <1>1 DEF IInv, TypeOK, money
<1>3. q # Idle => Sound(q)'
  BY DEF Sound, Seen, Live, Allocated, money
<1>4. AllocationsHaveLines'
  BY DEF IInv, AllocationsHaveLines, Allocated, Live, money
<1> QED BY <1>1, <1>2, <1>3, <1>4 DEF Clean, LineWritten, AllocWritten, money

LEMMA LoadIsClean ==
    ASSUME IInv, NEW s \in Sessions, NEW c \in Call, Load(s, c), deployment' = deployment
    PROVE  Clean(s)
<1> DEFINE line == IF RowOf(c) = NoLine THEN NoLine ELSE lines[RowOf(c)]
           q == [pc |-> "loaded", call |-> c, holds |-> FirstLock(c), row |-> RowOf(c),
                 view |-> [grant |-> grant, line |-> line]]
<1>1. /\ c.op \in LineOps => RowOf(c) = c.line /\ c.line \in Lines /\ c.line \in Live
      /\ c.op \in {"resize", "release"} => c.expense \in Expenses /\ c.expense \in Allocated
      /\ c.op = "resize" => RowOf(c) = alloc[c.expense].line
      /\ c.op \notin LineOps \cup {"resize"} => RowOf(c) = NoLine
      /\ c.op \in deployment.ops
  BY CallShape DEF Load, Found, RowOf, Asked, LineOps
<1>2. /\ RowOf(c) \in Lines \cup {NoLine}
      /\ line \in Line \cup {NoLine}
  BY <1>1, LiveIsLine DEF IInv, TypeOK, Alloc, Allocated, AllocationsHaveLines, Live
<1>3. FirstLock(c) \subseteq Lock
  BY CallShape, <1>1 DEF FirstLock, Lock, LineOps
<1>4. q \in Busy
  BY <1>2, <1>3 DEF Busy, IInv, TypeOK
<1>5. Sound(q)
  <2>1. q.holds = LocksOf(q)
    BY DEF FirstLock, LocksOf
  <2>2. c.op \in LineOps => Seen(q)
    BY <1>1, LiveIsLine, NullsApart DEF Seen, IInv, Line, Live
  <2>3. q.row \in Lines \cap q.holds => q.row \in Live /\ lines[q.row] = q.view.line
    BY <1>1, NullsApart, LocksApart DEF FirstLock, LineOps
  <2> QED BY <1>1, <2>1, <2>2, <2>3 DEF Sound
<1>6. session' = [session EXCEPT ![s] = q] /\ UNCHANGED money
  BY DEF Load
<1>7. \A t \in Sessions \ {s} : q.holds \cap session[t].holds = {}
  BY DEF Load, Free
<1> HIDE DEF q
<1> QED BY <1>4, <1>5, <1>6, <1>7, QuietIsClean

LEMMA LockLineIsClean ==
    ASSUME IInv, NEW s \in Sessions, LockLine(s), deployment' = deployment
    PROVE  Clean(s)
<1>1. PICK p \in Busy : p = session[s]
  BY IdleIsNotBusy DEF IInv, LockLine, At
<1>2. /\ p.pc = "loaded" /\ p.call.op = "allocate"
      /\ p.holds = {"grant"} /\ p.call.op \in deployment.ops
  BY <1>1, IdleIsNotBusy DEF LockLine, At, IInv, SessionsSound, Sound, LocksOf
<1>3. PICK l \in Needs(s) :
         session' = [session EXCEPT ![s] = AtLine(p, l, p.holds \cup {l})]
  BY <1>1 DEF LockLine
<1>4. l \in Live /\ l \in Lines /\ lines[l] \in Line
  BY <1>1, <1>2, <1>3, LiveIsLine DEF Needs, Live, IInv
<1> DEFINE q == AtLine(p, l, {"grant", l})
<1>5. q \in Busy
  BY <1>1, <1>4 DEF AtLine, Busy, Lock
<1>6. Sound(q)
  BY <1>2, <1>4 DEF AtLine, Sound, LocksOf, LineOps
<1>7. session' = [session EXCEPT ![s] = q]
  BY <1>2, <1>3
<1>8. \A t \in Sessions \ {s} : q.holds \cap session[t].holds = {}
  BY <1>1, <1>2, <1>3 DEF LockLine, At, Free, IInv, Exclusive, AtLine
<1> HIDE DEF q
<1> QED BY <1>5, <1>6, <1>7, <1>8, QuietIsClean DEF LockLine

LEMMA PassIsClean ==
    ASSUME IInv, NEW s \in Sessions, Pass(s), deployment' = deployment
    PROVE  Clean(s)
<1>1. PICK p \in Busy : p = session[s]
  BY IdleIsNotBusy DEF IInv, Pass
<1>2. Sound(p) /\ p.pc = IF p.call.op = "allocate" THEN "locked" ELSE "loaded"
  BY <1>1 DEF IInv, SessionsSound, Pass, Checking
<1> DEFINE q == [p EXCEPT !.pc = "ready"]
<1>3. q \in Busy /\ session' = [session EXCEPT ![s] = q]
  BY <1>1 DEF Busy, Pass, IInv, TypeOK
<1>4. /\ q.call = p.call /\ q.holds = p.holds /\ q.row = p.row /\ q.view = p.view
      /\ q.pc = "ready"
  BY DEF Busy
<1> HIDE DEF q
<1>5. LocksOf(q) = LocksOf(p)
  BY <1>2, <1>4 DEF LocksOf
<1>6. Sound(q)
  BY <1>2, <1>4, <1>5 DEF Sound, Seen
<1>7. \A t \in Sessions \ {s} : q.holds \cap session[t].holds = {}
  BY <1>1, <1>4 DEF IInv, Exclusive
<1> QED BY <1>3, <1>6, <1>7, QuietIsClean DEF Pass

LEMMA FlushLineIsClean ==
    ASSUME IInv, NEW s \in Sessions, FlushLine(s), deployment' = deployment
    PROVE  Clean(s)
<1>1. PICK p \in Busy : p = session[s]
  BY IdleIsNotBusy DEF IInv, FlushLine, At
<1>2. /\ Sound(p) /\ p.pc = "ready" /\ p.call.op \in {"pledge", "confirm"}
      /\ p.holds = {} /\ Seen(p) /\ p.call.line \in Lines
  BY <1>1, IdleIsNotBusy, CallShape
     DEF IInv, SessionsSound, FlushLine, At, Sound, LocksOf, LineOps, Busy
<1> DEFINE q == [p EXCEPT !.pc = "flushed", !.holds = {p.row}]
<1>3. q \in Busy /\ session' = [session EXCEPT ![s] = q]
  BY <1>1, <1>2 DEF Busy, FlushLine, IInv, TypeOK, Lock, Seen
<1>4. /\ q.call = p.call /\ q.holds = {p.row} /\ q.row = p.row /\ q.view = p.view
      /\ q.pc = "flushed"
  BY DEF Busy
<1> HIDE DEF q
<1>5. p.row \in Live /\ lines[p.row] = p.view.line
  BY <1>1, <1>2 DEF FlushLine, Fresh, Seen
<1>6. Sound(q)
  BY <1>2, <1>4, <1>5 DEF Sound, Seen, LocksOf
<1>7. \A t \in Sessions \ {s} : q.holds \cap session[t].holds = {}
  BY <1>1, <1>2, <1>4 DEF FlushLine, At, Free, Needs
<1> QED BY <1>3, <1>6, <1>7, QuietIsClean DEF FlushLine

LEMMA FinishIsClean ==
    ASSUME IInv, NEW s \in Sessions, Finish(s), UNCHANGED <<deployment, money>>
    PROVE  Clean(s)
<1>1. \A t \in Sessions \ {s} : Idle.holds \cap session[t].holds = {}
  BY IdleIsNotBusy
<1> QED BY <1>1, QuietIsClean DEF Finish

LEMMA AtWork ==
    ASSUME IInv, NEW s \in Sessions, NEW pc \in {"loaded", "locked", "ready", "flushed"},
           NEW ops, At(s, pc, ops)
    PROVE  /\ session[s] \in Busy /\ session[s] # Idle /\ Sound(session[s])
           /\ session[s].call \in Call
           /\ session[s].pc = pc /\ session[s].call.op \in ops
           /\ \A t \in Sessions \ {s} : Needs(s) \cap session[t].holds = {}
BY IdleIsNotBusy DEF At, IInv, SessionsSound, Busy, Free

LEMMA FinishingIsClean ==
    ASSUME IInv, NEW s \in Sessions, Finish(s), deployment' = deployment,
           grant' \in Grant, disbursed' \in Nat,
           lines' \in [Lines -> Line \cup {NoLine, Gone}],
           alloc' \in [Expenses -> Alloc \cup {NoAlloc}],
           ledger' \in [Lines -> [commit : Nat, reconcile : Nat]],
           \A l \in Lines : LineWritten(s, l),
           \A e \in Expenses : AllocWritten(s, e),
           AllocationsHaveLines'
    PROVE  Clean(s)
<1>1. session'[s] = Idle /\ OnlySession(s) /\ session' \in [Sessions -> Busy \cup {Idle}]
  BY DEF Finish, OnlySession, IInv, TypeOK
<1>2. TypeOK'
  BY <1>1 DEF IInv, TypeOK
<1> QED BY <1>1, <1>2, IdleIsNotBusy DEF Clean

(* What a step that leaves a table alone says of it.                       *)
LEMMA LinesKept ==
    lines' = lines => \A s \in Sessions, l \in Lines : LineWritten(s, l)
BY DEF LineWritten

LEMMA AllocKept ==
    alloc' = alloc => \A s \in Sessions, e \in Expenses : AllocWritten(s, e)
BY DEF AllocWritten

LEMMA TablesKept ==
    IInv => /\ (UNCHANGED <<lines, alloc>> => AllocationsHaveLines')
            /\ grant \in Grant /\ disbursed \in Nat
            /\ lines \in [Lines -> Line \cup {NoLine, Gone}]
            /\ alloc \in [Expenses -> Alloc \cup {NoAlloc}]
            /\ ledger \in [Lines -> [commit : Nat, reconcile : Nat]]
BY DEF IInv, TypeOK, AllocationsHaveLines, Allocated, Live

LEMMA CommitDisburseIsClean ==
    ASSUME IInv, NEW s \in Sessions, CommitDisburse(s), deployment' = deployment
    PROVE  Clean(s)
<1>1. session[s].call.amount \in Nat
  <2>1. session[s].call \in Call /\ session[s].call.op = "disburse"
    BY AtWork DEF CommitDisburse
  <2> QED BY <2>1, CallShape, ConstantsOK
<1> QED BY <1>1, LinesKept, AllocKept, TablesKept, FinishingIsClean DEF CommitDisburse

LEMMA CommitAdvanceIsClean ==
    ASSUME IInv, NEW s \in Sessions, CommitAdvance(s), deployment' = deployment
    PROVE  Clean(s)
<1>1. /\ session[s].call.status \in Statuses
      /\ session[s].call.award \in Nat \cup {NoAward}
  <2>1. session[s].call \in Call /\ session[s].call.op = "advance"
    BY AtWork DEF CommitAdvance
  <2> QED BY <2>1, CallShape, ConstantsOK
<1>2. grant' \in Grant
  BY <1>1, TablesKept DEF CommitAdvance, Grant
<1> QED BY <1>2, LinesKept, AllocKept, TablesKept, FinishingIsClean DEF CommitAdvance

LEMMA CommitEditIsClean ==
    ASSUME IInv, NEW s \in Sessions, CommitEdit(s), deployment' = deployment
    PROVE  Clean(s)
<1>1. /\ session[s].call.status \in Statuses
      /\ session[s].call.award \in Nat \cup {NoAward}
      /\ session[s].view.grant \in Grant
  <2>1. session[s] \in Busy /\ session[s].call \in Call /\ session[s].call.op = "edit"
    BY AtWork DEF CommitEdit
  <2> QED BY <2>1, CallShape, ConstantsOK DEF Busy
<1>2. grant' \in Grant
  BY <1>1, TablesKept DEF CommitEdit, Edited, Grant
<1> QED BY <1>2, LinesKept, AllocKept, TablesKept, FinishingIsClean DEF CommitEdit

LEMMA CommitCreateIsClean ==
    ASSUME IInv, NEW s \in Sessions, CommitCreate(s), deployment' = deployment
    PROVE  Clean(s)
<1> DEFINE c == session[s].call
           new == [category |-> c.category, allocated |-> c.amount,
                   committed |-> 0, reconciled |-> 0, version |-> 0]
<1>1. c.category \in Categories /\ c.amount \in Nat
  <2>1. c \in Call /\ c.op \in {"create", "admin_create"}
    BY AtWork DEF CommitCreate
  <2> QED BY <2>1, CallShape, ConstantsOK
<1>2. new \in Line
  BY <1>1 DEF Line
<1>3. PICK k \in Lines : lines[k] = NoLine /\ lines' = [lines EXCEPT ![k] = new]
  BY DEF CommitCreate
<1> HIDE DEF new
<1>4. lines' \in [Lines -> Line \cup {NoLine, Gone}]
  BY <1>2, <1>3, TablesKept
<1>5. \A l \in Lines : LineWritten(s, l)
  BY <1>3, TablesKept DEF LineWritten
<1>6. AllocationsHaveLines'
  BY <1>2, <1>3, TablesKept, NullsApart
     DEF IInv, AllocationsHaveLines, Allocated, Live, CommitCreate
<1> QED BY <1>4, <1>5, <1>6, AllocKept, TablesKept, FinishingIsClean DEF CommitCreate

(* The row a version-tested UPDATE or a flushed line writes.               *)
LEMMA LineRewritten ==
    ASSUME IInv, NEW s \in Sessions, NEW k \in Live, NEW new \in Line,
           lines' = [lines EXCEPT ![k] = new], alloc' = alloc,
           new.version = lines[k].version + 1,
           \A t \in Sessions \ {s} : k \notin session[t].holds
    PROVE  /\ lines' \in [Lines -> Line \cup {NoLine, Gone}]
           /\ \A l \in Lines : LineWritten(s, l)
           /\ AllocationsHaveLines'
<1>1. k \in Lines /\ lines[k] \in Line /\ new # NoLine /\ new # Gone
  BY LiveIsLine, NullsApart DEF IInv, Live
<1>2. lines' \in [Lines -> Line \cup {NoLine, Gone}]
  BY <1>1, TablesKept
<1>3. \A l \in Lines : LineWritten(s, l)
  BY <1>1, TablesKept DEF LineWritten, Line
<1>4. AllocationsHaveLines'
  BY <1>1, TablesKept DEF IInv, AllocationsHaveLines, Allocated, Live
<1> QED BY <1>2, <1>3, <1>4

(* An UPDATE of one column and the version of a line.                      *)
Rewritten(k, column, n) ==
    [category |-> lines[k].category,
     allocated |-> IF column = "allocated" THEN n ELSE lines[k].allocated,
     committed |-> IF column = "committed" THEN n ELSE lines[k].committed,
     reconciled |-> IF column = "reconciled" THEN n ELSE lines[k].reconciled,
     version |-> lines[k].version + 1]

LEMMA OneColumn ==
    ASSUME IInv, NEW k \in Lines, lines[k] \in Line, NEW n \in Nat
    PROVE  /\ \A column : Rewritten(k, column, n) \in Line
           /\ [lines EXCEPT ![k].allocated = n, ![k].version = @ + 1]
                 = [lines EXCEPT ![k] = Rewritten(k, "allocated", n)]
           /\ [lines EXCEPT ![k].committed = n, ![k].version = @ + 1]
                 = [lines EXCEPT ![k] = Rewritten(k, "committed", n)]
           /\ [lines EXCEPT ![k].reconciled = n, ![k].version = @ + 1]
                 = [lines EXCEPT ![k] = Rewritten(k, "reconciled", n)]
<1>1. lines \in [Lines -> Line \cup {NoLine, Gone}]
  BY TablesKept
<1>2. \A column : Rewritten(k, column, n) \in Line
  BY DEF Rewritten, Line
<1>3. [lines EXCEPT ![k].allocated = n, ![k].version = @ + 1]
         = [lines EXCEPT ![k] = Rewritten(k, "allocated", n)]
  <2> DEFINE mid == [lines EXCEPT ![k].allocated = n]
             v == lines[k].version + 1
  <2>1. mid = [lines EXCEPT ![k] = mid[k]] /\ mid[k] = [lines[k] EXCEPT !.allocated = n]
    BY <1>1
  <2>2. [mid[k] EXCEPT !.version = v] = Rewritten(k, "allocated", n)
    BY <2>1 DEF Rewritten, Line
  <2>3. [lines EXCEPT ![k].allocated = n, ![k].version = v] = [mid EXCEPT ![k].version = v]
    OBVIOUS
  <2> HIDE DEF mid
  <2>4. [mid EXCEPT ![k].version = v] = [lines EXCEPT ![k] = [mid[k] EXCEPT !.version = v]]
    BY <1>1, <2>1
  <2> QED BY <2>2, <2>3, <2>4
<1>4. [lines EXCEPT ![k].committed = n, ![k].version = @ + 1]
         = [lines EXCEPT ![k] = Rewritten(k, "committed", n)]
  <2> DEFINE mid == [lines EXCEPT ![k].committed = n]
             v == lines[k].version + 1
  <2>1. mid = [lines EXCEPT ![k] = mid[k]] /\ mid[k] = [lines[k] EXCEPT !.committed = n]
    BY <1>1
  <2>2. [mid[k] EXCEPT !.version = v] = Rewritten(k, "committed", n)
    BY <2>1 DEF Rewritten, Line
  <2>3. [lines EXCEPT ![k].committed = n, ![k].version = v] = [mid EXCEPT ![k].version = v]
    OBVIOUS
  <2> HIDE DEF mid
  <2>4. [mid EXCEPT ![k].version = v] = [lines EXCEPT ![k] = [mid[k] EXCEPT !.version = v]]
    BY <1>1, <2>1
  <2> QED BY <2>2, <2>3, <2>4
<1>5. [lines EXCEPT ![k].reconciled = n, ![k].version = @ + 1]
         = [lines EXCEPT ![k] = Rewritten(k, "reconciled", n)]
  <2> DEFINE mid == [lines EXCEPT ![k].reconciled = n]
             v == lines[k].version + 1
  <2>1. mid = [lines EXCEPT ![k] = mid[k]] /\ mid[k] = [lines[k] EXCEPT !.reconciled = n]
    BY <1>1
  <2>2. [mid[k] EXCEPT !.version = v] = Rewritten(k, "reconciled", n)
    BY <2>1 DEF Rewritten, Line
  <2>3. [lines EXCEPT ![k].reconciled = n, ![k].version = v] = [mid EXCEPT ![k].version = v]
    OBVIOUS
  <2> HIDE DEF mid
  <2>4. [mid EXCEPT ![k].version = v] = [lines EXCEPT ![k] = [mid[k] EXCEPT !.version = v]]
    BY <1>1, <2>1
  <2> QED BY <2>2, <2>3, <2>4
<1> QED BY <1>2, <1>3, <1>4, <1>5

LEMMA UpdatedLine ==
    ASSUME IInv, NEW s \in Sessions, CommitUpdate(s)
    PROVE  /\ session[s] # Idle /\ session[s].pc = "ready"
           /\ session[s].call.op \in {"update", "admin_update"} \cap deployment.ops
           /\ session[s].row = session[s].call.line /\ session[s].call.line \in Lines
           /\ session[s].call.amount \in Nat
           /\ \/ UNCHANGED lines
              \/ /\ session[s].row \in Live
                 /\ lines' = [lines EXCEPT ![session[s].row] =
                        Rewritten(session[s].row, "allocated", session[s].call.amount)]
<1> DEFINE q == session[s]  c == q.call  l == c.line
<1>1. /\ q # Idle /\ q.pc = "ready" /\ Sound(q) /\ c \in Call
      /\ c.op \in {"update", "admin_update"}
  BY AtWork DEF CommitUpdate
<1>2. q.row = l /\ l \in Lines /\ c.amount \in Nat
  BY <1>1, CallShape, ConstantsOK DEF Sound, Seen, LineOps
<1>3. ASSUME ~ UNCHANGED lines
      PROVE  q.row \in Live /\ lines' = [lines EXCEPT ![l] = Rewritten(l, "allocated", c.amount)]
  <2>1. /\ q.row \in Live
        /\ lines' = [lines EXCEPT ![l].allocated = c.amount, ![l].version = @ + 1]
    BY <1>3 DEF CommitUpdate, Fresh
  <2>2. lines[l] \in Line
    BY <1>2, <2>1, LiveIsLine DEF IInv
  <2> HIDE DEF q, c, l
  <2> QED BY <1>2, <2>1, <2>2, OneColumn
<1> QED BY <1>1, <1>2, <1>3 DEF Sound

LEMMA CommitUpdateIsClean ==
    ASSUME IInv, NEW s \in Sessions, CommitUpdate(s), deployment' = deployment
    PROVE  Clean(s)
<1>1. CASE UNCHANGED lines
  BY <1>1, LinesKept, AllocKept, TablesKept, FinishingIsClean DEF CommitUpdate
<1>2. CASE ~ UNCHANGED lines
  <2>1. PICK k, n : k = session[s].row /\ n = session[s].call.amount
    OBVIOUS
  <2> DEFINE new == Rewritten(k, "allocated", n)
  <2>2. /\ k \in Live /\ k \in Lines /\ n \in Nat
        /\ lines' = [lines EXCEPT ![k] = new]
    BY <1>2, <2>1, UpdatedLine
  <2>3. new \in Line /\ new.version = lines[k].version + 1
    BY <2>2, LiveIsLine, OneColumn DEF IInv, Rewritten
  <2>4. \A t \in Sessions \ {s} : k \notin session[t].holds
    <3>1. /\ session[s].pc = "ready" /\ session[s].call.op \in {"update", "admin_update"}
          /\ \A t \in Sessions \ {s} : Needs(s) \cap session[t].holds = {}
      BY AtWork DEF CommitUpdate
    <3> QED BY <2>1, <3>1 DEF Needs
  <2>5. alloc' = alloc /\ grant' = grant /\ disbursed' = disbursed /\ ledger' = ledger
        /\ Finish(s)
    BY DEF CommitUpdate
  <2> HIDE DEF new
  <2> QED BY <2>2, <2>3, <2>4, <2>5, LineRewritten, AllocKept, TablesKept, FinishingIsClean
<1> QED BY <1>1, <1>2

LEMMA CommitDeleteIsClean ==
    ASSUME IInv, NEW s \in Sessions, CommitDelete(s), deployment' = deployment
    PROVE  Clean(s)
<1> DEFINE q == session[s]  k == q.row
<1>1. /\ q \in Busy /\ Sound(q) /\ q.call.op \in {"delete", "admin_delete"}
      /\ q.pc = "ready" /\ \A t \in Sessions \ {s} : Needs(s) \cap session[t].holds = {}
  BY AtWork DEF CommitDelete
<1>2. Needs(s) = {k} \cup On(k)
  BY <1>1 DEF Needs
<1>3. k \in Live /\ k \in Lines
  BY DEF CommitDelete, Fresh, Live
<1>4. lines' = [lines EXCEPT ![k] = Gone] /\ lines' \in [Lines -> Line \cup {NoLine, Gone}]
  BY <1>3, TablesKept DEF CommitDelete
<1>5. alloc' = [e \in Expenses |-> IF e \in On(k) THEN NoAlloc ELSE alloc[e]]
  BY DEF CommitDelete
<1> HIDE DEF q, k
<1>6. alloc' \in [Expenses -> Alloc \cup {NoAlloc}]
  BY <1>5, TablesKept
<1>7. \A l \in Lines : LineWritten(s, l)
  BY <1>1, <1>2, <1>3, <1>4, TablesKept, NullsApart DEF LineWritten
<1>8. \A e \in Expenses : AllocWritten(s, e)
  BY <1>1, <1>2, <1>5 DEF AllocWritten
<1>9. AllocationsHaveLines'
  <2> SUFFICES ASSUME NEW e \in Expenses, alloc'[e] # NoAlloc
               PROVE  (alloc[e].line \in Live)'
    BY DEF AllocationsHaveLines, Allocated
  <2>1. e \notin On(k) /\ alloc'[e] = alloc[e]
    BY <1>5
  <2>2. e \in Allocated /\ alloc[e].line # k /\ alloc[e].line \in Live
    BY <2>1 DEF On, Allocated, IInv, AllocationsHaveLines
  <2> QED BY <1>4, <2>1, <2>2, TablesKept DEF Live
<1>10. ledger' \in [Lines -> [commit : Nat, reconcile : Nat]]
  BY TablesKept DEF CommitDelete
<1> QED BY <1>4, <1>6, <1>7, <1>8, <1>9, <1>10, TablesKept, FinishingIsClean DEF CommitDelete

LEMMA CommitAllocateIsClean ==
    ASSUME IInv, NEW s \in Sessions, CommitAllocate(s), deployment' = deployment
    PROVE  Clean(s)
<1> DEFINE c == session[s].call
           new == [line |-> session[s].row, amount |-> Cost[c.expense]]
<1>1. c.expense \in Expenses
  <2>1. c \in Call /\ c.op = "allocate"
    BY AtWork DEF CommitAllocate
  <2> QED BY <2>1, CallShape
<1>2. new \in Alloc /\ new.line \in Live
  BY <1>1, ConstantsOK DEF Alloc, CommitAllocate, Live
<1>3. alloc[c.expense] = NoAlloc /\ alloc' = [alloc EXCEPT ![c.expense] = new]
  BY DEF CommitAllocate
<1> HIDE DEF new, c
<1>4. alloc' \in [Expenses -> Alloc \cup {NoAlloc}]
  BY <1>1, <1>2, <1>3, TablesKept
<1>5. \A e \in Expenses : AllocWritten(s, e)
  BY <1>1, <1>3, TablesKept DEF AllocWritten
<1>6. AllocationsHaveLines'
  BY <1>1, <1>2, <1>3, TablesKept DEF IInv, AllocationsHaveLines, Allocated, Live, CommitAllocate
<1> QED BY <1>4, <1>5, <1>6, LinesKept, TablesKept, FinishingIsClean DEF CommitAllocate

(* The rows an allocation's owner writes while it holds the expense.       *)
LEMMA AllocRewritten ==
    ASSUME IInv, NEW s \in Sessions, session[s] # Idle,
           session[s].call.op \in {"resize", "release"}, NEW new \in Alloc \cup {NoAlloc},
           alloc' = [alloc EXCEPT ![session[s].call.expense] = new],
           new # NoAlloc => new.line = alloc[session[s].call.expense].line,
           UNCHANGED <<lines, grant, disbursed, ledger, deployment>>, Finish(s)
    PROVE  Clean(s)
<1> DEFINE x == session[s].call.expense
<1>1. x \in Expenses /\ x \in Allocated /\ x \in session[s].holds
  <2>1. /\ session[s].call \in Call /\ Sound(session[s])
    BY IdleIsNotBusy DEF IInv, SessionsSound, Busy
  <2> QED BY <2>1, CallShape DEF Sound, LocksOf
<1> HIDE DEF x
<1>2. alloc' = [alloc EXCEPT ![x] = new] /\ (new # NoAlloc => new.line = alloc[x].line)
  BY DEF x
<1>3. alloc' \in [Expenses -> Alloc \cup {NoAlloc}]
  BY <1>1, <1>2, TablesKept
<1>4. \A t \in Sessions \ {s} : x \notin session[t].holds
  BY <1>1 DEF IInv, Exclusive
<1>5. \A e \in Expenses : AllocWritten(s, e)
  BY <1>1, <1>2, <1>4, TablesKept DEF AllocWritten
<1>6. AllocationsHaveLines'
  BY <1>1, <1>2, TablesKept DEF IInv, AllocationsHaveLines, Allocated, Live
<1> QED BY <1>3, <1>5, <1>6, LinesKept, TablesKept, FinishingIsClean

LEMMA CommitResizeIsClean ==
    ASSUME IInv, NEW s \in Sessions, CommitResize(s), deployment' = deployment
    PROVE  Clean(s)
<1> DEFINE c == session[s].call
           new == [line |-> alloc[c.expense].line, amount |-> c.amount]
<1>1. session[s] # Idle /\ c \in Call /\ c.op = "resize" /\ Sound(session[s])
  BY AtWork DEF CommitResize
<1>2. c.expense \in Expenses /\ c.amount \in Nat /\ alloc[c.expense] \in Alloc
  BY <1>1, CallShape, ConstantsOK, TablesKept DEF Sound, Allocated
<1>3. new \in Alloc /\ new.line = alloc[c.expense].line
  BY <1>2 DEF Alloc
<1>4. alloc' = [alloc EXCEPT ![c.expense] = new]
  <2>1. [alloc[c.expense] EXCEPT !.amount = c.amount] = new
    BY <1>2 DEF Alloc
  <2>2. alloc' = [alloc EXCEPT ![c.expense] = [alloc[c.expense] EXCEPT !.amount = c.amount]]
    BY <1>2, TablesKept DEF CommitResize
  <2> QED BY <2>1, <2>2
<1> HIDE DEF new
<1> QED BY <1>1, <1>3, <1>4, AllocRewritten DEF CommitResize

LEMMA CommitReleaseIsClean ==
    ASSUME IInv, NEW s \in Sessions, CommitRelease(s), deployment' = deployment
    PROVE  Clean(s)
<1>1. session[s] # Idle /\ session[s].call.op = "release"
  BY AtWork DEF CommitRelease
<1> QED BY <1>1, AllocRewritten DEF CommitRelease

(* A flushed session still has the line as it saw it.                      *)
LEMMA FlushedLine ==
    ASSUME IInv, NEW s \in Sessions, NEW op \in {"pledge", "confirm"},
           At(s, "flushed", {op})
    PROVE  /\ session[s].row \in Live /\ session[s].row \in Lines
           /\ session[s].view.line \in Line
           /\ lines[session[s].row] = session[s].view.line
           /\ session[s].call.amount \in Nat
           /\ \A t \in Sessions \ {s} : session[s].row \notin session[t].holds
<1> DEFINE q == session[s]
<1>1. q \in Busy /\ q # Idle /\ Sound(q) /\ q.call \in Call /\ q.pc = "flushed" /\ q.call.op = op
  BY AtWork
<1>2. q.row \in Lines /\ q.call.amount \in Nat /\ q.view.line \in Line /\ q.row \in q.holds
  BY <1>1, CallShape, ConstantsOK DEF Sound, Seen, LineOps, LocksOf
<1>3. \A t \in Sessions \ {s} : q.row \notin session[t].holds
  BY <1>2 DEF IInv, Exclusive
<1> QED BY <1>1, <1>2, <1>3 DEF Sound

LEMMA PledgedLine ==
    ASSUME IInv, NEW s \in Sessions, CommitPledge(s),
           NEW k, k = session[s].row, NEW n, n = session[s].call.amount
    PROVE  /\ k \in Lines /\ k \in Live /\ n \in Nat
           /\ \A t \in Sessions \ {s} : k \notin session[t].holds
           /\ lines[k] \in Line /\ lines[k].committed + n \in Nat
           /\ Rewritten(k, "committed", lines[k].committed + n) \in Line
           /\ lines' = [lines EXCEPT ![k] = Rewritten(k, "committed", lines[k].committed + n)]
           /\ ledger' \in [Lines -> [commit : Nat, reconcile : Nat]]
           /\ \A l \in Lines \ {k} : ledger'[l] = ledger[l]
           /\ ledger'[k].commit = ledger[k].commit + n /\ ledger'[k].reconcile = ledger[k].reconcile
<1>1. /\ k \in Live /\ k \in Lines /\ lines[k] = session[s].view.line /\ lines[k] \in Line
      /\ n \in Nat /\ \A t \in Sessions \ {s} : k \notin session[t].holds
  BY FlushedLine DEF CommitPledge
<1>2. PICK m \in Nat : m = lines[k].committed + n
  BY <1>1 DEF Line
<1>3. lines' = [lines EXCEPT ![k].committed = m, ![k].version = @ + 1]
  BY <1>1, <1>2 DEF CommitPledge
<1>4. /\ ledger' \in [Lines -> [commit : Nat, reconcile : Nat]]
      /\ \A l \in Lines \ {k} : ledger'[l] = ledger[l]
      /\ ledger'[k].commit = ledger[k].commit + n /\ ledger'[k].reconcile = ledger[k].reconcile
  BY <1>1, TablesKept DEF CommitPledge
<1>5. /\ Rewritten(k, "committed", m) \in Line
      /\ lines' = [lines EXCEPT ![k] = Rewritten(k, "committed", m)]
  BY <1>1, <1>3, OneColumn
<1> QED BY <1>1, <1>2, <1>4, <1>5

LEMMA ConfirmedLine ==
    ASSUME IInv, NEW s \in Sessions, CommitConfirm(s),
           NEW k, k = session[s].row, NEW n, n = session[s].call.amount
    PROVE  /\ k \in Lines /\ k \in Live /\ n \in Nat
           /\ \A t \in Sessions \ {s} : k \notin session[t].holds
           /\ lines[k] \in Line /\ lines[k].reconciled + n \in Nat
           /\ Rewritten(k, "reconciled", lines[k].reconciled + n) \in Line
           /\ lines' = [lines EXCEPT ![k] = Rewritten(k, "reconciled", lines[k].reconciled + n)]
           /\ ledger' \in [Lines -> [commit : Nat, reconcile : Nat]]
           /\ \A l \in Lines \ {k} : ledger'[l] = ledger[l]
           /\ ledger'[k].reconcile = ledger[k].reconcile + n /\ ledger'[k].commit = ledger[k].commit
<1>1. /\ k \in Live /\ k \in Lines /\ lines[k] = session[s].view.line /\ lines[k] \in Line
      /\ n \in Nat /\ \A t \in Sessions \ {s} : k \notin session[t].holds
  BY FlushedLine DEF CommitConfirm
<1>2. PICK m \in Nat : m = lines[k].reconciled + n
  BY <1>1 DEF Line
<1>3. lines' = [lines EXCEPT ![k].reconciled = m, ![k].version = @ + 1]
  BY <1>1, <1>2 DEF CommitConfirm
<1>4. /\ ledger' \in [Lines -> [commit : Nat, reconcile : Nat]]
      /\ \A l \in Lines \ {k} : ledger'[l] = ledger[l]
      /\ ledger'[k].reconcile = ledger[k].reconcile + n /\ ledger'[k].commit = ledger[k].commit
  BY <1>1, TablesKept DEF CommitConfirm
<1>5. /\ Rewritten(k, "reconciled", m) \in Line
      /\ lines' = [lines EXCEPT ![k] = Rewritten(k, "reconciled", m)]
  BY <1>1, <1>3, OneColumn
<1> QED BY <1>1, <1>2, <1>4, <1>5

LEMMA CommitPledgeIsClean ==
    ASSUME IInv, NEW s \in Sessions, CommitPledge(s), deployment' = deployment
    PROVE  Clean(s)
<1>1. PICK k, n : k = session[s].row /\ n = session[s].call.amount
  OBVIOUS
<1> DEFINE new == Rewritten(k, "committed", lines[k].committed + n)
<1>2. /\ k \in Live /\ n \in Nat /\ new \in Line /\ new.version = lines[k].version + 1
      /\ lines' = [lines EXCEPT ![k] = new]
      /\ ledger' \in [Lines -> [commit : Nat, reconcile : Nat]]
      /\ \A t \in Sessions \ {s} : k \notin session[t].holds
  BY <1>1, PledgedLine DEF Rewritten
<1>3. alloc' = alloc /\ grant' = grant /\ disbursed' = disbursed /\ Finish(s)
  BY DEF CommitPledge
<1> HIDE DEF new
<1> QED BY <1>2, <1>3, LineRewritten, AllocKept, TablesKept, FinishingIsClean

LEMMA CommitConfirmIsClean ==
    ASSUME IInv, NEW s \in Sessions, CommitConfirm(s), deployment' = deployment
    PROVE  Clean(s)
<1>1. PICK k, n : k = session[s].row /\ n = session[s].call.amount
  OBVIOUS
<1> DEFINE new == Rewritten(k, "reconciled", lines[k].reconciled + n)
<1>2. /\ k \in Live /\ n \in Nat /\ new \in Line /\ new.version = lines[k].version + 1
      /\ lines' = [lines EXCEPT ![k] = new]
      /\ ledger' \in [Lines -> [commit : Nat, reconcile : Nat]]
      /\ \A t \in Sessions \ {s} : k \notin session[t].holds
  BY <1>1, ConfirmedLine DEF Rewritten
<1>3. alloc' = alloc /\ grant' = grant /\ disbursed' = disbursed /\ Finish(s)
  BY DEF CommitConfirm
<1> HIDE DEF new
<1> QED BY <1>2, <1>3, LineRewritten, AllocKept, TablesKept, FinishingIsClean

(* What a session may do next.                                             *)
Moves(s) == (\E c \in Call : Load(s, c)) \/ Step(s) \/ Crash(s)

LEMMA NextMoves ==
    Next => deployment' = deployment /\ \E s \in Sessions : Moves(s)
BY DEF Next, Moves

(* Who writes which table.                                                 *)
LEMMA Writers ==
    ASSUME NEW s \in Sessions, Moves(s)
    PROVE  /\ UNCHANGED grant \/ CommitAdvance(s) \/ CommitEdit(s)
           /\ UNCHANGED disbursed \/ CommitDisburse(s)
           /\ \/ UNCHANGED <<lines, ledger>> \/ CommitCreate(s) \/ CommitUpdate(s)
              \/ CommitDelete(s) \/ CommitPledge(s) \/ CommitConfirm(s)
           /\ \/ UNCHANGED alloc \/ CommitAllocate(s) \/ CommitDelete(s)
              \/ CommitResize(s) \/ CommitRelease(s)
<1>1. CASE UNCHANGED money
  BY <1>1 DEF money
<1>2. CASE \/ CommitDisburse(s) \/ CommitAdvance(s) \/ CommitEdit(s)
  BY <1>2 DEF CommitDisburse, CommitAdvance, CommitEdit
<1>3. CASE \/ CommitCreate(s) \/ CommitUpdate(s) \/ CommitDelete(s) \/ CommitPledge(s)
           \/ CommitConfirm(s)
  BY Zenon, <1>3 DEF CommitCreate, CommitUpdate, CommitDelete, CommitPledge, CommitConfirm
<1>4. CASE CommitAllocate(s) \/ CommitResize(s) \/ CommitRelease(s)
  BY <1>4 DEF CommitAllocate, CommitResize, CommitRelease
<1> QED BY <1>1, <1>2, <1>3, <1>4
        DEF Moves, Step, Load, LockLine, Pass, FlushLine, Refuse, Crash

LEMMA MovesAreClean ==
    ASSUME IInv, NEW s \in Sessions, Moves(s), deployment' = deployment
    PROVE  Clean(s)
<1>1. CASE \E c \in Call : Load(s, c)
  BY <1>1, LoadIsClean
<1>2. CASE LockLine(s) \/ Pass(s) \/ FlushLine(s)
  BY <1>2, LockLineIsClean, PassIsClean, FlushLineIsClean
<1>3. CASE CommitDisburse(s) \/ CommitCreate(s) \/ CommitUpdate(s) \/ CommitDelete(s)
  BY <1>3, CommitDisburseIsClean, CommitCreateIsClean, CommitUpdateIsClean,
     CommitDeleteIsClean
<1>4. CASE CommitAllocate(s) \/ CommitResize(s) \/ CommitRelease(s)
  BY <1>4, CommitAllocateIsClean, CommitResizeIsClean, CommitReleaseIsClean
<1>5. CASE CommitPledge(s) \/ CommitConfirm(s) \/ CommitAdvance(s) \/ CommitEdit(s)
  BY <1>5, CommitPledgeIsClean, CommitConfirmIsClean, CommitAdvanceIsClean,
     CommitEditIsClean
<1>6. CASE Refuse(s) \/ Crash(s)
  BY <1>6, FinishIsClean DEF Refuse, Crash
<1> QED BY <1>1, <1>2, <1>3, <1>4, <1>5, <1>6 DEF Moves, Step

LEMMA InitEstablishesIInv ==
    Init => IInv
<1> SUFFICES ASSUME Init PROVE IInv
  OBVIOUS
<1>1. grant \in Grant
  BY ConstantsOK DEF Init, Deployment
<1>2. TypeOK
  BY <1>1 DEF Init, TypeOK
<1>3. \A s \in Sessions : session[s] = Idle
  BY DEF Init
<1>4. Allocated = {}
  BY DEF Init, Allocated
<1> QED BY <1>2, <1>3, <1>4, IdleIsNotBusy
        DEF IInv, SessionsSound, Exclusive, AllocationsHaveLines

LEMMA StutterKeepsIInv ==
    IInv /\ UNCHANGED vars => IInv'
<1> SUFFICES ASSUME IInv, UNCHANGED vars PROVE IInv'
  OBVIOUS
<1> USE DEF vars
<1>1. TypeOK'
  BY DEF IInv, TypeOK
<1>2. SessionsSound'
  BY DEF IInv, SessionsSound, Sound, Seen, Live, Allocated
<1>3. Exclusive' /\ AllocationsHaveLines'
  BY DEF IInv, Exclusive, AllocationsHaveLines, Live, Allocated
<1> QED BY <1>1, <1>2, <1>3 DEF IInv

LEMMA StepKeepsIInv ==
    IInv /\ [Next]_vars => IInv'
BY StutterKeepsIInv, NextMoves, MovesAreClean, CleanKeepsIInv

(* The inductive invariant holds: what each session has read, what it may  *)
(* still write and which rows it has locked agree with the tables.         *)
THEOREM Inductive ==
    Spec => []IInv
BY InitEstablishesIInv, StepKeepsIInv, PTL DEF Spec

(* Rows, sums and sessions keep their types in every deployment.           *)
THEOREM TypeCorrect ==
    Spec => []TypeOK
<1>1. IInv => TypeOK
  BY DEF IInv
<1> QED BY <1>1, Inductive, PTL
------------------------------------------------------------------------------
(* Waiting.  A session that holds a lock and waits for another either      *)
(* starts an allocation and waits for a line, or is at a line handler's    *)
(* write and waits for the expenses on the line it holds.                  *)

LEMMA WhatIsWaitedFor ==
    ASSUME IInv, deployment.ops \cap {"pledge", "confirm"} = {},
           NEW s \in Sessions, session[s] # Idle
    PROVE  \/ session[s].holds = {}
           \/ Needs(s) = {}
           \/ session[s].holds = {"grant"} /\ Needs(s) \subseteq Lines
           \/ \E l \in Lines : session[s].holds = {l} /\ Needs(s) \subseteq {l} \cup Expenses
<1> DEFINE q == session[s]
<1>1. q \in Busy /\ Sound(q) /\ q.call \in Call
  BY IdleIsNotBusy DEF IInv, SessionsSound, Busy
<1>2. q.pc # "flushed"
  BY <1>1 DEF Sound
<1>3. CASE q.call.op = "allocate"
  BY SMTT(30), <1>1, <1>2, <1>3 DEF Sound, LocksOf, Needs, Live
<1>4. CASE q.call.op \in {"update", "delete"}
  <2>1. q.row = q.call.line /\ q.call.line \in Lines /\ On(q.row) \subseteq Expenses
    BY <1>1, <1>4, CallShape DEF Sound, Seen, LineOps, On, Allocated
  <2> QED BY <1>1, <1>2, <1>4, <2>1 DEF Sound, LocksOf, Needs
<1>5. CASE q.call.op \in {"resize", "release"}
  BY SMTT(30), <1>1, <1>2, <1>5 DEF Needs
<1>6. CASE q.call.op \notin {"allocate", "update", "delete", "resize", "release"}
  BY <1>1, <1>2, <1>6 DEF Sound, LocksOf
<1> QED BY <1>3, <1>4, <1>5, <1>6

LEMMA IInvAvoidsCircularWait ==
    IInv => NoCircularWait
<1> SUFFICES ASSUME IInv, deployment.ops \cap {"pledge", "confirm"} = {},
                    NEW s \in Sessions, NEW t \in Sessions,
                    s # t, session[s] # Idle, session[t] # Idle
             PROVE  \/ Needs(s) \cap session[t].holds = {}
                    \/ Needs(t) \cap session[s].holds = {}
  BY DEF NoCircularWait
<1>1. session[s].holds \cap session[t].holds = {}
  BY DEF IInv, Exclusive
<1> QED BY <1>1, WhatIsWaitedFor, LocksApart

(* No two handlers of the service layer wait for each other's row locks,   *)
(* however many workers, lines and expenses there are.                     *)
THEOREM NobodyWaitsInACircle ==
    Spec => []NoCircularWait
BY Inductive, IInvAvoidsCircularWait, PTL
------------------------------------------------------------------------------
(* The running totals of a line.                                           *)

LedgerInv == LedgerStartsEmpty /\ LedgerBalances

LEMMA LineBalances ==
    ASSUME IInv, LedgerInv, NEW k \in Lines, k \in Live, NEW new \in Line,
           lines' = [lines EXCEPT ![k] = new],
           \A l \in Lines \ {k} : ledger'[l] = ledger[l],
           new.committed = ledger'[k].commit, new.reconciled = ledger'[k].reconcile
    PROVE  LedgerInv'
<1>1. lines'[k] = new /\ \A l \in Lines \ {k} : lines'[l] = lines[l]
  BY TablesKept
<1>2. new # NoLine
  BY NullsApart
<1> QED BY <1>1, <1>2 DEF LedgerInv, LedgerStartsEmpty, LedgerBalances, Live

LEMMA LedgerKept ==
    ASSUME IInv, LedgerInv, NEW s \in Sessions, Moves(s), deployment' = deployment
    PROVE  LedgerInv'
<1> USE DEF LedgerInv, LedgerStartsEmpty, LedgerBalances
<1>1. CASE UNCHANGED <<lines, ledger>>
  BY <1>1 DEF Live
<1>2. CASE CommitCreate(s)
  <2>1. PICK k \in Lines :
          /\ lines[k] = NoLine
          /\ lines' = [lines EXCEPT ![k] =
                [category |-> session[s].call.category, allocated |-> session[s].call.amount,
                 committed |-> 0, reconciled |-> 0, version |-> 0]]
    BY <1>2 DEF CommitCreate
  <2>2. ledger' = ledger
    BY <1>2 DEF CommitCreate
  <2> QED BY <2>1, <2>2, TablesKept DEF Live
<1>3. CASE CommitUpdate(s)
  <2>1. CASE UNCHANGED lines
    BY <1>1, <1>3, <2>1 DEF CommitUpdate
  <2>2. CASE ~ UNCHANGED lines
    <3>1. PICK k, n : k = session[s].row /\ n = session[s].call.amount
      OBVIOUS
    <3> DEFINE new == Rewritten(k, "allocated", n)
    <3>2. /\ k \in Live /\ k \in Lines /\ n \in Nat /\ lines' = [lines EXCEPT ![k] = new]
      BY <1>3, <2>2, <3>1, UpdatedLine
    <3>3. /\ new \in Line /\ new.committed = lines[k].committed
          /\ new.reconciled = lines[k].reconciled
      BY <3>2, LiveIsLine, OneColumn DEF IInv, Rewritten
    <3>4. /\ lines[k].committed = ledger[k].commit /\ lines[k].reconciled = ledger[k].reconcile
          /\ ledger' = ledger
      BY <1>3, <3>2 DEF CommitUpdate
    <3> HIDE DEF new, LedgerInv
    <3> QED BY <3>2, <3>3, <3>4, LineBalances
  <2> QED BY <2>1, <2>2
<1>4. CASE CommitDelete(s)
  <2>1. /\ session[s].row \in Lines /\ lines' = [lines EXCEPT ![session[s].row] = Gone]
        /\ ledger' = [ledger EXCEPT ![session[s].row] = [commit |-> 0, reconcile |-> 0]]
    BY <1>4 DEF CommitDelete, Fresh, Live
  <2> QED BY <2>1, TablesKept, NullsApart DEF Live
<1>5. CASE CommitPledge(s)
  <2>1. PICK k, n : k = session[s].row /\ n = session[s].call.amount
    OBVIOUS
  <2> DEFINE new == Rewritten(k, "committed", lines[k].committed + n)
  <2>2. /\ k \in Lines /\ k \in Live /\ n \in Nat /\ new \in Line
        /\ lines' = [lines EXCEPT ![k] = new]
        /\ \A l \in Lines \ {k} : ledger'[l] = ledger[l]
        /\ ledger'[k].commit = ledger[k].commit + n /\ ledger'[k].reconcile = ledger[k].reconcile
    BY <1>5, <2>1, PledgedLine
  <2>3. new.committed = lines[k].committed + n /\ new.reconciled = lines[k].reconciled
    BY DEF Rewritten
  <2>4. lines[k].committed = ledger[k].commit /\ lines[k].reconciled = ledger[k].reconcile
    BY <2>2
  <2> HIDE DEF new, LedgerInv
  <2> QED BY <2>2, <2>3, <2>4, LineBalances
<1>6. CASE CommitConfirm(s)
  <2>1. PICK k, n : k = session[s].row /\ n = session[s].call.amount
    OBVIOUS
  <2> DEFINE new == Rewritten(k, "reconciled", lines[k].reconciled + n)
  <2>2. /\ k \in Lines /\ k \in Live /\ n \in Nat /\ new \in Line
        /\ lines' = [lines EXCEPT ![k] = new]
        /\ \A l \in Lines \ {k} : ledger'[l] = ledger[l]
        /\ ledger'[k].reconcile = ledger[k].reconcile + n /\ ledger'[k].commit = ledger[k].commit
    BY <1>6, <2>1, ConfirmedLine
  <2>3. new.reconciled = lines[k].reconciled + n /\ new.committed = lines[k].committed
    BY DEF Rewritten
  <2>4. lines[k].committed = ledger[k].commit /\ lines[k].reconciled = ledger[k].reconcile
    BY <2>2
  <2> HIDE DEF new, LedgerInv
  <2> QED BY <2>2, <2>3, <2>4, LineBalances
<1> QED BY <1>1, <1>2, <1>3, <1>4, <1>5, <1>6, Writers

(* The running totals equal the sums of the transactions, whatever runs at *)
(* once.                                                                   *)
THEOREM LedgersBalance ==
    Spec => []LedgerBalances
<1>1. Init => LedgerInv
  BY DEF Init, LedgerInv, LedgerStartsEmpty, LedgerBalances, Live
<1>2. IInv /\ LedgerInv /\ [Next]_vars => LedgerInv'
  <2>1. IInv /\ LedgerInv /\ Next => LedgerInv'
    BY NextMoves, LedgerKept
  <2>2. LedgerInv /\ UNCHANGED vars => LedgerInv'
    BY DEF vars, LedgerInv, LedgerStartsEmpty, LedgerBalances, Live
  <2> QED BY <2>1, <2>2
<1>3. LedgerInv => LedgerBalances
  BY DEF LedgerInv
<1> QED BY <1>1, <1>2, <1>3, Inductive, PTL DEF Spec

------------------------------------------------------------------------------
(* Counting.                                                               *)

Created == {l \in Lines : lines[l] # NoLine}

Working == {s \in Sessions : session[s] # Idle}

FinitelyMany ==
    /\ IsFiniteSet(Created) /\ IsFiniteSet(Allocated) /\ IsFiniteSet(Working)
    /\ Cardinality(Working) <= deployment.workers
    /\ Serial => \A s, t \in Working : s = t
    /\ "allocate" \notin deployment.ops => Allocated = {}

LEMMA OneMoreIsFinite ==
    ASSUME NEW S, IsFiniteSet(S), NEW x, NEW T, T \subseteq S \cup {x}
    PROVE  IsFiniteSet(T)
<1>1. IsFiniteSet(S \cup {x})
  BY FS_AddElement
<1> QED BY <1>1, FS_Subset

LEMMA WorkersAreNumbers ==
    ASSUME IInv PROVE deployment.workers \in Nat \ {0}
BY ConstantsOK DEF IInv, TypeOK, Deployment

LEMMA LinesGrowByOne ==
    ASSUME IInv, NEW s \in Sessions, Moves(s), deployment' = deployment
    PROVE  \E k \in Lines \cup {NoLine} : Created' \subseteq Created \cup {k}
<1>1. CASE CommitCreate(s)
  <2>1. PICK k \in Lines : \A l \in Lines \ {k} : lines'[l] = lines[l]
    BY <1>1, TablesKept DEF CommitCreate
  <2> QED BY <2>1 DEF Created
<1>2. CASE CommitDelete(s) \/ CommitPledge(s) \/ CommitConfirm(s) \/ CommitUpdate(s)
  <2>1. /\ session[s].row \in Live \/ UNCHANGED lines
        /\ CommitUpdate(s) => session[s].row = session[s].call.line
    <3>1. CASE CommitDelete(s)
      BY SMTT(30), <3>1 DEF CommitDelete, Fresh, CommitUpdate, At
    <3>2. CASE CommitPledge(s) \/ CommitConfirm(s)
      BY <3>2, FlushedLine DEF CommitPledge, CommitConfirm, CommitUpdate, At
    <3>3. CASE CommitUpdate(s)
      <4>1. Sound(session[s]) /\ session[s].call.op \in {"update", "admin_update"}
        BY <3>3, AtWork DEF CommitUpdate
      <4> QED BY <3>3, <4>1 DEF CommitUpdate, Fresh, Sound, Seen, LineOps
    <3> QED BY <1>2, <3>1, <3>2, <3>3
  <2>2. \A l \in Lines \ {session[s].row} : lines'[l] = lines[l]
    BY Zenon, <1>2, <2>1, TablesKept DEF CommitDelete, CommitPledge, CommitConfirm, CommitUpdate
  <2>3. Created' \subseteq Created
    BY <2>1, <2>2 DEF Created, Live
  <2> QED BY <2>3
<1>3. CASE UNCHANGED lines
  BY <1>3 DEF Created
<1> QED BY <1>1, <1>2, <1>3, Writers

LEMMA AllocatedGrowsByOne ==
    ASSUME IInv, NEW s \in Sessions, Moves(s), deployment' = deployment
    PROVE  \/ Allocated' \subseteq Allocated
           \/ /\ "allocate" \in deployment.ops
              /\ \E e \in Expenses : Allocated' \subseteq Allocated \cup {e}
<1>1. CASE CommitAllocate(s)
  <2>1. session[s].call.op = "allocate" /\ Sound(session[s]) /\ session[s].call \in Call
    BY <1>1, AtWork DEF CommitAllocate
  <2>2. session[s].call.expense \in Expenses
    BY <2>1, CallShape
  <2>3. \A e \in Expenses \ {session[s].call.expense} : alloc'[e] = alloc[e]
    BY <1>1, TablesKept DEF CommitAllocate
  <2> QED BY <2>1, <2>2, <2>3 DEF Allocated, Sound
<1>2. CASE CommitDelete(s)
  BY <1>2 DEF CommitDelete, Allocated
<1>3. CASE CommitResize(s)
  <2>1. session[s].call.op = "resize" /\ Sound(session[s])
    BY <1>3, AtWork DEF CommitResize
  <2>2. \A e \in Expenses \ {session[s].call.expense} : alloc'[e] = alloc[e]
    BY <1>3, TablesKept DEF CommitResize
  <2> QED BY <2>1, <2>2 DEF Allocated, Sound
<1>4. CASE CommitRelease(s)
  BY <1>4, TablesKept DEF CommitRelease, Allocated
<1>5. CASE UNCHANGED alloc
  BY <1>5 DEF Allocated
<1> QED BY <1>1, <1>2, <1>3, <1>4, <1>5, Writers

LEMMA MoversWork ==
    ASSUME IInv, NEW s \in Sessions, Moves(s), \A c \in Call : ~ Load(s, c)
    PROVE  s \in Working
<1> SUFFICES ASSUME session[s] = Idle PROVE FALSE
  BY DEF Working
<1> QED BY IdleIsNotBusy
        DEF Moves, Step, LockLine, Pass, FlushLine, CommitDisburse, CommitCreate, CommitUpdate,
            CommitDelete, CommitAllocate, CommitResize, CommitRelease, CommitPledge,
            CommitConfirm, CommitAdvance, CommitEdit, Refuse, Crash, At

LEMMA FinitelyManyKept ==
    ASSUME IInv, FinitelyMany, NEW s \in Sessions, Moves(s), deployment' = deployment
    PROVE  FinitelyMany'
<1>1. IsFiniteSet(Created')
  BY LinesGrowByOne, OneMoreIsFinite DEF FinitelyMany
<1>2. IsFiniteSet(Allocated') /\ ("allocate" \notin deployment.ops => Allocated' = {})
  BY AllocatedGrowsByOne, OneMoreIsFinite, FS_Subset DEF FinitelyMany
<1>3. Working' \subseteq Working \cup {s}
  BY MovesAreClean DEF Clean, OnlySession, Working
<1>4. IsFiniteSet(Working')
  BY <1>3, OneMoreIsFinite DEF FinitelyMany
<1>5. Serial => \A t, u \in Working' : t = u
  <2>1. CASE \E c \in Call : Load(s, c)
    <3>1. Cardinality(Working) < deployment.workers
      BY <2>1 DEF Load, Asked, Working
    <3>2. Serial => Working = {}
      <4>1. Cardinality(Working) \in Nat
        BY FS_CardinalityType DEF FinitelyMany
      <4> QED BY <3>1, <4>1, FS_EmptySet DEF FinitelyMany, Serial
    <3> QED BY <1>3, <3>2
  <2>2. CASE \A c \in Call : ~ Load(s, c)
    BY <1>3, <2>2, MoversWork DEF FinitelyMany
  <2> QED BY <2>1, <2>2
<1>6. Cardinality(Working') <= deployment.workers
  <2>1. Cardinality(Working) \in Nat /\ Cardinality(Working') \in Nat
    BY <1>4, FS_CardinalityType DEF FinitelyMany
  <2>2. deployment.workers \in Nat
    BY WorkersAreNumbers
  <2>3. CASE \E c \in Call : Load(s, c)
    <3>1. Cardinality(Working) < deployment.workers
      BY <2>3 DEF Load, Asked, Working
    <3>2. /\ IsFiniteSet(Working \cup {s})
          /\ Cardinality(Working \cup {s}) \in {Cardinality(Working), Cardinality(Working) + 1}
      BY FS_AddElement DEF FinitelyMany
    <3>3. Cardinality(Working') <= Cardinality(Working \cup {s})
      BY <1>3, <3>2, FS_Subset
    <3> QED BY <2>1, <2>2, <3>1, <3>2, <3>3
  <2>4. CASE \A c \in Call : ~ Load(s, c)
    <3>1. Working' \subseteq Working
      BY <1>3, <2>4, MoversWork
    <3>2. Cardinality(Working') <= Cardinality(Working)
      BY <3>1, FS_Subset DEF FinitelyMany
    <3> QED BY <2>1, <2>2, <3>2 DEF FinitelyMany
  <2> QED BY <2>3, <2>4
<1> QED BY <1>1, <1>2, <1>4, <1>5, <1>6 DEF FinitelyMany, Serial

(* The totals are taken over finite sets of rows, and no more handlers are *)
(* at work than there are workers.                                         *)
THEOREM Finite ==
    Spec => []FinitelyMany
<1>1. Init /\ IInv => FinitelyMany
  <2> SUFFICES ASSUME Init, IInv PROVE FinitelyMany
    OBVIOUS
  <2>1. Created = {} /\ Allocated = {} /\ Working = {}
    BY DEF Init, Created, Allocated, Working
  <2>2. IsFiniteSet(Working) /\ Cardinality(Working) = 0
    BY <2>1, FS_EmptySet
  <2>3. Cardinality(Working) <= deployment.workers
    BY <2>2, WorkersAreNumbers
  <2> QED BY <2>1, <2>2, <2>3 DEF FinitelyMany
<1>2. IInv /\ FinitelyMany /\ [Next]_vars => FinitelyMany'
  <2>1. IInv /\ FinitelyMany /\ Next => FinitelyMany'
    BY NextMoves, FinitelyManyKept
  <2>2. FinitelyMany /\ UNCHANGED vars => FinitelyMany'
    BY DEF vars, FinitelyMany, Created, Allocated, Working, Serial
  <2> QED BY <2>1, <2>2
<1> QED BY <1>1, <1>2, Inductive, PTL DEF Spec

------------------------------------------------------------------------------
(* Sums of the rows.                                                       *)

Amount == [e \in Expenses |-> alloc[e].amount]

Budgeted == [l \in Lines |-> lines[l].allocated]

LEMMA SpentNow ==
    ASSUME IInv, FinitelyMany
    PROVE  /\ \A e \in Allocated : Amount[e] \in Nat
           /\ \A E \in SUBSET Allocated : IsFiniteSet(E) /\ SpentOn(E) = Total(Amount, E)
<1>1. \A e \in Allocated : e \in Expenses /\ Amount[e] = alloc[e].amount /\ Amount[e] \in Nat
  BY TablesKept DEF Allocated, Amount, Alloc
<1>2. ASSUME NEW E \in SUBSET Allocated
      PROVE  IsFiniteSet(E) /\ SpentOn(E) = Total(Amount, E)
  <2>1. IsFiniteSet(E)
    BY FS_Subset DEF FinitelyMany
  <2>2. SpentSum(alloc, E) = Total(Amount, E)
    BY <1>1, <2>1, SpentSumIsTotal
  <2>3. SpentOn(E) = SpentSum(alloc, E)
    BY DEF SpentOn, SpentSum
  <2> QED BY <2>1, <2>2, <2>3
<1> QED BY <1>1, <1>2

LEMMA SpentNext ==
    ASSUME TypeOK', FinitelyMany'
    PROVE  /\ \A e \in Allocated' : Amount'[e] \in Nat
           /\ IsFiniteSet(Allocated')
           /\ SpentOn(Allocated)' = Total(Amount', Allocated')
           /\ \A e : SpentOn(Allocated \ {e})' = Total(Amount', Allocated' \ {e})
           /\ \A l : SpentOn(On(l))' = Total(Amount', On(l)')
           /\ \A l, e : SpentOn(On(l) \ {e})' = Total(Amount', On(l)' \ {e})
<1>1. \A e \in Allocated' : Amount'[e] = alloc'[e].amount /\ Amount'[e] \in Nat
  BY DEF TypeOK, Allocated, Amount, Alloc
<1>2. ASSUME NEW E \in SUBSET Allocated'
      PROVE  SpentSum(alloc', E) = Total(Amount', E)
  <2>1. IsFiniteSet(E)
    BY FS_Subset DEF FinitelyMany
  <2> QED BY <1>1, <2>1, SpentSumIsTotal
<1>3. SpentOn(Allocated)' = SpentSum(alloc', Allocated')
  BY DEF SpentOn, SpentSum, MapThenSumSet, MapThenFoldSet
<1>4. ASSUME NEW e PROVE SpentOn(Allocated \ {e})' = SpentSum(alloc', Allocated' \ {e})
  BY DEF SpentOn, SpentSum, MapThenSumSet, MapThenFoldSet
<1>5. ASSUME NEW l PROVE SpentOn(On(l))' = SpentSum(alloc', On(l)')
  BY DEF SpentOn, SpentSum, MapThenSumSet, MapThenFoldSet
<1>6. ASSUME NEW l, NEW e PROVE SpentOn(On(l) \ {e})' = SpentSum(alloc', On(l)' \ {e})
  BY DEF SpentOn, SpentSum, MapThenSumSet, MapThenFoldSet
<1>7. \A l : On(l)' \subseteq Allocated'
  BY DEF On
<1> QED BY <1>1, <1>2, <1>3, <1>4, <1>5, <1>6, <1>7 DEF FinitelyMany

LEMMA BudgetNow ==
    ASSUME IInv, FinitelyMany
    PROVE  /\ \A l \in Live : Budgeted[l] \in Nat
           /\ \A L \in SUBSET Live : IsFiniteSet(L) /\ BudgetOf(L) = Total(Budgeted, L)
<1>1. \A l \in Live : l \in Lines /\ Budgeted[l] = lines[l].allocated /\ Budgeted[l] \in Nat
  BY TablesKept DEF Live, Budgeted, Line
<1>2. Live \subseteq Created
  BY DEF Live, Created
<1>3. ASSUME NEW L \in SUBSET Live
      PROVE  IsFiniteSet(L) /\ BudgetOf(L) = Total(Budgeted, L)
  <2>1. IsFiniteSet(L)
    BY <1>2, FS_Subset DEF FinitelyMany
  <2>2. BudgetSum(lines, L) = Total(Budgeted, L)
    BY <1>1, <2>1, BudgetSumIsTotal
  <2>3. BudgetOf(L) = BudgetSum(lines, L)
    BY DEF BudgetOf, BudgetSum
  <2> QED BY <2>1, <2>2, <2>3
<1> QED BY <1>1, <1>3

LEMMA BudgetNext ==
    ASSUME TypeOK', FinitelyMany'
    PROVE  /\ \A l \in Live' : Budgeted'[l] \in Nat
           /\ IsFiniteSet(Live')
           /\ BudgetOf(Live)' = Total(Budgeted', Live')
           /\ \A l : BudgetOf(Live \ {l})' = Total(Budgeted', Live' \ {l})
<1>1. \A l \in Live' : Budgeted'[l] = lines'[l].allocated /\ Budgeted'[l] \in Nat
  BY DEF TypeOK, Live, Budgeted, Line
<1>2. Live' \subseteq Created'
  BY DEF Live, Created
<1>3. ASSUME NEW L \in SUBSET Live'
      PROVE  IsFiniteSet(L) /\ BudgetSum(lines', L) = Total(Budgeted', L)
  <2>1. IsFiniteSet(L)
    BY <1>2, FS_Subset DEF FinitelyMany
  <2> QED BY <1>1, <2>1, BudgetSumIsTotal
<1>4. BudgetOf(Live)' = BudgetSum(lines', Live')
  BY DEF BudgetOf, BudgetSum, MapThenSumSet, MapThenFoldSet
<1>5. ASSUME NEW l PROVE BudgetOf(Live \ {l})' = BudgetSum(lines', Live' \ {l})
  BY DEF BudgetOf, BudgetSum, MapThenSumSet, MapThenFoldSet
<1> QED BY <1>1, <1>3, <1>4, <1>5

LEMMA PartSpent ==
    ASSUME IInv, FinitelyMany, TypeOK', FinitelyMany',
           NEW E \in SUBSET Allocated, NEW F \in SUBSET Allocated', F \subseteq E,
           \A e \in F : alloc'[e] = alloc[e]
    PROVE  /\ Total(Amount, E) \in Nat /\ Total(Amount', F) \in Nat
           /\ Total(Amount', F) <= Total(Amount, E)
<1>1. IsFiniteSet(E) /\ \A e \in E : Amount[e] \in Nat
  BY SpentNow
<1>2. \A e \in F : Amount'[e] = Amount[e]
  BY DEF Amount, Allocated
<1> QED BY <1>1, <1>2, TotalOnPart

LEMMA QuietSums ==
    ASSUME IInv, FinitelyMany, TypeOK', FinitelyMany', UNCHANGED <<lines, alloc>>
    PROVE  /\ SpentOn(Allocated)' = SpentOn(Allocated)
           /\ \A e : SpentOn(Allocated \ {e})' = SpentOn(Allocated \ {e})
           /\ \A l : On(l)' = On(l) /\ SpentOn(On(l))' = SpentOn(On(l))
           /\ \A l, e : SpentOn(On(l) \ {e})' = SpentOn(On(l) \ {e})
           /\ BudgetOf(Live)' = BudgetOf(Live)
           /\ \A l : BudgetOf(Live \ {l})' = BudgetOf(Live \ {l})
<1>1. /\ Allocated' = Allocated /\ Amount' = Amount /\ Live' = Live /\ Budgeted' = Budgeted
      /\ \A l : On(l)' = On(l) /\ On(l) \subseteq Allocated
  BY DEF Allocated, Amount, Live, Budgeted, On
<1>2. /\ SpentOn(Allocated)' = SpentOn(Allocated)
      /\ \A e : SpentOn(Allocated \ {e})' = SpentOn(Allocated \ {e})
      /\ \A l : SpentOn(On(l))' = SpentOn(On(l))
      /\ \A l, e : SpentOn(On(l) \ {e})' = SpentOn(On(l) \ {e})
  <2>1. SpentOn(Allocated)' = SpentOn(Allocated)
    BY <1>1, SpentNow, SpentNext
  <2>2. ASSUME NEW e PROVE SpentOn(Allocated \ {e})' = SpentOn(Allocated \ {e})
    BY <1>1, SpentNow, SpentNext
  <2>3. ASSUME NEW l PROVE SpentOn(On(l))' = SpentOn(On(l))
    BY <1>1, SpentNow, SpentNext
  <2>4. ASSUME NEW l, NEW e PROVE SpentOn(On(l) \ {e})' = SpentOn(On(l) \ {e})
    <3>1. On(l) \ {e} \in SUBSET Allocated
      BY <1>1
    <3> QED BY <1>1, <3>1, SpentNow, SpentNext
  <2> QED BY <2>1, <2>2, <2>3, <2>4
<1>3. /\ BudgetOf(Live)' = BudgetOf(Live)
      /\ \A l : BudgetOf(Live \ {l})' = BudgetOf(Live \ {l})
  BY Zenon, <1>1, BudgetNow, BudgetNext
<1> QED BY <1>1, <1>2, <1>3

(* The steps that leave the rows alone, and those that end a session.      *)
LEMMA QuietOrFinished ==
    ASSUME NEW s \in Sessions, Moves(s)
    PROVE  UNCHANGED money \/ (Finish(s) /\ \A c \in Call : ~ Load(s, c))
<1>1. CASE session[s] = Idle
  BY <1>1, IdleIsNotBusy
     DEF Moves, Step, Load, LockLine, Pass, FlushLine, CommitDisburse, CommitCreate,
         CommitUpdate, CommitDelete, CommitAllocate, CommitResize, CommitRelease,
         CommitPledge, CommitConfirm, CommitAdvance, CommitEdit, Refuse, Crash, At
<1>2. CASE session[s] # Idle
  BY Zenon, <1>2 DEF Moves, Step, Load, LockLine, Pass, FlushLine, CommitDisburse, CommitCreate,
         CommitUpdate, CommitDelete, CommitAllocate, CommitResize, CommitRelease,
         CommitPledge, CommitConfirm, CommitAdvance, CommitEdit, Refuse, Crash
<1> QED BY <1>1, <1>2

(* With one worker nobody waits while another writes.                      *)
LEMMA AloneOrQuiet ==
    ASSUME IInv, FinitelyMany, Serial, NEW s \in Sessions, Moves(s),
           NEW t \in Sessions \ {s}, session[t] # Idle
    PROVE  UNCHANGED money
<1>1. CASE \E c \in Call : Load(s, c)
  BY <1>1 DEF Load
<1>2. CASE \A c \in Call : ~ Load(s, c)
  BY <1>2, MoversWork DEF FinitelyMany, Working
<1> QED BY <1>1, <1>2
------------------------------------------------------------------------------
(* A line's allocations fit it.                                            *)

(* The handlers that compare an amount with what is spent hold the lock of *)
(* the line, but for two: the PUT of a line compares nothing, and a resize *)
(* locks the allocation and no line.                                       *)
LinesGuarded(d) ==
    /\ ~ {"admin_update", "allocate"} \subseteq d.ops
    /\ {"resize", "allocate"} \subseteq d.ops => d.workers = 1

(* What has been checked and not yet written still fits.                   *)
FitsLine(q) ==
    q.pc = "ready" =>
        /\ q.call.op = "allocate" =>
              SpentOn(On(q.row)) + Cost[q.call.expense] <= lines[q.row].allocated
        /\ q.call.op = "update" => SpentOn(On(q.row)) <= q.call.amount
        /\ q.call.op = "resize" =>
              SpentOn(On(q.row) \ {q.call.expense}) + q.call.amount
                  <= lines[q.row].allocated

LineInv ==
    LinesGuarded(deployment) =>
        /\ SpentFitsLine
        /\ \A s \in Sessions : session[s] # Idle => FitsLine(session[s])

(* No more is on line l than before.                                       *)
Lessens(l) == On(l)' \subseteq On(l) /\ \A e \in On(l)' : alloc'[e] = alloc[e]

LEMMA WhoAddsToALine ==
    ASSUME IInv, NEW s \in Sessions, Moves(s), NEW l \in Lines
    PROVE  \/ CommitResize(s)
           \/ CommitAllocate(s) /\ session[s].row = l
           \/ Lessens(l)
<1> SUFFICES ASSUME ~ CommitResize(s), CommitAllocate(s) => session[s].row # l
             PROVE  Lessens(l)
  OBVIOUS
<1>1. CASE CommitAllocate(s)
  <2>1. alloc' = [alloc EXCEPT ![session[s].call.expense] =
                    [line |-> session[s].row, amount |-> Cost[session[s].call.expense]]]
    BY <1>1 DEF CommitAllocate
  <2> QED BY <1>1, <2>1, TablesKept DEF Lessens, On, Allocated
<1>2. CASE CommitDelete(s)
  BY <1>2 DEF CommitDelete, Lessens, On, Allocated
<1>3. CASE CommitRelease(s)
  BY <1>3, TablesKept DEF CommitRelease, Lessens, On, Allocated
<1>4. CASE UNCHANGED alloc
  BY <1>4 DEF Lessens, On, Allocated
<1> QED BY <1>1, <1>2, <1>3, <1>4, Writers

LEMMA LessSpent ==
    ASSUME IInv, FinitelyMany, TypeOK', FinitelyMany', NEW l, Lessens(l)
    PROVE  /\ SpentOn(On(l)) \in Nat /\ SpentOn(On(l))' \in Nat
           /\ SpentOn(On(l))' <= SpentOn(On(l))
<1>1. On(l) \in SUBSET Allocated /\ On(l)' \in SUBSET Allocated'
  BY DEF On
<1> QED BY <1>1, PartSpent, SpentNow, SpentNext DEF Lessens

LEMMA AllocatorsHoldTheirLine ==
    ASSUME IInv, NEW s \in Sessions, session[s] # Idle, session[s].call.op = "allocate",
           session[s].pc = "ready"
    PROVE  /\ session[s].holds = {"grant", session[s].row}
           /\ session[s].call.expense \in Expenses
           /\ Cost[session[s].call.expense] \in Nat
<1>1. Sound(session[s]) /\ session[s].call \in Call
  BY IdleIsNotBusy DEF IInv, SessionsSound, Busy
<1>2. session[s].call.expense \in Expenses
  BY <1>1, CallShape
<1> QED BY <1>1, <1>2, ConstantsOK DEF Sound, LocksOf

LEMMA OthersFitLine ==
    ASSUME IInv, FinitelyMany, TypeOK', FinitelyMany', LinesGuarded(deployment),
           NEW s \in Sessions, Moves(s), deployment' = deployment,
           NEW t \in Sessions \ {s}, NEW q \in Busy, session[t] = q, FitsLine(q)
    PROVE  FitsLine(q)'
<1>0. q # Idle /\ Sound(q) /\ q.call \in Call /\ q.call.op \in deployment.ops
  BY IdleIsNotBusy DEF IInv, SessionsSound, Busy, Sound
<1>1. CASE q.call.op = "resize"
  <2>1. Serial
    BY <1>0, <1>1 DEF Sound, FinitelyMany, LinesGuarded, Serial
  <2>2. UNCHANGED money
    BY <1>0, <2>1, AloneOrQuiet
  <2> QED BY <1>1, <2>2, QuietSums DEF FitsLine, money
<1>2. CASE q.call.op \in {"allocate", "update"} /\ q.pc = "ready"
  <2>1. q.row \in q.holds /\ q.row \in Lines
    BY <1>0, <1>2, CallShape DEF Sound, LocksOf, Seen, LineOps, Busy
  <2>2. ~ CommitResize(s)
    <3> SUFFICES ASSUME CommitResize(s) PROVE FALSE
      OBVIOUS
    <3>1. Sound(session[s]) /\ session[s].call.op = "resize" /\ session[s] # Idle
      BY AtWork DEF CommitResize
    <3>2. Serial /\ s \in Working /\ t \in Working
      BY <1>0, <3>1 DEF Sound, FinitelyMany, LinesGuarded, Serial, Working
    <3> QED BY <3>2 DEF FinitelyMany
  <2>3. ~ (CommitAllocate(s) /\ session[s].row = q.row)
    <3> SUFFICES ASSUME CommitAllocate(s), session[s].row = q.row PROVE FALSE
      OBVIOUS
    <3>1. session[s].holds = {"grant", q.row}
      BY AtWork, AllocatorsHoldTheirLine DEF CommitAllocate
    <3> QED BY <2>1, <3>1 DEF IInv, Exclusive
  <2>4. /\ SpentOn(On(q.row)) \in Nat /\ SpentOn(On(q.row))' \in Nat
        /\ SpentOn(On(q.row))' <= SpentOn(On(q.row))
    BY <2>1, <2>2, <2>3, WhoAddsToALine, LessSpent
  <2>5. lines'[q.row] = lines[q.row] /\ q.row \in Live
    BY <1>0, <2>1, MovesAreClean DEF Clean, LineWritten, Sound, Live
  <2>6. lines[q.row].allocated \in Nat
    BY <2>5, LiveIsLine DEF IInv, Line, Live
  <2>7. q.call.op = "update" => q.call.amount \in Nat
    BY Zenon, <1>0, CallShape, ConstantsOK
  <2>8. q.call.op = "allocate" => Cost[q.call.expense] \in Nat
    BY <1>0, <1>2, AllocatorsHoldTheirLine
  <2> QED BY <1>2, <2>4, <2>5, <2>6, <2>7, <2>8 DEF FitsLine
<1> QED BY <1>1, <1>2 DEF FitsLine

(* A session that goes on: it has passed its checks, or it has not got to  *)
(* its write.                                                              *)
LEMMA StillWorking ==
    ASSUME IInv, NEW s \in Sessions, Moves(s), session'[s] # Idle
    PROVE  /\ UNCHANGED money
           /\ \/ session'[s].pc # "ready"
              \/ /\ Pass(s) /\ session[s] \in Busy /\ Sound(session[s])
                 /\ session'[s] = [session[s] EXCEPT !.pc = "ready"]
<1>1. session \in [Sessions -> Busy \cup {Idle}]
  BY DEF IInv, TypeOK
<1>2. ~ Finish(s)
  BY <1>1 DEF Finish
<1>3. UNCHANGED money
  BY <1>2, QuietOrFinished
<1>4. CASE \E c \in Call : Load(s, c)
  BY <1>1, <1>3, <1>4 DEF Load
<1>5. CASE LockLine(s)
  BY <1>1, <1>3, <1>5 DEF LockLine, AtLine
<1>6. CASE Pass(s)
  BY <1>1, <1>3, <1>6, IdleIsNotBusy DEF Pass, IInv, SessionsSound
<1>7. CASE FlushLine(s)
  <2>1. session[s] \in Busy
    BY <1>7, AtWork DEF FlushLine
  <2>2. session'[s].pc = "flushed"
    BY <1>1, <1>7, <2>1 DEF FlushLine, Busy
  <2> QED BY <1>3, <2>2
<1> QED BY Zenon, <1>2, <1>4, <1>5, <1>6, <1>7
        DEF Moves, Step, CommitDisburse, CommitCreate, CommitUpdate, CommitDelete,
            CommitAllocate, CommitResize, CommitRelease, CommitPledge, CommitConfirm,
            CommitAdvance, CommitEdit, Refuse, Crash

LEMMA OwnFitsLine ==
    ASSUME IInv, FinitelyMany, TypeOK', FinitelyMany',
           NEW s \in Sessions, Moves(s), session'[s] # Idle
    PROVE  FitsLine(session[s])'
<1>1. CASE session'[s].pc # "ready"
  BY <1>1 DEF FitsLine
<1>2. CASE session'[s].pc = "ready"
  <2>1. PICK q \in Busy : q = session[s]
    BY <1>2, StillWorking
  <2>2. /\ Pass(s) /\ Sound(q) /\ UNCHANGED money
        /\ session'[s] = [q EXCEPT !.pc = "ready"]
    BY <1>2, <2>1, StillWorking
  <2>3. PICK r \in Busy : r = session'[s]
    BY <2>1, <2>2 DEF Busy
  <2>4. r.call = q.call /\ r.row = q.row /\ r.pc = "ready" /\ q.call \in Call
    BY <2>1, <2>2, <2>3 DEF Busy
  <2>5. May(s)
    BY <2>2 DEF Pass
  <2>6. q.call.op = "allocate" =>
           SpentOn(On(q.row)) + Cost[q.call.expense] <= lines[q.row].allocated
    <3> SUFFICES ASSUME q.call.op = "allocate"
                 PROVE  SpentOn(On(q.row)) + Cost[q.call.expense] <= lines[q.row].allocated
      OBVIOUS
    <3>1. MayAllocate(q.view, q.call, q.row)
      BY <2>1, <2>5 DEF May
    <3>2. q.pc = "locked"
      BY <2>1, <2>2 DEF Pass, Checking
    <3>3. lines[q.row] = q.view.line
      BY <2>2, <3>2 DEF Sound, LocksOf
    <3> QED BY <3>1, <3>3 DEF MayAllocate
  <2>7. q.call.op = "update" => SpentOn(On(q.row)) <= q.call.amount
    BY <2>1, <2>2, <2>5 DEF May, MayUpdate, Sound, Seen, LineOps
  <2>8. q.call.op = "resize" =>
           SpentOn(On(q.row) \ {q.call.expense}) + q.call.amount <= lines[q.row].allocated
    BY <2>1, <2>5 DEF May, MayResize
  <2>9. FitsLine(r)
    BY <2>4, <2>6, <2>7, <2>8 DEF FitsLine
  <2>10. FitsLine(r)'
    BY <2>2, <2>9, QuietSums DEF FitsLine, money
  <2> QED BY <2>3, <2>10
<1> QED BY <1>1, <1>2

LEMMA RestFits ==
    ASSUME IInv, FinitelyMany, TypeOK', FinitelyMany', NEW l \in Live, l \in Live',
           Lessens(l), lines'[l].allocated = lines[l].allocated,
           SpentOn(On(l)) <= lines[l].allocated
    PROVE  SpentOn(On(l))' <= lines'[l].allocated
<1>1. lines[l].allocated \in Nat
  BY LiveIsLine DEF IInv, Line, Live
<1> QED BY <1>1, LessSpent

LEMMA AllocateFits ==
    ASSUME IInv, FinitelyMany, TypeOK', FinitelyMany', SpentFitsLine,
           NEW s \in Sessions, CommitAllocate(s), FitsLine(session[s]), NEW l \in Live'
    PROVE  SpentOn(On(l))' <= lines'[l].allocated
<1> DEFINE q == session[s]  x == q.call.expense
<1>1. /\ q # Idle /\ q.call.op = "allocate" /\ q.pc = "ready"
      /\ x \in Expenses /\ Cost[x] \in Nat
  BY AtWork, AllocatorsHoldTheirLine DEF CommitAllocate
<1>2. /\ alloc' = [alloc EXCEPT ![x] = [line |-> q.row, amount |-> Cost[x]]]
      /\ lines' = lines /\ alloc[x] = NoAlloc
  BY DEF CommitAllocate
<1>3. l \in Live /\ l \in Lines
  BY <1>2 DEF Live
<1>4. FitsLine(q)
  OBVIOUS
<1> HIDE DEF q, x
<1>5. \A e \in Expenses \ {x} : alloc'[e] = alloc[e]
  BY <1>1, <1>2, TablesKept
<1>6. CASE l # q.row
  <2>1. Lessens(l)
    BY <1>1, <1>2, <1>5, <1>6, TablesKept DEF Lessens, On, Allocated
  <2> QED BY <1>2, <1>3, <2>1, RestFits DEF SpentFitsLine
<1>7. CASE l = q.row
  <2>1. SpentOn(On(l)) + Cost[x] <= lines[l].allocated
    BY <1>1, <1>4, <1>7 DEF FitsLine, x
  <2>2. /\ alloc'[x] = [line |-> q.row, amount |-> Cost[x]]
        /\ alloc'[x] \in Alloc
    BY <1>1, <1>2, <1>3, <1>7, TablesKept DEF Alloc
  <2>3. x \in On(l)' /\ On(l)' \ {x} = On(l) /\ x \notin On(l)
    BY <1>1, <1>2, <1>5, <1>7, <2>2, NullsApart DEF On, Allocated
  <2>4. Amount'[x] = Cost[x] /\ \A e \in On(l)' \ {x} : Amount'[e] = Amount[e]
    BY <1>1, <1>5, <2>2 DEF Amount, On, Allocated
  <2>5. IsFiniteSet(On(l)') /\ \A e \in On(l)' : Amount'[e] \in Nat
    <3>1. On(l)' \in SUBSET Allocated'
      BY DEF On
    <3> QED BY <3>1, SpentNext, FS_Subset
  <2>6. /\ Total(Amount', On(l)') = Cost[x] + Total(Amount, On(l))
        /\ Total(Amount, On(l)) \in Nat
    BY <2>3, <2>4, <2>5, TotalWith
  <2>7. SpentOn(On(l)) = Total(Amount, On(l))
    BY SpentNow DEF On
  <2>8. SpentOn(On(l))' = Total(Amount', On(l)')
    BY SpentNext
  <2>9. lines[l].allocated \in Nat
    BY <1>3, LiveIsLine DEF IInv, Line
  <2> QED BY <1>1, <1>2, <2>1, <2>6, <2>7, <2>8, <2>9
<1> QED BY <1>6, <1>7

LEMMA ResizeFits ==
    ASSUME IInv, FinitelyMany, TypeOK', FinitelyMany', SpentFitsLine,
           NEW s \in Sessions, CommitResize(s), FitsLine(session[s]), NEW l \in Live'
    PROVE  SpentOn(On(l))' <= lines'[l].allocated
<1> DEFINE q == session[s]  x == q.call.expense
<1>1. /\ q.call \in Call /\ Sound(q) /\ q.call.op = "resize" /\ q.pc = "ready"
  BY AtWork DEF CommitResize
<1>2. /\ x \in Expenses /\ x \in Allocated /\ q.call.amount \in Nat
      /\ q.row = alloc[x].line /\ alloc[x] \in Alloc
  BY <1>1, CallShape, ConstantsOK, TablesKept DEF Sound, Allocated
<1>3. /\ alloc' = [alloc EXCEPT ![x].amount = q.call.amount]
      /\ lines' = lines
  BY DEF CommitResize
<1>4. l \in Live /\ l \in Lines
  BY <1>3 DEF Live
<1>5. FitsLine(q)
  OBVIOUS
<1> HIDE DEF q, x
<1>6. \A e \in Expenses \ {x} : alloc'[e] = alloc[e]
  BY <1>2, <1>3, TablesKept
<1>7. alloc'[x].line = q.row /\ alloc'[x].amount = q.call.amount /\ alloc'[x] \in Alloc
  BY <1>2, <1>3, TablesKept DEF Alloc
<1>8. CASE l # q.row
  <2>1. Lessens(l)
    BY <1>2, <1>6, <1>7, <1>8, TablesKept DEF Lessens, On, Allocated
  <2> QED BY <1>3, <1>4, <2>1, RestFits DEF SpentFitsLine
<1>9. CASE l = q.row
  <2>1. SpentOn(On(l) \ {x}) + q.call.amount <= lines[l].allocated
    BY <1>1, <1>5, <1>9 DEF FitsLine, x
  <2>2. x \in On(l)' /\ On(l)' = On(l)
    BY <1>2, <1>6, <1>7, <1>9, NullsApart DEF On, Allocated
  <2>3. Amount'[x] = q.call.amount /\ \A e \in On(l)' \ {x} : Amount'[e] = Amount[e]
    BY <1>2, <1>6, <1>7 DEF Amount, On, Allocated
  <2>4. IsFiniteSet(On(l)') /\ \A e \in On(l)' : Amount'[e] \in Nat
    <3>1. On(l)' \in SUBSET Allocated'
      BY DEF On
    <3> QED BY <3>1, SpentNext, FS_Subset
  <2>5. /\ Total(Amount', On(l)') = q.call.amount + Total(Amount, On(l) \ {x})
        /\ Total(Amount, On(l) \ {x}) \in Nat
    BY <2>2, <2>3, <2>4, TotalWith
  <2>6. SpentOn(On(l) \ {x}) = Total(Amount, On(l) \ {x})
    <3>1. On(l) \ {x} \in SUBSET Allocated
      BY DEF On
    <3> QED BY <3>1, SpentNow
  <2>7. SpentOn(On(l))' = Total(Amount', On(l)')
    BY SpentNext
  <2>8. lines[l].allocated \in Nat
    BY <1>4, LiveIsLine DEF IInv, Line
  <2> QED BY <1>2, <1>3, <2>1, <2>5, <2>6, <2>7, <2>8
<1> QED BY <1>8, <1>9

(* Who changes what a line may hold.                                       *)
LEMMA CreatedLine ==
    ASSUME IInv, NEW s \in Sessions, CommitCreate(s)
    PROVE  /\ session[s] # Idle /\ session[s].pc = "ready" /\ session[s].call.amount \in Nat
           /\ session[s].call.op \in {"create", "admin_create"}
           /\ \E k \in Lines :
                 /\ k \notin Live /\ k \in Live' /\ lines'[k].allocated = session[s].call.amount
                 /\ \A l \in Lines \ {k} : lines'[l] = lines[l]
<1> DEFINE q == session[s]  c == q.call
           new == [category |-> c.category, allocated |-> c.amount,
                   committed |-> 0, reconciled |-> 0, version |-> 0]
<1>1. /\ q # Idle /\ q.pc = "ready" /\ c \in Call /\ c.op \in {"create", "admin_create"}
  BY AtWork DEF CommitCreate
<1>2. c.amount \in Nat /\ c.category \in Categories
  BY <1>1, CallShape, ConstantsOK
<1>3. PICK k \in Lines : lines[k] = NoLine /\ lines' = [lines EXCEPT ![k] = new]
  BY DEF CommitCreate
<1>4. new \in Line /\ new.allocated = c.amount
  BY <1>2 DEF Line
<1> HIDE DEF new, q, c
<1>5. /\ k \notin Live /\ k \in Live' /\ lines'[k] = new
      /\ \A l \in Lines \ {k} : lines'[l] = lines[l]
  BY <1>3, <1>4, TablesKept, NullsApart DEF Live
<1> QED BY <1>1, <1>2, <1>4, <1>5 DEF q, c

LEMMA AllocatedColumn ==
    ASSUME IInv, NEW s \in Sessions, Moves(s), NEW l \in Live'
    PROVE  \/ l \in Live /\ lines'[l].allocated = lines[l].allocated
           \/ CommitCreate(s) /\ l \notin Live
           \/ CommitUpdate(s) /\ l = session[s].row
<1>0. l \in Lines
  BY DEF Live
<1>1. CASE UNCHANGED lines
  BY <1>1 DEF Live
<1>2. CASE CommitCreate(s)
  <2>1. PICK k \in Lines : k \notin Live /\ \A m \in Lines \ {k} : lines'[m] = lines[m]
    BY <1>2, CreatedLine
  <2> QED BY <1>0, <1>2, <2>1 DEF Live
<1>3. CASE CommitUpdate(s)
  <2>1. \A m \in Lines \ {session[s].row} : lines'[m] = lines[m]
    BY <1>3, UpdatedLine, TablesKept
  <2> QED BY <1>0, <1>3, <2>1 DEF Live
<1>4. CASE CommitDelete(s)
  BY <1>0, <1>4, TablesKept DEF CommitDelete, Live
<1>5. CASE CommitPledge(s)
  <2>1. PICK k, n : k = session[s].row /\ n = session[s].call.amount
    OBVIOUS
  <2>2. /\ k \in Live /\ k \in Lines
        /\ lines' = [lines EXCEPT ![k] = Rewritten(k, "committed", lines[k].committed + n)]
    BY <1>5, <2>1, PledgedLine
  <2> QED BY <1>0, <2>2, TablesKept DEF Live, Rewritten
<1>6. CASE CommitConfirm(s)
  <2>1. PICK k, n : k = session[s].row /\ n = session[s].call.amount
    OBVIOUS
  <2>2. /\ k \in Live /\ k \in Lines
        /\ lines' = [lines EXCEPT ![k] = Rewritten(k, "reconciled", lines[k].reconciled + n)]
    BY <1>6, <2>1, ConfirmedLine
  <2> QED BY <1>0, <2>2, TablesKept DEF Live, Rewritten
<1> QED BY <1>1, <1>2, <1>3, <1>4, <1>5, <1>6, Writers

LEMMA UpdateFits ==
    ASSUME IInv, FinitelyMany, TypeOK', FinitelyMany', LinesGuarded(deployment), SpentFitsLine,
           NEW s \in Sessions, CommitUpdate(s), FitsLine(session[s]),
           NEW l \in Live', l = session[s].row
    PROVE  SpentOn(On(l))' <= lines'[l].allocated
<1> DEFINE q == session[s]
<1>1. /\ q # Idle /\ q.pc = "ready" /\ q.call.op \in {"update", "admin_update"} \cap deployment.ops
      /\ l \in Lines /\ q.call.amount \in Nat /\ alloc' = alloc
  BY Zenon, UpdatedLine DEF CommitUpdate
<1>2. Lessens(l) /\ On(l) \subseteq Allocated
  BY <1>1 DEF Lessens, On, Allocated
<1>3. FitsLine(q)
  OBVIOUS
<1>4. SpentOn(On(l)) \in Nat /\ SpentOn(On(l))' \in Nat /\ SpentOn(On(l))' <= SpentOn(On(l))
  BY <1>2, LessSpent
<1>5. CASE UNCHANGED lines
  <2>1. l \in Live /\ lines'[l].allocated = lines[l].allocated
    BY <1>5 DEF Live
  <2> QED BY <1>2, <2>1, RestFits DEF SpentFitsLine
<1>6. CASE ~ UNCHANGED lines
  <2>1. lines'[l].allocated = q.call.amount
    <3>1. lines' = [lines EXCEPT ![l] = Rewritten(l, "allocated", q.call.amount)]
      BY <1>6, UpdatedLine
    <3>2. lines'[l] = Rewritten(l, "allocated", q.call.amount)
      BY <1>1, <3>1, TablesKept
    <3> QED BY <3>2 DEF Rewritten
  <2>2. CASE q.call.op = "update"
    BY <1>1, <1>3, <1>4, <2>1, <2>2 DEF FitsLine
  <2>3. CASE q.call.op = "admin_update"
    <3>1. Allocated = {}
      BY <1>1, <2>3 DEF LinesGuarded, FinitelyMany
    <3>2. SpentOn(On(l)) = Total(Amount, {})
      BY <1>2, <3>1, SpentNow
    <3> QED BY <1>1, <1>4, <2>1, <3>2, TotalOfNone
  <2> QED BY <1>1, <2>2, <2>3
<1> QED BY <1>5, <1>6

LEMMA LinesStayFitted ==
    ASSUME IInv, FinitelyMany, TypeOK', FinitelyMany', LinesGuarded(deployment), SpentFitsLine,
           NEW s \in Sessions, Moves(s), session[s] # Idle => FitsLine(session[s])
    PROVE  SpentFitsLine'
<1> SUFFICES ASSUME NEW l \in Live' PROVE SpentOn(On(l))' <= lines'[l].allocated
  BY DEF SpentFitsLine
<1>1. l \in Lines
  BY DEF Live
<1>2. CASE CommitAllocate(s)
  <2>1. session[s] # Idle
    BY <1>2, AtWork DEF CommitAllocate
  <2> QED BY <1>2, <2>1, AllocateFits
<1>3. CASE CommitResize(s)
  <2>1. session[s] # Idle
    BY <1>3, AtWork DEF CommitResize
  <2> QED BY <1>3, <2>1, ResizeFits
<1>4. CASE ~ CommitAllocate(s) /\ ~ CommitResize(s)
  <2>1. Lessens(l)
    BY <1>1, <1>4, WhoAddsToALine
  <2>2. CASE l \in Live /\ lines'[l].allocated = lines[l].allocated
    BY <2>1, <2>2, RestFits DEF SpentFitsLine
  <2>3. CASE CommitCreate(s) /\ l \notin Live
    <3>1. On(l) = {}
      BY <2>3 DEF On, IInv, AllocationsHaveLines
    <3>2. SpentOn(On(l))' = Total(Amount', {})
      BY <2>1, <3>1, SpentNext DEF Lessens
    <3>3. lines'[l].allocated \in Nat
      BY <1>1 DEF TypeOK, Live, Line
    <3> QED BY <3>2, <3>3, TotalOfNone
  <2>4. CASE CommitUpdate(s) /\ l = session[s].row
    <3>1. session[s] # Idle
      BY <2>4, UpdatedLine
    <3> QED BY <2>4, <3>1, UpdateFits
  <2> QED BY <2>2, <2>3, <2>4, AllocatedColumn
<1> QED BY <1>2, <1>3, <1>4

LEMMA LineInvKept ==
    ASSUME IInv, FinitelyMany, IInv', FinitelyMany', LineInv,
           NEW s \in Sessions, Moves(s), deployment' = deployment
    PROVE  LineInv'
<1> SUFFICES ASSUME LinesGuarded(deployment)
             PROVE  /\ SpentFitsLine'
                    /\ \A t \in Sessions : session'[t] # Idle => FitsLine(session[t])'
  BY DEF LineInv
<1>1. TypeOK'
  BY DEF IInv
<1>2. SpentFitsLine'
  BY <1>1, LinesStayFitted DEF LineInv
<1>3. ASSUME NEW t \in Sessions, session'[t] # Idle PROVE FitsLine(session[t])'
  <2>1. CASE t = s
    BY <1>1, <1>3, <2>1, OwnFitsLine
  <2>2. CASE t # s
    <3>1. session'[t] = session[t]
      BY <2>2, MovesAreClean DEF Clean, OnlySession
    <3>2. PICK q \in Busy : q = session[t]
      BY <1>3, <3>1, IdleIsNotBusy DEF IInv
    <3>3. FitsLine(q)
      BY <1>3, <3>1, <3>2 DEF LineInv
    <3>4. FitsLine(q)'
      BY <1>1, <2>2, <3>2, <3>3, OthersFitLine
    <3> QED BY <3>1, <3>2, <3>4
  <2> QED BY <2>1, <2>2
<1> QED BY <1>2, <1>3

LEMMA LinesFit ==
    Spec => []LineInv
<1>1. Init => LineInv
  BY DEF Init, LineInv, SpentFitsLine, Live
<1>2. IInv /\ FinitelyMany /\ IInv' /\ FinitelyMany' /\ LineInv /\ [Next]_vars => LineInv'
  <2>1. IInv /\ FinitelyMany /\ IInv' /\ FinitelyMany' /\ LineInv /\ Next => LineInv'
    BY NextMoves, LineInvKept
  <2>2. IInv /\ FinitelyMany /\ IInv' /\ FinitelyMany' /\ LineInv /\ UNCHANGED vars => LineInv'
    <3> SUFFICES ASSUME IInv, FinitelyMany, IInv', FinitelyMany', LineInv, UNCHANGED vars
                 PROVE  LineInv'
      OBVIOUS
    <3>1. TypeOK'
      BY DEF IInv
    <3> QED BY <3>1, QuietSums DEF vars, LineInv, FitsLine, SpentFitsLine, Live
  <2> QED BY <2>1, <2>2
<1> QED BY <1>1, <1>2, Inductive, Finite, PTL DEF Spec

(* A budget line is never overspent, where no PUT shrinks lines under      *)
(* allocations and no resize runs beside another handler.                  *)
THEOREM LinesAreNotOverspent ==
    ASSUME \A d \in Deployments : LinesGuarded(d)
    PROVE  Spec => []SpentFitsLine
<1>1. IInv /\ LineInv => SpentFitsLine
  BY DEF IInv, TypeOK, LineInv
<1> QED BY <1>1, Inductive, LinesFit, PTL

------------------------------------------------------------------------------
(* Only unused lines are deleted.                                          *)

(* The admin route looks at the expenses of a line without locking it.     *)
DeletesGuarded(d) == {"admin_delete", "allocate"} \subseteq d.ops => d.workers = 1

SeesUnused(q) ==
    q.pc = "ready" /\ q.call.op \in {"delete", "admin_delete"} => On(q.row) = {}

DeleteInv ==
    DeletesGuarded(deployment) =>
        \A s \in Sessions : session[s] # Idle => SeesUnused(session[s])

LEMMA OthersSeeUnused ==
    ASSUME IInv, FinitelyMany, FinitelyMany', DeletesGuarded(deployment),
           NEW s \in Sessions, Moves(s), deployment' = deployment,
           NEW t \in Sessions \ {s}, NEW q \in Busy, session[t] = q, SeesUnused(q)
    PROVE  SeesUnused(q)'
<1> SUFFICES ASSUME q.pc = "ready", q.call.op \in {"delete", "admin_delete"},
                    On(q.row) = {}
             PROVE  On(q.row)' = {}
  BY DEF SeesUnused
<1>1. q # Idle /\ Sound(q) /\ q.call \in Call
  BY IdleIsNotBusy DEF IInv, SessionsSound, Busy
<1>2. q.row \in Lines
  BY <1>1, CallShape DEF Sound, Seen, LineOps
<1>3. CASE Lessens(q.row)
  BY <1>3 DEF Lessens
<1>4. CASE CommitResize(s)
  <2>1. session[s].call.op = "resize" /\ Sound(session[s])
    BY <1>4, AtWork DEF CommitResize
  <2>2. \A e \in Expenses : e \in Allocated' => e \in Allocated /\ alloc'[e].line = alloc[e].line
    BY <1>4, <2>1, TablesKept DEF CommitResize, Allocated, Sound, Alloc
  <2> QED BY <2>2 DEF On, Allocated
<1>5. CASE CommitAllocate(s) /\ session[s].row = q.row
  <2>1. /\ session[s].holds = {"grant", q.row} /\ session[s].call.op \in deployment.ops
        /\ s \in Working
    BY <1>5, AtWork, AllocatorsHoldTheirLine DEF CommitAllocate, Sound, Working
  <2>2. CASE q.call.op = "delete"
    <3>1. q.row \in q.holds
      BY <1>1, <2>2 DEF Sound, LocksOf, Seen, LineOps
    <3> QED BY <2>1, <3>1 DEF IInv, Exclusive
  <2>3. CASE q.call.op = "admin_delete"
    <3>1. session[s].call.op = "allocate"
      BY <1>5, AtWork DEF CommitAllocate
    <3>2. Serial
      BY <1>1, <2>1, <2>3, <3>1 DEF Sound, DeletesGuarded, Serial
    <3>3. t \in Working
      BY <1>1 DEF Working
    <3> QED BY <2>1, <3>2, <3>3 DEF FinitelyMany
  <2> QED BY <2>2, <2>3
<1> QED BY <1>2, <1>3, <1>4, <1>5, WhoAddsToALine

LEMMA OwnSeesUnused ==
    ASSUME IInv, NEW s \in Sessions, Moves(s), session'[s] # Idle
    PROVE  SeesUnused(session[s])'
<1>1. CASE session'[s].pc # "ready"
  BY <1>1 DEF SeesUnused
<1>2. CASE session'[s].pc = "ready"
  <2>1. PICK q \in Busy : q = session[s]
    BY <1>2, StillWorking
  <2>2. Pass(s) /\ UNCHANGED money /\ session'[s] = [q EXCEPT !.pc = "ready"]
    BY <1>2, <2>1, StillWorking
  <2>3. PICK r \in Busy : r = session'[s]
    BY <2>1, <2>2 DEF Busy
  <2>4. r.call = q.call /\ r.row = q.row
    BY <2>1, <2>2, <2>3 DEF Busy
  <2>5. q.call.op \in {"delete", "admin_delete"} => On(q.row) = {}
    BY <2>1, <2>2 DEF Pass, May
  <2>6. SeesUnused(r)'
    BY <2>2, <2>4, <2>5 DEF SeesUnused, On, Allocated, money
  <2> QED BY <2>3, <2>6
<1> QED BY <1>1, <1>2

LEMMA DeleteInvKept ==
    ASSUME IInv, FinitelyMany, FinitelyMany', DeleteInv,
           NEW s \in Sessions, Moves(s), deployment' = deployment
    PROVE  DeleteInv'
<1> SUFFICES ASSUME DeletesGuarded(deployment), NEW t \in Sessions, session'[t] # Idle
             PROVE  SeesUnused(session[t])'
  BY DEF DeleteInv
<1>1. CASE t = s
  BY <1>1, OwnSeesUnused
<1>2. CASE t # s
  <2>1. session'[t] = session[t]
    BY <1>2, MovesAreClean DEF Clean, OnlySession
  <2>2. PICK q \in Busy : q = session[t]
    BY <2>1, IdleIsNotBusy DEF IInv
  <2>3. SeesUnused(q)
    BY <2>1, <2>2 DEF DeleteInv
  <2>4. SeesUnused(q)'
    BY <1>2, <2>2, <2>3, OthersSeeUnused
  <2> QED BY <2>1, <2>2, <2>4
<1> QED BY <1>1, <1>2

LEMMA DeletesChecked ==
    Spec => []DeleteInv
<1>1. Init => DeleteInv
  BY DEF Init, DeleteInv
<1>2. IInv /\ FinitelyMany /\ FinitelyMany' /\ DeleteInv /\ [Next]_vars => DeleteInv'
  <2>1. IInv /\ FinitelyMany /\ FinitelyMany' /\ DeleteInv /\ Next => DeleteInv'
    BY NextMoves, DeleteInvKept
  <2>2. DeleteInv /\ UNCHANGED vars => DeleteInv'
    BY DEF vars, DeleteInv, SeesUnused, On, Allocated
  <2> QED BY <2>1, <2>2
<1> QED BY <1>1, <1>2, Inductive, Finite, PTL DEF Spec

LEMMA WhoDeletesALine ==
    ASSUME IInv, NEW s \in Sessions, Moves(s), deployment' = deployment,
           NEW l \in Live, lines'[l] = Gone
    PROVE  /\ session[s] # Idle /\ session[s].row = l /\ session[s].pc = "ready"
           /\ session[s].call.op \in {"delete", "admin_delete"}
<1>0. l \in Lines /\ lines[l] \in Line /\ lines[l] # Gone
  BY LiveIsLine DEF IInv, Live
<1>1. CASE CommitDelete(s)
  BY <1>0, <1>1, AtWork, TablesKept DEF CommitDelete
<1>2. CASE CommitCreate(s)
  BY <1>0, <1>2, CreatedLine
<1>3. CASE CommitUpdate(s)
  <2>1. CASE UNCHANGED lines
    BY <1>0, <2>1
  <2>2. CASE ~ UNCHANGED lines
    <3>1. lines' = [lines EXCEPT ![session[s].row] =
                       Rewritten(session[s].row, "allocated", session[s].call.amount)]
      BY <1>3, <2>2, UpdatedLine
    <3>2. /\ session[s].row \in Lines /\ lines[session[s].row] \in Line
          /\ session[s].call.amount \in Nat
      BY <1>3, <2>2, UpdatedLine, LiveIsLine DEF IInv
    <3>3. Rewritten(session[s].row, "allocated", session[s].call.amount) # Gone
      BY <3>2, OneColumn, NullsApart
    <3> QED BY <1>0, <3>1, <3>3, TablesKept
  <2> QED BY <2>1, <2>2
<1>4. CASE CommitPledge(s) \/ CommitConfirm(s)
  <2>1. \A m \in Lines \ {session[s].row} : lines'[m] = lines[m]
    BY <1>4, TablesKept DEF CommitPledge, CommitConfirm
  <2>2. lines'[session[s].row] \in Line
    <3>1. CASE CommitPledge(s)
      BY <3>1, PledgedLine, TablesKept
    <3>2. CASE CommitConfirm(s)
      BY <3>2, ConfirmedLine, TablesKept
    <3> QED BY <1>4, <3>1, <3>2
  <2> QED BY <1>0, <2>1, <2>2, NullsApart
<1> QED BY <1>0, <1>1, <1>2, <1>3, <1>4, Writers

(* A budget line is deleted only while no expense is allocated to it, where *)
(* the admin route does not delete beside an allocation.                   *)
THEOREM OnlyUnusedLinesAreDeleted ==
    ASSUME \A d \in Deployments : DeletesGuarded(d)
    PROVE  Spec => OnlyUnusedLinesGo
<1> DEFINE A == \A l \in Live : lines'[l] = Gone => On(l) = {}
<1>1. IInv /\ DeleteInv /\ [Next]_vars => [A]_vars
  <2> SUFFICES ASSUME IInv, DeleteInv, Next, NEW l \in Live, lines'[l] = Gone
               PROVE  On(l) = {}
    OBVIOUS
  <2>1. PICK s \in Sessions : Moves(s) /\ deployment' = deployment
    BY NextMoves
  <2>2. /\ session[s] # Idle /\ session[s].row = l /\ session[s].pc = "ready"
        /\ session[s].call.op \in {"delete", "admin_delete"}
    BY <2>1, WhoDeletesALine
  <2>3. DeletesGuarded(deployment)
    BY DEF IInv, TypeOK
  <2> QED BY <2>2, <2>3 DEF DeleteInv, SeesUnused
<1> QED BY <1>1, Inductive, DeletesChecked, PTL DEF Spec, OnlyUnusedLinesGo
------------------------------------------------------------------------------
(* The award stands once the grant is awarded, unless update_grant writes it. *)

SeesAward(q) ==
    /\ q.view.grant.awarded = grant.awarded
    /\ q.view.grant.status \notin Early
    /\ q.pc = "ready" /\ q.call.op = "advance" => q.call.status \notin Early \cup {"awarded"}

AwardStands ==
    Standing(deployment) =>
        /\ grant.status \notin Early
        /\ \A s \in Sessions : session[s] # Idle => SeesAward(session[s])

LEMMA AwardKept ==
    ASSUME IInv, AwardStands, Standing(deployment), NEW s \in Sessions, Moves(s)
    PROVE  grant'.awarded = grant.awarded /\ grant'.status \notin Early
<1>1. CASE CommitAdvance(s)
  <2>1. session[s] # Idle /\ session[s].pc = "ready" /\ session[s].call.op = "advance"
    BY <1>1, AtWork DEF CommitAdvance
  <2> QED BY <1>1, <2>1 DEF CommitAdvance, AwardStands, SeesAward
<1>2. CASE CommitEdit(s)
  BY <1>2, AtWork DEF CommitEdit, Sound, Standing
<1>3. CASE UNCHANGED grant
  BY <1>3 DEF AwardStands
<1> QED BY <1>1, <1>2, <1>3, Writers

LEMMA TransitionsFromLate ==
    \A old, new : <<old, new>> \in Transitions /\ old \notin Early
                      => new \notin Early \cup {"awarded"}
BY DEF Transitions, Early

LEMMA AwardStandsKept ==
    ASSUME IInv, AwardStands, NEW s \in Sessions, Moves(s), deployment' = deployment
    PROVE  AwardStands'
<1> SUFFICES ASSUME Standing(deployment)
             PROVE  /\ grant'.status \notin Early
                    /\ \A t \in Sessions : session'[t] # Idle => SeesAward(session[t])'
  BY DEF AwardStands
<1>1. grant'.status \notin Early /\ grant'.awarded = grant.awarded
  BY AwardKept
<1>2. ASSUME NEW t \in Sessions \ {s}, session'[t] # Idle PROVE SeesAward(session[t])'
  <2>1. session'[t] = session[t]
    BY MovesAreClean DEF Clean, OnlySession
  <2> QED BY <1>1, <1>2, <2>1 DEF AwardStands, SeesAward
<1>3. ASSUME session'[s] # Idle PROVE SeesAward(session[s])'
  <2>1. session \in [Sessions -> Busy \cup {Idle}] /\ UNCHANGED money
    BY <1>3, StillWorking DEF IInv, TypeOK
  <2>2. ASSUME session[s] # Idle PROVE session[s] \in Busy /\ SeesAward(session[s])
    BY <2>2, IdleIsNotBusy DEF AwardStands, IInv
  <2>3. CASE \E c \in Call : Load(s, c)
    BY <2>1, <2>3 DEF Load, SeesAward, AwardStands, money
  <2>4. CASE LockLine(s)
    <3>1. session[s] # Idle
      BY <2>4, AtWork DEF LockLine
    <3> QED BY <2>1, <2>2, <2>4, <3>1 DEF LockLine, AtLine, SeesAward, money
  <2>5. CASE Pass(s)
    <3>1. PICK q \in Busy : q = session[s] /\ SeesAward(q)
      BY <2>2, <2>5 DEF Pass
    <3>2. session'[s] = [q EXCEPT !.pc = "ready"]
      BY <2>1, <2>5, <3>1 DEF Pass
    <3>3. session'[s].view = q.view /\ session'[s].call = q.call
      BY <3>2 DEF Busy
    <3>4. q.call.op = "advance" => q.call.status \notin Early \cup {"awarded"}
      BY <2>5, <3>1, TransitionsFromLate DEF Pass, May, MayAdvance, SeesAward
    <3> QED BY <2>1, <3>1, <3>3, <3>4 DEF SeesAward, money
  <2>6. CASE FlushLine(s)
    <3>1. PICK q \in Busy : q = session[s] /\ SeesAward(q)
      <4>1. session[s] # Idle
        BY <2>6, AtWork DEF FlushLine
      <4> QED BY <2>2, <4>1
    <3>2. session'[s] = [q EXCEPT !.pc = "flushed", !.holds = @ \cup {q.row}]
      BY <2>1, <2>6, <3>1 DEF FlushLine
    <3>3. session'[s].view = q.view /\ session'[s].call = q.call /\ session'[s].pc = "flushed"
      BY <3>2 DEF Busy
    <3> QED BY <2>1, <3>1, <3>3 DEF SeesAward, money
  <2>7. ~ Finish(s)
    BY <1>3, <2>1 DEF Finish
  <2> QED BY Zenon, <2>3, <2>4, <2>5, <2>6, <2>7
          DEF Moves, Step, CommitDisburse, CommitCreate, CommitUpdate, CommitDelete,
              CommitAllocate, CommitResize, CommitRelease, CommitPledge, CommitConfirm,
              CommitAdvance, CommitEdit, Refuse, Crash
<1> QED BY <1>1, <1>2, <1>3

LEMMA TheAwardStands ==
    Spec => []AwardStands
<1>1. Init => AwardStands
  <2> SUFFICES ASSUME Init, Standing(deployment) PROVE AwardStands
    BY DEF AwardStands
  <2>1. grant.status \notin Early
    BY DEF Init, Standing
  <2> QED BY <2>1 DEF Init, AwardStands
<1>2. IInv /\ AwardStands /\ [Next]_vars => AwardStands'
  <2>1. IInv /\ AwardStands /\ Next => AwardStands'
    BY NextMoves, AwardStandsKept
  <2>2. AwardStands /\ UNCHANGED vars => AwardStands'
    BY DEF vars, AwardStands, SeesAward
  <2> QED BY <2>1, <2>2
<1> QED BY <1>1, <1>2, Inductive, PTL DEF Spec

------------------------------------------------------------------------------
(* The allocations together fit the award.                                 *)

(* Allocations lock the grant, which keeps them apart from each other; a   *)
(* resize locks it not.                                                    *)
AwardGuarded(d) ==
    "allocate" \in d.ops =>
        /\ Standing(d)
        /\ "resize" \in d.ops => d.workers = 1

FitsAward(q) ==
    q.pc = "ready" =>
        /\ q.call.op = "allocate" =>
              Within(SpentOn(Allocated) + Cost[q.call.expense], grant.awarded)
        /\ q.call.op = "resize" =>
              Within(SpentOn(Allocated \ {q.call.expense}) + q.call.amount, grant.awarded)

AwardInv ==
    AwardGuarded(deployment) /\ "allocate" \in deployment.ops =>
        /\ SpentFitsAward
        /\ \A s \in Sessions : session[s] # Idle => FitsAward(session[s])

LEMMA AwardIsNatural ==
    ASSUME IInv, grant.awarded # NoAward
    PROVE  grant.awarded \in Nat
BY DEF IInv, TypeOK, Grant

(* Nothing more is spent than before.                                      *)
SpendsLess == Allocated' \subseteq Allocated /\ \A e \in Allocated' : alloc'[e] = alloc[e]

LEMMA WhoSpends ==
    ASSUME NEW s \in Sessions, Moves(s), IInv
    PROVE  CommitResize(s) \/ CommitAllocate(s) \/ SpendsLess
<1>1. CASE CommitDelete(s)
  BY <1>1 DEF CommitDelete, SpendsLess, Allocated
<1>2. CASE CommitRelease(s)
  BY <1>2, TablesKept DEF CommitRelease, SpendsLess, Allocated
<1>3. CASE UNCHANGED alloc
  BY <1>3 DEF SpendsLess, Allocated
<1> QED BY <1>1, <1>2, <1>3, Writers

LEMMA LessSpentInAll ==
    ASSUME IInv, FinitelyMany, TypeOK', FinitelyMany', SpendsLess
    PROVE  /\ SpentOn(Allocated) \in Nat /\ SpentOn(Allocated)' \in Nat
           /\ SpentOn(Allocated)' <= SpentOn(Allocated)
BY PartSpent, SpentNow, SpentNext DEF SpendsLess

LEMMA OthersFitAward ==
    ASSUME IInv, FinitelyMany, TypeOK', FinitelyMany', AwardGuarded(deployment),
           "allocate" \in deployment.ops, grant'.awarded = grant.awarded,
           NEW s \in Sessions, Moves(s), deployment' = deployment,
           NEW t \in Sessions \ {s}, NEW q \in Busy, session[t] = q, FitsAward(q)
    PROVE  FitsAward(q)'
<1>0. q # Idle /\ Sound(q) /\ q.call \in Call /\ q.call.op \in deployment.ops
  BY IdleIsNotBusy DEF IInv, SessionsSound, Busy, Sound
<1>1. CASE q.call.op = "resize"
  <2>1. Serial
    BY <1>0, <1>1 DEF AwardGuarded, Serial
  <2>2. UNCHANGED money
    BY <1>0, <2>1, AloneOrQuiet
  <2> QED BY <1>1, <2>2, QuietSums DEF FitsAward, Within, money
<1>2. CASE q.call.op = "allocate" /\ q.pc = "ready"
  <2>1. q.holds = {"grant", q.row} /\ Cost[q.call.expense] \in Nat
    BY <1>0, <1>2, AllocatorsHoldTheirLine
  <2>2. ~ CommitResize(s)
    <3> SUFFICES ASSUME CommitResize(s) PROVE FALSE
      OBVIOUS
    <3>1. Sound(session[s]) /\ session[s].call.op = "resize" /\ session[s] # Idle
      BY AtWork DEF CommitResize
    <3>2. Serial /\ s \in Working /\ t \in Working
      BY <1>0, <3>1 DEF Sound, AwardGuarded, Serial, Working
    <3> QED BY <3>2 DEF FinitelyMany
  <2>3. ~ CommitAllocate(s)
    <3> SUFFICES ASSUME CommitAllocate(s) PROVE FALSE
      OBVIOUS
    <3>1. session[s].holds = {"grant", session[s].row}
      BY AtWork, AllocatorsHoldTheirLine DEF CommitAllocate
    <3> QED BY <2>1, <3>1 DEF IInv, Exclusive
  <2>4. /\ SpentOn(Allocated) \in Nat /\ SpentOn(Allocated)' \in Nat
        /\ SpentOn(Allocated)' <= SpentOn(Allocated)
    BY <2>2, <2>3, WhoSpends, LessSpentInAll
  <2>5. Within(SpentOn(Allocated) + Cost[q.call.expense], grant.awarded)
    BY <1>2 DEF FitsAward
  <2>6. grant'.awarded # NoAward =>
            SpentOn(Allocated)' + Cost[q.call.expense] <= grant'.awarded
    BY <2>1, <2>4, <2>5, AwardIsNatural DEF Within
  <2> QED BY <1>2, <2>6 DEF FitsAward, Within
<1> QED BY <1>1, <1>2 DEF FitsAward

LEMMA OwnFitsAward ==
    ASSUME IInv, FinitelyMany, TypeOK', FinitelyMany', AwardStands, Standing(deployment),
           NEW s \in Sessions, Moves(s), session'[s] # Idle
    PROVE  FitsAward(session[s])'
<1>1. CASE session'[s].pc # "ready"
  BY <1>1 DEF FitsAward
<1>2. CASE session'[s].pc = "ready"
  <2>1. PICK q \in Busy : q = session[s]
    BY <1>2, StillWorking
  <2>2. /\ Pass(s) /\ UNCHANGED money
        /\ session'[s] = [q EXCEPT !.pc = "ready"]
    BY <1>2, <2>1, StillWorking
  <2>3. PICK r \in Busy : r = session'[s]
    BY <2>1, <2>2 DEF Busy
  <2>4. r.call = q.call /\ r.row = q.row /\ r.pc = "ready"
    BY <2>1, <2>2, <2>3 DEF Busy
  <2>5. May(s) /\ q.view.grant.awarded = grant.awarded
    BY <2>1, <2>2 DEF Pass, AwardStands, SeesAward
  <2>6. q.call.op = "allocate" =>
           Within(SpentOn(Allocated) + Cost[q.call.expense], grant.awarded)
    BY <2>1, <2>5 DEF May, MayAllocate
  <2>7. q.call.op = "resize" =>
           Within(SpentOn(Allocated \ {q.call.expense}) + q.call.amount, grant.awarded)
    BY <2>1, <2>5 DEF May, MayResize
  <2>8. FitsAward(r)
    BY <2>4, <2>6, <2>7 DEF FitsAward
  <2>9. FitsAward(r)'
    BY <2>2, <2>8, QuietSums DEF FitsAward, Within, money
  <2> QED BY <2>3, <2>9
<1> QED BY <1>1, <1>2

LEMMA SpendingFitsAward ==
    ASSUME IInv, FinitelyMany, TypeOK', FinitelyMany', SpentFitsAward,
           grant'.awarded = grant.awarded,
           NEW s \in Sessions, Moves(s), session[s] # Idle => FitsAward(session[s])
    PROVE  SpentFitsAward'
<1>0. IsFiniteSet(Allocated') /\ \A e \in Allocated' : Amount'[e] \in Nat
  BY SpentNext
<1>1. CASE CommitAllocate(s)
  <2> DEFINE q == session[s]  x == q.call.expense
  <2>1. /\ q # Idle /\ q.call.op = "allocate" /\ q.pc = "ready"
        /\ x \in Expenses /\ Cost[x] \in Nat
    BY <1>1, AtWork, AllocatorsHoldTheirLine DEF CommitAllocate
  <2>2. /\ alloc' = [alloc EXCEPT ![x] = [line |-> q.row, amount |-> Cost[x]]]
        /\ alloc[x] = NoAlloc /\ q.row \in Live /\ q.row \in Lines
    BY <1>1 DEF CommitAllocate, Live
  <2>3. Within(SpentOn(Allocated) + Cost[x], grant.awarded)
    BY <2>1 DEF FitsAward
  <2> HIDE DEF q, x
  <2>4. /\ alloc'[x] = [line |-> q.row, amount |-> Cost[x]] /\ alloc'[x] \in Alloc
        /\ \A e \in Expenses \ {x} : alloc'[e] = alloc[e]
    BY <2>1, <2>2, TablesKept DEF Alloc
  <2>5. x \in Allocated' /\ Allocated' \ {x} = Allocated
    BY <2>1, <2>2, <2>4, NullsApart DEF Allocated
  <2>6. Amount'[x] = Cost[x] /\ \A e \in Allocated' \ {x} : Amount'[e] = Amount[e]
    BY <2>1, <2>4 DEF Amount, Allocated
  <2>7. /\ Total(Amount', Allocated') = Cost[x] + Total(Amount, Allocated)
        /\ Total(Amount, Allocated) \in Nat
    BY SMTT(30), <1>0, <2>5, <2>6, TotalWith
  <2>8. SpentOn(Allocated)' = Cost[x] + SpentOn(Allocated) /\ SpentOn(Allocated) \in Nat
    BY <2>7, SpentNow, SpentNext
  <2> QED BY <2>1, <2>3, <2>8 DEF SpentFitsAward, Within
<1>2. CASE CommitResize(s)
  <2> DEFINE q == session[s]  x == q.call.expense  n == q.call.amount
  <2>1. /\ q # Idle /\ q.call \in Call /\ Sound(q) /\ q.call.op = "resize" /\ q.pc = "ready"
    BY <1>2, AtWork DEF CommitResize
  <2>2. x \in Expenses /\ x \in Allocated /\ n \in Nat /\ alloc[x] \in Alloc
    BY <2>1, CallShape, ConstantsOK, TablesKept DEF Sound, Allocated
  <2>3. alloc' = [alloc EXCEPT ![x].amount = n]
    BY <1>2 DEF CommitResize
  <2>4. Within(SpentOn(Allocated \ {x}) + n, grant.awarded)
    BY <2>1 DEF FitsAward
  <2> HIDE DEF q, x, n
  <2>5. /\ alloc'[x].amount = n /\ alloc'[x] \in Alloc
        /\ \A e \in Expenses \ {x} : alloc'[e] = alloc[e]
    BY <2>2, <2>3, TablesKept DEF Alloc
  <2>6. x \in Allocated' /\ Allocated' = Allocated
    BY <2>2, <2>5, NullsApart DEF Allocated
  <2>7. Amount'[x] = n /\ \A e \in Allocated' \ {x} : Amount'[e] = Amount[e]
    BY <2>2, <2>5 DEF Amount, Allocated
  <2>8. /\ Total(Amount', Allocated') = n + Total(Amount, Allocated \ {x})
        /\ Total(Amount, Allocated \ {x}) \in Nat
    BY <1>0, <2>6, <2>7, TotalWith
  <2>9. SpentOn(Allocated \ {x}) = Total(Amount, Allocated \ {x})
    <3>1. Allocated \ {x} \in SUBSET Allocated
      OBVIOUS
    <3> QED BY <3>1, SpentNow
  <2>10. SpentOn(Allocated)' = Total(Amount', Allocated')
    BY SpentNext
  <2> QED BY <2>2, <2>4, <2>8, <2>9, <2>10 DEF SpentFitsAward, Within
<1>3. CASE SpendsLess
  BY <1>3, LessSpentInAll, AwardIsNatural DEF SpentFitsAward, Within
<1> QED BY <1>1, <1>2, <1>3, WhoSpends

LEMMA AwardInvKept ==
    ASSUME IInv, FinitelyMany, IInv', FinitelyMany', AwardStands, AwardInv,
           NEW s \in Sessions, Moves(s), deployment' = deployment
    PROVE  AwardInv'
<1> SUFFICES ASSUME AwardGuarded(deployment), "allocate" \in deployment.ops
             PROVE  /\ SpentFitsAward'
                    /\ \A t \in Sessions : session'[t] # Idle => FitsAward(session[t])'
  BY DEF AwardInv
<1>1. TypeOK' /\ Standing(deployment)
  BY DEF IInv, AwardGuarded
<1>2. grant'.awarded = grant.awarded
  BY <1>1, AwardKept
<1>3. SpentFitsAward'
  BY <1>1, <1>2, SpendingFitsAward DEF AwardInv
<1>4. ASSUME NEW t \in Sessions, session'[t] # Idle PROVE FitsAward(session[t])'
  <2>1. CASE t = s
    BY <1>1, <1>4, <2>1, OwnFitsAward
  <2>2. CASE t # s
    <3>1. session'[t] = session[t]
      BY <2>2, MovesAreClean DEF Clean, OnlySession
    <3>2. PICK q \in Busy : q = session[t]
      BY <1>4, <3>1, IdleIsNotBusy DEF IInv
    <3>3. FitsAward(q)
      BY <1>4, <3>1, <3>2 DEF AwardInv
    <3>4. FitsAward(q)'
      BY <1>1, <1>2, <2>2, <3>2, <3>3, OthersFitAward
    <3> QED BY <3>1, <3>2, <3>4
  <2> QED BY <2>1, <2>2
<1> QED BY <1>3, <1>4

LEMMA NothingSpent ==
    ASSUME IInv, FinitelyMany, Allocated = {} PROVE SpentFitsAward
<1>1. SpentOn(Allocated) = 0
  BY SpentNow, TotalOfNone
<1> QED BY <1>1, AwardIsNatural DEF SpentFitsAward, Within

LEMMA SpendingIsAwarded ==
    Spec => []AwardInv
<1>1. Init /\ IInv /\ FinitelyMany => AwardInv
  <2>1. Init => Allocated = {}
    BY DEF Init, Allocated
  <2> QED BY <2>1, NothingSpent DEF Init, AwardInv
<1>2. IInv /\ FinitelyMany /\ IInv' /\ FinitelyMany' /\ AwardStands /\ AwardInv
         /\ [Next]_vars => AwardInv'
  <2>1. IInv /\ FinitelyMany /\ IInv' /\ FinitelyMany' /\ AwardStands /\ AwardInv
           /\ Next => AwardInv'
    BY NextMoves, AwardInvKept
  <2>2. IInv /\ FinitelyMany /\ IInv' /\ FinitelyMany' /\ AwardInv
           /\ UNCHANGED vars => AwardInv'
    <3> SUFFICES ASSUME IInv, FinitelyMany, IInv', FinitelyMany', AwardInv, UNCHANGED vars
                 PROVE  AwardInv'
      OBVIOUS
    <3>1. TypeOK'
      BY DEF IInv
    <3> QED BY <3>1, QuietSums DEF vars, AwardInv, FitsAward, SpentFitsAward, Within
  <2> QED BY <2>1, <2>2
<1> QED BY <1>1, <1>2, Inductive, Finite, TheAwardStands, PTL DEF Spec

(* The expenses charged to the grant never exceed its award, where the     *)
(* award stands and no resize runs beside another handler.                 *)
THEOREM AwardIsNotOverspent ==
    ASSUME \A d \in Deployments : AwardGuarded(d)
    PROVE  Spec => []SpentFitsAward
<1>1. IInv /\ FinitelyMany /\ AwardInv => SpentFitsAward
  <2> SUFFICES ASSUME IInv, FinitelyMany, AwardInv PROVE SpentFitsAward
    OBVIOUS
  <2>1. AwardGuarded(deployment)
    BY DEF IInv, TypeOK
  <2>2. CASE "allocate" \notin deployment.ops
    BY <2>2, NothingSpent DEF FinitelyMany
  <2> QED BY <2>1, <2>2 DEF AwardInv
<1> QED BY <1>1, Inductive, Finite, SpendingIsAwarded, PTL
------------------------------------------------------------------------------
(* The lines and the disbursements fit the award.                          *)

(* What a handler that has passed its checks is about to add to the lines, *)
(* and to the disbursements.                                               *)
Raise(q) ==
    IF q.pc # "ready" THEN 0
    ELSE IF q.call.op \in {"create", "admin_create"} THEN q.call.amount
    ELSE IF q.call.op = "update" /\ q.call.amount > q.view.line.allocated
         THEN q.call.amount - q.view.line.allocated
    ELSE 0

Payment(q) ==
    IF q.pc = "ready" /\ q.call.op = "disburse" THEN q.call.amount ELSE 0

Raises == [s \in Sessions |-> Raise(session[s])]

Payments == [s \in Sessions |-> Payment(session[s])]

Steady(d) == Standing(d) /\ "admin_update" \notin d.ops

(* No handler adds more than the award, and what is there and what is      *)
(* about to be added stay within one award for each worker.                *)
Covered(total, more, award) ==
    /\ \A s \in Sessions : more[s] \in Nat /\ more[s] <= award
    /\ total + Total(more, Working) <= deployment.workers * award

BudgetInv ==
    Steady(deployment) /\ grant.awarded # NoAward =>
        /\ Covered(BudgetOf(Live), Raises, grant.awarded)
        /\ Covered(disbursed, Payments, grant.awarded)

LEMMA Multiplied ==
    ASSUME NEW a \in Nat, NEW m \in Nat, NEW n \in Nat, m <= n
    PROVE  /\ m * a \in Nat /\ n * a \in Nat /\ m * a <= n * a
           /\ (m + 1) * a = m * a + a
OBVIOUS

(* A session that ends adds at most what it was about to add.              *)
LEMMA FinisherAdds ==
    ASSUME NEW W, IsFiniteSet(W), NEW s \in W, NEW f, NEW g,
           \A t \in W : f[t] \in Nat, \A t \in W \ {s} : g[t] = f[t],
           NEW x \in Nat, NEW y \in Nat, y <= x + f[s]
    PROVE  y + Total(g, W \ {s}) <= x + Total(f, W)
<1>1. Total(f, W) = f[s] + Total(f, W \ {s})
  BY TotalSplit
<1>2. IsFiniteSet(W \ {s}) /\ \A t \in W \ {s} : g[t] \in Nat
  BY FS_Difference
<1>3. /\ Total(f, W \ {s}) \in Nat /\ Total(g, W \ {s}) \in Nat
      /\ Total(g, W \ {s}) <= Total(f, W \ {s})
  BY <1>2, TotalOnPart
<1>4. f[s] \in Nat
  OBVIOUS
<1> QED BY <1>1, <1>3, <1>4

(* A session that adds nothing, at work before or not.                     *)
LEMMA NobodyAdds ==
    ASSUME NEW W, IsFiniteSet(W), NEW s, NEW f, NEW g, NEW V, V \subseteq W \cup {s},
           IsFiniteSet(V), \A t \in W : f[t] \in Nat,
           \A t \in V \ {s} : g[t] = f[t], g[s] = 0
    PROVE  Total(g, V) \in Nat /\ Total(f, W) \in Nat /\ Total(g, V) <= Total(f, W)
<1>1. V \ {s} \in SUBSET W
  OBVIOUS
<1>2. /\ Total(f, W) \in Nat /\ Total(g, V \ {s}) \in Nat
      /\ Total(g, V \ {s}) <= Total(f, W)
  BY <1>1, TotalOnPart
<1>3. Total(g, V) = Total(g, V \ {s})
  <2>1. CASE s \in V
    <3>1. \A t \in V : g[t] \in Nat
      BY <1>1
    <3>2. Total(g, V) = g[s] + Total(g, V \ {s})
      BY <2>1, <3>1, TotalSplit
    <3> QED BY <1>2, <3>2
  <2>2. CASE s \notin V
    <3>1. V = V \ {s}
      BY <2>2
    <3> QED BY <3>1
  <2> QED BY <2>1, <2>2
<1> QED BY <1>2, <1>3

(* A session that compared its amount with the total: the others may each  *)
(* have done so too.                                                       *)
LEMMA CheckerAdds ==
    ASSUME NEW W, IsFiniteSet(W), NEW s \in W, NEW g, NEW a \in Nat, NEW p \in Nat,
           Cardinality(W) <= p, \A t \in W : g[t] \in Nat /\ g[t] <= a,
           NEW x \in Nat, x + g[s] <= a
    PROVE  x + Total(g, W) <= p * a
<1>1. Total(g, W) = g[s] + Total(g, W \ {s})
  BY TotalSplit
<1>2. IsFiniteSet(W \ {s}) /\ Cardinality(W \ {s}) = Cardinality(W) - 1
  BY FS_RemoveElement
<1>3. /\ Cardinality(W \ {s}) \in Nat /\ Total(g, W \ {s}) \in Nat
      /\ Total(g, W \ {s}) <= Cardinality(W \ {s}) * a
  BY <1>2, TotalAtMost
<1>4. Cardinality(W) \in Nat /\ Cardinality(W) = Cardinality(W \ {s}) + 1
  BY <1>2, <1>3, FS_CardinalityType
<1>5. PICK m \in Nat : m = Cardinality(W \ {s}) /\ m + 1 <= p /\ m + 1 \in Nat
  BY <1>3, <1>4
<1>6. m * a \in Nat /\ (m + 1) * a = m * a + a
  BY <1>5, Multiplied
<1>7. (m + 1) * a \in Nat /\ p * a \in Nat /\ (m + 1) * a <= p * a
  BY <1>5, Multiplied
<1>8. Total(g, W \ {s}) <= m * a
  BY <1>3, <1>5
<1>9. g[s] \in Nat
  OBVIOUS
<1> QED BY <1>1, <1>3, <1>6, <1>7, <1>8, <1>9

LEMMA PartBudget ==
    ASSUME IInv, FinitelyMany, TypeOK', FinitelyMany', Live' \subseteq Live,
           \A l \in Live' : lines'[l].allocated = lines[l].allocated
    PROVE  /\ BudgetOf(Live) \in Nat /\ BudgetOf(Live)' \in Nat
           /\ BudgetOf(Live)' <= BudgetOf(Live)
<1>1. IsFiniteSet(Live) /\ (\A l \in Live : Budgeted[l] \in Nat)
      /\ BudgetOf(Live) = Total(Budgeted, Live)
  BY BudgetNow
<1>2. BudgetOf(Live)' = Total(Budgeted', Live')
  BY BudgetNext
<1>3. \A l \in Live' : Budgeted'[l] = Budgeted[l]
  BY DEF Budgeted, Live
<1> QED BY <1>1, <1>2, <1>3, TotalOnPart

LEMMA BusyRaises ==
    ASSUME IInv, NEW s \in Sessions
    PROVE  Raise(session[s]) \in Nat /\ Payment(session[s]) \in Nat
<1>1. CASE session[s].pc # "ready"
  BY <1>1 DEF Raise, Payment
<1>2. CASE session[s].pc = "ready"
  <2>1. PICK q \in Busy : q = session[s] /\ q.call \in Call /\ Sound(q)
    BY <1>2, IdleIsNotBusy DEF IInv, SessionsSound, Busy
  <2>2. q.call.op \in {"create", "admin_create", "update", "disburse"} => q.call.amount \in Nat
    BY <2>1, CallShape, ConstantsOK
  <2>3. q.call.op = "update" => q.view.line \in Line /\ q.view.line.allocated \in Nat
    BY <2>1 DEF Sound, Seen, LineOps, Line
  <2>4. Raise(q) \in Nat
    BY <2>2, <2>3 DEF Raise
  <2>5. Payment(q) \in Nat
    BY <2>2 DEF Payment
  <2> QED BY <2>1, <2>4, <2>5
<1> QED BY <1>1, <1>2

(* The checks of a handler bound what it is about to add.                  *)
LEMMA CheckedAmounts ==
    ASSUME IInv, FinitelyMany, AwardStands, Steady(deployment), grant.awarded # NoAward,
           NEW s \in Sessions, session[s] # Idle, Pass(s),
           NEW r \in Busy, r = [session[s] EXCEPT !.pc = "ready"]
    PROVE  /\ Raise(r) = 0 \/ BudgetOf(Live) + Raise(r) <= grant.awarded
           /\ Payment(r) = 0 \/ disbursed + Payment(r) <= grant.awarded
<1>1. PICK q \in Busy : q = session[s] /\ q.call \in Call /\ Sound(q)
  BY IdleIsNotBusy DEF IInv, SessionsSound, Busy
<1>2. r.call = q.call /\ r.row = q.row /\ r.view = q.view /\ r.pc = "ready"
  BY <1>1 DEF Busy
<1>3. May(s) /\ q.view.grant.awarded = grant.awarded
  BY <1>1 DEF Pass, AwardStands, SeesAward, Steady
<1>4. CASE q.call.op \in {"create", "admin_create"}
  <2>1. Within(BudgetOf(Live) + q.call.amount, grant.awarded)
    BY <1>1, <1>3, <1>4 DEF May, MayCreate, Within
  <2>2. Raise(r) = q.call.amount /\ Payment(r) = 0
    BY <1>2, <1>4 DEF Raise, Payment
  <2> QED BY <2>1, <2>2 DEF Within
<1>5. CASE q.call.op = "update"
  <2>1. Payment(r) = 0
    BY <1>2, <1>5 DEF Payment
  <2>2. q.call.line = q.row /\ q.row \in Lines /\ q.view.line \in Line /\ q.call.amount \in Nat
    BY <1>1, <1>5, CallShape, ConstantsOK DEF Sound, Seen, LineOps
  <2>3. q.row \in Live /\ lines[q.row] = q.view.line
    BY <1>1, <1>5, <2>2 DEF Sound, LocksOf
  <2>4. PICK k \in Live : k = q.row
    BY <2>3
  <2>5. Within(BudgetOf(Live \ {k}) + q.call.amount, grant.awarded)
    BY <1>1, <1>3, <1>5, <2>2, <2>4 DEF May, MayUpdate
  <2>6. Budgeted[k] = q.view.line.allocated /\ q.view.line.allocated \in Nat
    BY <2>2, <2>3, <2>4 DEF Budgeted, Line
  <2>7. /\ BudgetOf(Live) = Total(Budgeted, Live)
        /\ BudgetOf(Live \ {k}) = Total(Budgeted, Live \ {k})
        /\ IsFiniteSet(Live) /\ IsFiniteSet(Live \ {k})
        /\ \A l \in Live : Budgeted[l] \in Nat
    <3>1. Live \ {k} \in SUBSET Live
      OBVIOUS
    <3> QED BY <3>1, BudgetNow
  <2>8. Total(Budgeted, Live) = Budgeted[k] + Total(Budgeted, Live \ {k})
    BY <2>7, TotalSplit
  <2>9. Total(Budgeted, Live \ {k}) \in Nat
    BY <2>7, UnitsFinite
  <2>10. Raise(r) = IF q.call.amount > q.view.line.allocated
                    THEN q.call.amount - q.view.line.allocated ELSE 0
    BY <1>2, <1>5 DEF Raise
  <2>11. BudgetOf(Live \ {k}) + q.call.amount <= grant.awarded
    BY <2>5 DEF Within
  <2>12. Raise(r) = 0 \/ BudgetOf(Live) + Raise(r) <= grant.awarded
    BY <2>2, <2>6, <2>7, <2>8, <2>9, <2>10, <2>11, AwardIsNatural
  <2> QED BY <2>1, <2>12
<1>6. CASE q.call.op = "disburse"
  <2>1. Within(disbursed + q.call.amount, grant.awarded)
    BY <1>1, <1>3, <1>6 DEF May, MayDisburse
  <2>2. Raise(r) = 0 /\ Payment(r) = q.call.amount
    BY <1>2, <1>6 DEF Raise, Payment
  <2> QED BY <2>1, <2>2 DEF Within
<1>7. CASE q.call.op \notin {"create", "admin_create", "update", "disburse"}
  BY <1>2, <1>7 DEF Raise, Payment
<1> QED BY <1>4, <1>5, <1>6, <1>7

(* The lines grow by no more than the writer was about to add.             *)
LEMMA LinesGrowAsRaised ==
    ASSUME IInv, FinitelyMany, TypeOK', FinitelyMany', "admin_update" \notin deployment.ops,
           NEW s \in Sessions, Moves(s)
    PROVE  /\ BudgetOf(Live) \in Nat /\ BudgetOf(Live)' \in Nat
           /\ BudgetOf(Live)' <= BudgetOf(Live) + Raise(session[s])
<1> DEFINE q == session[s]  n == q.call.amount
<1>0. /\ IsFiniteSet(Live') /\ \A l \in Live' : Budgeted'[l] \in Nat
      /\ BudgetOf(Live)' = Total(Budgeted', Live')
  BY BudgetNext
<1>1. /\ BudgetOf(Live) = Total(Budgeted, Live) /\ BudgetOf(Live) \in Nat
      /\ IsFiniteSet(Live) /\ \A l \in Live : Budgeted[l] \in Nat
  <2>1. /\ BudgetOf(Live) = Total(Budgeted, Live) /\ IsFiniteSet(Live)
        /\ \A l \in Live : Budgeted[l] \in Nat
    BY BudgetNow
  <2> QED BY <2>1, UnitsFinite
<1>2. Raise(session[s]) \in Nat
  BY BusyRaises
<1>3. CASE CommitCreate(s)
  <2>1. /\ q # Idle /\ q.pc = "ready" /\ n \in Nat /\ q.call.op \in {"create", "admin_create"}
    BY <1>3, CreatedLine
  <2>2. PICK k \in Lines : /\ k \notin Live /\ k \in Live' /\ lines'[k].allocated = n
                           /\ \A l \in Lines \ {k} : lines'[l] = lines[l]
    BY <1>3, CreatedLine
  <2>3. Raise(q) = n
    BY <2>1 DEF Raise
  <2> HIDE DEF q, n
  <2>4. Live' \ {k} = Live /\ \A l \in Live' : l \in Lines
    BY <2>2 DEF Live
  <2>5. Budgeted'[k] = n /\ \A l \in Live' \ {k} : Budgeted'[l] = Budgeted[l]
    BY <2>2, <2>4 DEF Budgeted
  <2>6. Total(Budgeted', Live') = n + Total(Budgeted, Live)
    BY <1>0, <2>2, <2>4, <2>5, TotalWith
  <2>7. Raise(session[s]) = n
    BY <2>3 DEF q
  <2> QED BY <1>0, <1>1, <2>1, <2>6, <2>7
<1>4. CASE CommitUpdate(s) /\ ~ UNCHANGED lines
  <2>1. /\ q # Idle /\ q.pc = "ready" /\ n \in Nat /\ q.call.op = "update"
        /\ q.row \in Lines /\ q.row \in Live
        /\ lines' = [lines EXCEPT ![q.row] = Rewritten(q.row, "allocated", n)]
    BY <1>4, UpdatedLine
  <2>2. lines[q.row] = q.view.line
    <3>1. PICK r \in Busy : r = q /\ r.call \in Call /\ Sound(r)
      BY <2>1, IdleIsNotBusy DEF IInv, SessionsSound, Busy
    <3> QED BY <2>1, <3>1 DEF Sound, Seen, LineOps, LocksOf
  <2>3. Raise(q) = IF n > q.view.line.allocated THEN n - q.view.line.allocated ELSE 0
    BY <2>1 DEF Raise
  <2>4. PICK k \in Lines : k = q.row
    BY <2>1
  <2>5. Raise(session[s]) = IF n > lines[k].allocated THEN n - lines[k].allocated ELSE 0
    BY <2>2, <2>3, <2>4
  <2> HIDE DEF q, n
  <2>6. /\ lines'[k] = Rewritten(k, "allocated", n)
        /\ \A l \in Lines \ {k} : lines'[l] = lines[l]
    BY <2>1, <2>4, TablesKept
  <2>7. Rewritten(k, "allocated", n) \in Line /\ Rewritten(k, "allocated", n).allocated = n
    BY <2>1, <2>4, LiveIsLine DEF IInv, Rewritten, Line
  <2>8. Live' = Live /\ k \in Live' /\ k \in Live
    BY <2>1, <2>4, <2>6, <2>7, NullsApart DEF Live
  <2>9. Budgeted'[k] = n /\ \A l \in Live' \ {k} : Budgeted'[l] = Budgeted[l]
    BY <2>6, <2>7 DEF Budgeted, Live
  <2>10. /\ Total(Budgeted', Live') = n + Total(Budgeted, Live \ {k})
         /\ Total(Budgeted, Live \ {k}) \in Nat
    BY <1>0, <2>8, <2>9, TotalWith
  <2>11. Total(Budgeted, Live) = Budgeted[k] + Total(Budgeted, Live \ {k})
    BY <1>1, <2>8, TotalSplit
  <2>12. Budgeted[k] = lines[k].allocated /\ Budgeted[k] \in Nat
    BY <1>1, <2>8 DEF Budgeted
  <2> QED BY <1>0, <1>1, <2>1, <2>5, <2>10, <2>11, <2>12
<1>5. CASE ~ CommitCreate(s) /\ (CommitUpdate(s) => UNCHANGED lines)
  <2>1. ASSUME NEW l \in Live' PROVE l \in Live /\ lines'[l].allocated = lines[l].allocated
    <3>1. CASE UNCHANGED lines
      BY <3>1 DEF Live
    <3>2. CASE ~ UNCHANGED lines
      BY <1>5, <3>2, AllocatedColumn
    <3> QED BY <3>1, <3>2
  <2>2. BudgetOf(Live)' \in Nat /\ BudgetOf(Live)' <= BudgetOf(Live)
    BY <2>1, PartBudget
  <2> QED BY <1>1, <1>2, <2>2
<1> QED BY <1>3, <1>4, <1>5

LEMMA DisbursementsGrowAsPaid ==
    ASSUME IInv, TypeOK', NEW s \in Sessions, Moves(s)
    PROVE  /\ disbursed \in Nat /\ disbursed' \in Nat
           /\ disbursed' <= disbursed + Payment(session[s])
<1>1. disbursed \in Nat /\ disbursed' \in Nat /\ Payment(session[s]) \in Nat
  BY BusyRaises DEF IInv, TypeOK
<1>2. CASE CommitDisburse(s)
  <2>1. session[s] # Idle /\ session[s].pc = "ready" /\ session[s].call.op = "disburse"
    BY <1>2, AtWork DEF CommitDisburse
  <2> QED BY <1>1, <1>2, <2>1 DEF CommitDisburse, Payment
<1>3. CASE UNCHANGED disbursed
  BY <1>1, <1>3
<1> QED BY <1>2, <1>3, Writers

(* What a step does to the amounts about to be added.                      *)
LEMMA Adding ==
    ASSUME IInv, FinitelyMany, FinitelyMany', AwardStands, Steady(deployment),
           grant.awarded # NoAward, deployment' = deployment,
           NEW s \in Sessions, Moves(s), session'[s] # Idle
    PROVE  /\ UNCHANGED money /\ Working' = Working \cup {s}
           /\ \/ Raises'[s] = 0
              \/ s \in Working /\ BudgetOf(Live) + Raises'[s] <= grant.awarded
           /\ \/ Payments'[s] = 0
              \/ s \in Working /\ disbursed + Payments'[s] <= grant.awarded
<1>1. UNCHANGED money
  BY StillWorking
<1>2. Working' = Working \cup {s}
  BY MovesAreClean DEF Clean, OnlySession, Working
<1>3. Raises'[s] = Raise(session'[s]) /\ Payments'[s] = Payment(session'[s])
  BY DEF Raises, Payments, Raise, Payment
<1>4. CASE session'[s].pc # "ready"
  BY <1>1, <1>2, <1>3, <1>4 DEF Raise, Payment
<1>5. CASE session'[s].pc = "ready"
  <2>1. PICK q \in Busy : q = session[s]
    BY <1>5, StillWorking
  <2>2. Pass(s) /\ session'[s] = [q EXCEPT !.pc = "ready"]
    BY <1>5, <2>1, StillWorking
  <2>3. PICK r \in Busy : r = session'[s]
    BY <2>1, <2>2 DEF Busy
  <2>4. session[s] # Idle /\ s \in Working
    BY <2>1, IdleIsNotBusy DEF Working
  <2>5. /\ Raise(r) = 0 \/ BudgetOf(Live) + Raise(r) <= grant.awarded
        /\ Payment(r) = 0 \/ disbursed + Payment(r) <= grant.awarded
    BY <2>1, <2>2, <2>3, <2>4, CheckedAmounts
  <2> QED BY <1>1, <1>2, <1>3, <2>3, <2>4, <2>5
<1> QED BY <1>4, <1>5

(* One total, with what is about to be added to it, over one step: of a    *)
(* session that ends, and of one that goes on.                             *)
LEMMA CoveredAtEnd ==
    ASSUME NEW S, NEW W, IsFiniteSet(W), W \subseteq S, NEW s \in W, NEW p \in Nat,
           NEW a \in Nat, NEW x \in Nat, NEW y \in Nat, NEW f, NEW g,
           \A t \in S : f[t] \in Nat, \A t \in S \ {s} : g[t] = f[t],
           x + Total(f, W) <= p * a, y <= x + f[s]
    PROVE  y + Total(g, W \ {s}) <= p * a
<1>1. y + Total(g, W \ {s}) <= x + Total(f, W)
  BY FinisherAdds
<1>2. Total(f, W) \in Nat /\ Total(g, W \ {s}) \in Nat
  <2>1. IsFiniteSet(W \ {s}) /\ \A t \in W \ {s} : g[t] \in Nat
    BY FS_Difference
  <2> QED BY <2>1, UnitsFinite
<1>3. p * a \in Nat
  BY Multiplied
<1> QED BY <1>1, <1>2, <1>3

LEMMA CoveredAtWork ==
    ASSUME NEW S, NEW W, IsFiniteSet(W), W \subseteq S, NEW s \in S, NEW p \in Nat,
           Cardinality(W) <= p, NEW a \in Nat, NEW x \in Nat, NEW f, NEW g,
           \A t \in S : f[t] \in Nat /\ f[t] <= a, \A t \in S : g[t] \in Nat,
           \A t \in S \ {s} : g[t] = f[t], x + Total(f, W) <= p * a,
           g[s] = 0 \/ (s \in W /\ x + g[s] <= a)
    PROVE  x + Total(g, W \cup {s}) <= p * a
<1>1. \A t \in S : g[t] \in Nat /\ g[t] <= a
  <2>1. g[s] <= a
    OBVIOUS
  <2> QED BY <2>1
<1>2. p * a \in Nat
  BY Multiplied
<1>3. IsFiniteSet(W \cup {s})
  BY FS_AddElement
<1>4. CASE g[s] = 0
  <2>1. /\ Total(g, W \cup {s}) \in Nat /\ Total(f, W) \in Nat
        /\ Total(g, W \cup {s}) <= Total(f, W)
    <3> DEFINE V == W \cup {s}
    <3>1. V \subseteq W \cup {s} /\ IsFiniteSet(V) /\ \A t \in V \ {s} : g[t] = f[t]
      BY <1>3
    <3> HIDE DEF V
    <3>2. Total(g, V) \in Nat /\ Total(f, W) \in Nat /\ Total(g, V) <= Total(f, W)
      BY <1>4, <3>1, NobodyAdds
    <3> QED BY <3>2 DEF V
  <2> QED BY <1>2, <2>1
<1>5. CASE s \in W /\ x + g[s] <= a
  <2>1. W \cup {s} = W
    BY <1>5
  <2>2. x + Total(g, W) <= p * a
    BY <1>1, <1>5, CheckerAdds
  <2> QED BY <2>1, <2>2
<1> QED BY <1>4, <1>5

AmountsAreNatural == \A t \in Sessions : Raises[t] \in Nat /\ Payments[t] \in Nat

LEMMA NaturalAmounts ==
    IInv => AmountsAreNatural
BY BusyRaises DEF AmountsAreNatural, Raises, Payments

LEMMA BudgetInvKept ==
    ASSUME IInv, FinitelyMany, IInv', FinitelyMany', AwardStands, BudgetInv,
           NEW s \in Sessions, Moves(s), deployment' = deployment
    PROVE  BudgetInv'
<1> SUFFICES ASSUME Steady(deployment), grant'.awarded # NoAward
             PROVE  /\ Covered(BudgetOf(Live), Raises, grant.awarded)'
                    /\ Covered(disbursed, Payments, grant.awarded)'
  BY DEF BudgetInv
<1>1. TypeOK' /\ Standing(deployment) /\ "admin_update" \notin deployment.ops
  BY DEF IInv, Steady
<1>2. grant'.awarded = grant.awarded /\ grant.awarded \in Nat /\ grant.awarded # NoAward
  BY <1>1, AwardKept, AwardIsNatural
<1>3. /\ Covered(BudgetOf(Live), Raises, grant.awarded)
      /\ Covered(disbursed, Payments, grant.awarded)
  BY <1>2 DEF BudgetInv
<1>4. /\ BudgetOf(Live) \in Nat /\ BudgetOf(Live)' \in Nat
      /\ BudgetOf(Live)' <= BudgetOf(Live) + Raise(session[s])
  BY <1>1, LinesGrowAsRaised
<1>5. /\ disbursed \in Nat /\ disbursed' \in Nat
      /\ disbursed' <= disbursed + Payment(session[s])
  BY <1>1, DisbursementsGrowAsPaid
<1>6. ASSUME NEW t \in Sessions
      PROVE  /\ Raises[t] = Raise(session[t]) /\ Payments[t] = Payment(session[t])
             /\ Raises'[t] = Raise(session'[t]) /\ Payments'[t] = Payment(session'[t])
  BY DEF Raises, Payments, Raise, Payment
<1>7. \A t \in Sessions : Raises'[t] \in Nat /\ Payments'[t] \in Nat
  <2>1. IInv'
    OBVIOUS
  <2>2. AmountsAreNatural'
    BY <2>1, NaturalAmounts, PTL
  <2> QED BY <2>2 DEF AmountsAreNatural
<1>8. \A t \in Sessions \ {s} : Raises'[t] = Raises[t] /\ Payments'[t] = Payments[t]
  <2>1. \A t \in Sessions \ {s} : session'[t] = session[t]
    BY MovesAreClean DEF Clean, OnlySession
  <2> QED BY <1>6, <2>1
<1>9. /\ IsFiniteSet(Working) /\ Working \subseteq Sessions
      /\ deployment.workers \in Nat /\ Cardinality(Working) <= deployment.workers
  BY WorkersAreNumbers DEF FinitelyMany, Working
<1> DEFINE p == deployment.workers  a == grant.awarded
           x == BudgetOf(Live)      y == BudgetOf(Live)'
<1>10. /\ \A t \in Sessions : Raises[t] \in Nat /\ Raises[t] <= a
       /\ \A t \in Sessions : Payments[t] \in Nat /\ Payments[t] <= a
       /\ x + Total(Raises, Working) <= p * a
       /\ disbursed + Total(Payments, Working) <= p * a
  BY <1>3 DEF Covered
<1> SUFFICES /\ Raises'[s] <= a /\ Payments'[s] <= a
             /\ y + Total(Raises', Working') <= p * a
             /\ disbursed' + Total(Payments', Working') <= p * a
  <2>1. /\ (\A t \in Sessions : Raises[t] \in Nat /\ Raises[t] <= grant.awarded)'
        /\ (\A t \in Sessions : Payments[t] \in Nat /\ Payments[t] <= grant.awarded)'
    BY <1>2, <1>7, <1>8, <1>10
  <2> QED BY <1>2, <2>1 DEF Covered, Total, Units
<1>11. CASE session'[s] = Idle
  <2>1. \A c \in Call : ~ Load(s, c)
    <3> SUFFICES ASSUME NEW c \in Call, Load(s, c) PROVE FALSE
      OBVIOUS
    <3>1. session'[s].pc = "loaded"
      BY DEF Load, IInv, TypeOK
    <3> QED BY <1>11, <3>1, IdleIsNotBusy
  <2>2. s \in Working
    BY <2>1, MoversWork
  <2>3. Working' = Working \ {s}
    BY <1>11, MovesAreClean DEF Clean, OnlySession, Working
  <2>4. Raises'[s] = 0 /\ Payments'[s] = 0
    BY <1>6, <1>11, IdleIsNotBusy DEF Raise, Payment
  <2>5. y <= x + Raises[s] /\ disbursed' <= disbursed + Payments[s] /\ x \in Nat /\ y \in Nat
    BY <1>4, <1>5, <1>6
  <2>6. Raises'[s] <= a /\ Payments'[s] <= a
    BY <1>2, <2>4
  <2> HIDE DEF p, a, x, y, Raises, Payments
  <2>7. p \in Nat /\ a \in Nat
    BY <1>2, <1>9 DEF p, a
  <2>8. y + Total(Raises', Working \ {s}) <= p * a
    BY <1>8, <1>9, <1>10, <2>2, <2>5, <2>7, CoveredAtEnd
  <2>9. disbursed' + Total(Payments', Working \ {s}) <= p * a
    BY <1>5, <1>8, <1>9, <1>10, <2>2, <2>5, <2>7, CoveredAtEnd
  <2> QED BY <2>3, <2>6, <2>8, <2>9
<1>12. CASE session'[s] # Idle
  <2>1. UNCHANGED money /\ Working' = Working \cup {s}
    BY <1>2, <1>12, Adding DEF Steady
  <2>2. Raises'[s] = 0 \/ (s \in Working /\ x + Raises'[s] <= a)
    BY <1>2, <1>12, Adding DEF Steady
  <2>3. Payments'[s] = 0 \/ (s \in Working /\ disbursed + Payments'[s] <= a)
    BY <1>2, <1>12, Adding DEF Steady
  <2>4. y = x /\ disbursed' = disbursed /\ x \in Nat
    BY <1>1, <1>4, <2>1, QuietSums DEF money
  <2> HIDE DEF p, a, x, y, Raises, Payments
  <2>5. p \in Nat /\ a \in Nat /\ Cardinality(Working) <= p
    BY <1>2, <1>9 DEF p, a
  <2>6. Raises'[s] <= a /\ Payments'[s] <= a
    BY <1>5, <1>7, <2>2, <2>3, <2>4, <2>5
  <2>7. x + Total(Raises', Working \cup {s}) <= p * a
    BY <1>7, <1>8, <1>9, <1>10, <2>2, <2>4, <2>5, CoveredAtWork
  <2>8. disbursed + Total(Payments', Working \cup {s}) <= p * a
    BY <1>5, <1>7, <1>8, <1>9, <1>10, <2>3, <2>5, CoveredAtWork
  <2> QED BY <2>1, <2>4, <2>6, <2>7, <2>8
<1> QED BY <1>11, <1>12

LEMMA BudgetIsCovered ==
    Spec => []BudgetInv
<1>1. Init /\ IInv /\ FinitelyMany => BudgetInv
  <2> SUFFICES ASSUME Init, IInv, FinitelyMany, grant.awarded # NoAward
               PROVE  /\ Covered(BudgetOf(Live), Raises, grant.awarded)
                      /\ Covered(disbursed, Payments, grant.awarded)
    BY DEF BudgetInv
  <2>1. Live = {} /\ Working = {}
    BY DEF Init, Live, Working
  <2>2. BudgetOf(Live) = 0 /\ disbursed = 0
    BY <2>1, BudgetNow, TotalOfNone DEF Init
  <2>3. \A s \in Sessions : Raises[s] = 0 /\ Payments[s] = 0
    BY IdleIsNotBusy DEF Init, Raises, Payments, Raise, Payment
  <2>4. Total(Raises, Working) = 0 /\ Total(Payments, Working) = 0
    BY <2>1, TotalOfNone
  <2>5. grant.awarded \in Nat /\ deployment.workers * grant.awarded \in Nat
    BY AwardIsNatural, WorkersAreNumbers, Multiplied
  <2> QED BY <2>2, <2>3, <2>4, <2>5 DEF Covered
<1>2. IInv /\ FinitelyMany /\ IInv' /\ FinitelyMany' /\ AwardStands /\ BudgetInv
         /\ [Next]_vars => BudgetInv'
  <2>1. IInv /\ FinitelyMany /\ IInv' /\ FinitelyMany' /\ AwardStands /\ BudgetInv
           /\ Next => BudgetInv'
    BY NextMoves, BudgetInvKept
  <2>2. IInv /\ FinitelyMany /\ IInv' /\ FinitelyMany' /\ BudgetInv
           /\ UNCHANGED vars => BudgetInv'
    <3> SUFFICES ASSUME IInv, FinitelyMany, IInv', FinitelyMany', BudgetInv, UNCHANGED vars
                 PROVE  BudgetInv'
      OBVIOUS
    <3>1. TypeOK'
      BY DEF IInv
    <3>2. BudgetOf(Live)' = BudgetOf(Live)
      BY <3>1, QuietSums DEF vars
    <3>3. Raises' = Raises /\ Payments' = Payments /\ Working' = Working
      BY DEF vars, Raises, Payments, Raise, Payment, Working
    <3> HIDE DEF Raises, Payments, Working
    <3> QED BY <3>2, <3>3 DEF vars, BudgetInv, Covered, Total, Units
  <2> QED BY <2>1, <2>2
<1> QED BY <1>1, <1>2, Inductive, Finite, TheAwardStands, PTL DEF Spec

(* The budget lines together, and the disbursements, stay within one award *)
(* for each worker, however many there are: the checks of create, update   *)
(* and disburse bound what each handler adds, and the award stands.        *)
THEOREM BudgetIsWithinAward ==
    Spec => []BudgetFitsAward
<1>1. IInv /\ FinitelyMany /\ BudgetInv => BudgetFitsAward
  <2> SUFFICES ASSUME IInv, FinitelyMany, BudgetInv, Steady(deployment), grant.awarded # NoAward
               PROVE  /\ BudgetOf(Live) <= deployment.workers * grant.awarded
                      /\ disbursed <= deployment.workers * grant.awarded
    BY DEF BudgetFitsAward, Steady
  <2>1. /\ Covered(BudgetOf(Live), Raises, grant.awarded)
        /\ Covered(disbursed, Payments, grant.awarded)
    BY DEF BudgetInv
  <2>2. IsFiniteSet(Working) /\ Working \subseteq Sessions
    BY DEF FinitelyMany, Working
  <2>3. Total(Raises, Working) \in Nat /\ Total(Payments, Working) \in Nat
    BY <2>1, <2>2, UnitsFinite DEF Covered
  <2>4. BudgetOf(Live) \in Nat /\ disbursed \in Nat
    <3>1. BudgetOf(Live) = Total(Budgeted, Live) /\ IsFiniteSet(Live)
          /\ \A l \in Live : Budgeted[l] \in Nat
      BY BudgetNow
    <3> QED BY <3>1, UnitsFinite DEF IInv, TypeOK
  <2>5. deployment.workers * grant.awarded \in Nat
    BY AwardIsNatural, WorkersAreNumbers, Multiplied
  <2> QED BY <2>1, <2>3, <2>4, <2>5 DEF Covered
<1> QED BY <1>1, Inductive, Finite, BudgetIsCovered, PTL
=============================================================================
