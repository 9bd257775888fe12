------------------------ MODULE ProviderSpend_proofs ------------------------
(***************************************************************************)
(* Proofs about ProviderSpend for every number of requests and processes,  *)
(* every amount, limit and lifetime: types, one call for one consumed      *)
(* authorization, what a known cost in the ledger means, and the two       *)
(* promises about sums, the caps of the limits and the floor of the        *)
(* balance.  The sums are folds, recursive functions on the subsets of a   *)
(* finite set; the first part shows by least counterexample that the       *)
(* recursion has one solution, and what follows for adding up amounts.     *)
(***************************************************************************)
EXTENDS ProviderSpend, FiniteSetTheorems, TLAPS

(* Of the sets of a family of finite sets one has no other within it.        *)
LEMMA SmallestSet ==
  ASSUME NEW F, F # {}, \A T \in F : IsFiniteSet(T)
  PROVE  \E T \in F : \A U \in F : U \subseteq T => U = T
<1> DEFINE S == UNION F
<1>1. IsWellFoundedOn(StrictSubsetOrdering(S), FiniteSubsetsOf(S)) /\ F \subseteq FiniteSubsetsOf(S)
  BY FS_StrictSubsetOrderingWellFounded DEF FiniteSubsetsOf
<1>2. PICK T \in F : \A U \in F : ~(<<U, T>> \in StrictSubsetOrdering(S))
  BY <1>1, WFMin
<1>3. \A U \in F : U \subseteq T => U = T
  BY <1>2 DEF StrictSubsetOrdering
<1> QED BY <1>3

(* What holds of a set once it holds of its proper subsets holds of every    *)
(* subset of a finite set.                                                   *)
LEMMA SubsetsFill ==
  ASSUME NEW S, IsFiniteSet(S), NEW G \in SUBSET (SUBSET S),
         \A T \in SUBSET S : (\A U \in SUBSET T : U # T => U \in G) => T \in G
  PROVE  G = SUBSET S
<1> DEFINE Bad == (SUBSET S) \ G
<1>1. SUFFICES ASSUME Bad # {} PROVE FALSE
  OBVIOUS
<1>2. \A T \in Bad : IsFiniteSet(T)
  BY FS_Subset
<1>3. PICK T \in Bad : \A U \in Bad : U \subseteq T => U = T
  <2> HIDE DEF Bad
  <2> QED BY <1>1, <1>2, SmallestSet
<1>4. \A U \in SUBSET T : U # T => U \in G
  BY <1>3
<1> QED BY <1>3, <1>4

(* A set of naturals with 0 and closed under successor holds them all.       *)
LEMMA NaturalsFill ==
  ASSUME NEW G \in SUBSET Nat, 0 \in G, \A n \in G : n + 1 \in G
  PROVE  G = Nat
<1> DEFINE F == {1..n : n \in Nat \ G}
<1>1. SUFFICES ASSUME Nat \ G # {} PROVE FALSE
  OBVIOUS
<1>2. F # {} /\ \A T \in F : IsFiniteSet(T)
  <2>2. \A n \in Nat \ G : IsFiniteSet(1..n)
    BY FS_Interval
  <2>3. F # {}
    BY <1>1
  <2> QED BY <2>2, <2>3
<1> HIDE DEF F
<1>3. PICK T \in F : \A U \in F : U \subseteq T => U = T
  BY <1>2, SmallestSet
<1>4. PICK m \in Nat \ G : T = 1..m
  BY DEF F
<1>5. m - 1 \in Nat \ G
  <2>1. m # 0
    BY <1>4
  <2>2. m - 1 \in Nat /\ (m - 1) + 1 = m
    BY <1>4, <2>1
  <2> QED BY <1>4, <2>2
<1>6. 1..(m - 1) \in F
  BY <1>5 DEF F
<1>7. 1..(m - 1) \subseteq 1..m /\ m \in 1..m /\ m \notin 1..(m - 1)
  BY <1>4, <1>5
<1> QED BY <1>3, <1>4, <1>6, <1>7

(* What can be added up: finitely many integers.                             *)
Summable(f, S) == IsFiniteSet(S) /\ \A x \in S : f[x] \in Int

(* The recursion of a sum has a solution.                                    *)
Adds(f, g, SS) ==
  \A s \in SS : g[s] = IF s = {} THEN 0
                       ELSE LET x == CHOOSE y \in s : TRUE IN f[x] + g[s \ {x}]

LEMMA SumRecursion ==
  ASSUME NEW S, NEW f, Summable(f, S)
  PROVE  \E g \in [SUBSET S -> Int] : Adds(f, g, SUBSET S)
<1> DEFINE Upto(n) == {s \in SUBSET S : Cardinality(s) <= n}
           Solved == {n \in Nat : \E g \in [Upto(n) -> Int] : Adds(f, g, Upto(n))}
<1>f. IsFiniteSet(S) /\ \A x \in S : f[x] \in Int
  BY DEF Summable
<1>1. \A T \in SUBSET S : IsFiniteSet(T) /\ Cardinality(T) \in Nat
  BY <1>f, FS_Subset, FS_CardinalityType
<1>2. 0 \in Solved
  <2>1. \A s \in Upto(0) : s = {}
    BY <1>1, FS_EmptySet
  <2>2. [s \in Upto(0) |-> 0] \in [Upto(0) -> Int] /\ Adds(f, [s \in Upto(0) |-> 0], Upto(0))
    BY <2>1 DEF Adds
  <2> QED BY <2>2
<1>3. ASSUME NEW n \in Solved PROVE n + 1 \in Solved
  <2>1. PICK g \in [Upto(n) -> Int] : Adds(f, g, Upto(n))
    OBVIOUS
  <2> DEFINE pick(s) == CHOOSE y \in s : TRUE
             value(s) == IF s = {} THEN 0 ELSE f[pick(s)] + g[s \ {pick(s)}]
             h == [s \in Upto(n + 1) |-> value(s)]
  <2>2. \A s \in Upto(n + 1) : s # {} => pick(s) \in s /\ pick(s) \in S
    OBVIOUS
  <2>3. \A s \in Upto(n + 1) : s # {} => s \ {pick(s)} \in Upto(n)
    <3> SUFFICES ASSUME NEW s \in Upto(n + 1), s # {} PROVE s \ {pick(s)} \in Upto(n)
      OBVIOUS
    <3> DEFINE x == pick(s)
    <3>1. x \in s
      OBVIOUS
    <3> HIDE DEF x
    <3>2. Cardinality(s \ {x}) = Cardinality(s) - 1
      BY <1>1, <3>1, FS_RemoveElement
    <3>3. Cardinality(s \ {x}) <= n
      BY <1>1, <3>2
    <3>4. s \ {x} \in Upto(n)
      BY <3>3
    <3> QED BY <3>4 DEF x
  <2>4. \A s \in Upto(n) : s \in Upto(n + 1) /\ value(s) = g[s]
    <3> SUFFICES ASSUME NEW s \in Upto(n) PROVE s \in Upto(n + 1) /\ value(s) = g[s]
      OBVIOUS
    <3>1. Cardinality(s) \in Nat /\ Cardinality(s) <= n /\ n \in Nat
      BY <1>1
    <3>2. s \in Upto(n + 1)
      BY <3>1
    <3>3. g[s] = value(s)
      BY <2>1 DEF Adds
    <3> QED BY <3>2, <3>3
  <2>5. h \in [Upto(n + 1) -> Int]
    BY <1>f, <2>2, <2>3
  <2>6. Adds(f, h, Upto(n + 1))
    <3> SUFFICES ASSUME NEW s \in Upto(n + 1)
                 PROVE  h[s] = IF s = {} THEN 0 ELSE f[pick(s)] + h[s \ {pick(s)}]
      BY DEF Adds
    <3>1. CASE s = {}
      BY <3>1
    <3>2. CASE s # {}
      <4>1. s \ {pick(s)} \in Upto(n)
        BY <2>3, <3>2
      <4>2. h[s \ {pick(s)}] = g[s \ {pick(s)}]
        BY <2>4, <4>1
      <4> QED BY <3>2, <4>2
    <3> QED BY <3>1, <3>2
  <2> HIDE DEF h, Upto
  <2> QED BY <2>5, <2>6
<1>4. Solved = Nat
  <2> HIDE DEF Solved
  <2>1. Solved \in SUBSET Nat
    BY DEF Solved
  <2> QED BY <1>2, <1>3, <2>1, NaturalsFill
<1>5. Upto(Cardinality(S)) = SUBSET S
  BY <1>f, FS_Subset, FS_CardinalityType
<1> HIDE DEF Upto
<1>6. Cardinality(S) \in Solved
  BY <1>f, <1>4, FS_CardinalityType
<1> QED BY <1>5, <1>6

(* It has one only.                                                          *)
LEMMA SolutionsAgree ==
  ASSUME NEW S, IsFiniteSet(S), NEW f, NEW g, NEW h,
         Adds(f, g, SUBSET S), Adds(f, h, SUBSET S)
  PROVE  \A T \in SUBSET S : g[T] = h[T]
<1> DEFINE Same == {T \in SUBSET S : g[T] = h[T]}
<1>1. ASSUME NEW T \in SUBSET S, \A U \in SUBSET T : U # T => U \in Same
      PROVE  T \in Same
  <2>1. CASE T = {}
    BY <2>1 DEF Adds
  <2>2. CASE T # {}
    <3> DEFINE x == CHOOSE y \in T : TRUE
    <3>1. T \ {x} \in SUBSET T /\ T \ {x} # T
      BY <2>2
    <3>2. g[T] = f[x] + g[T \ {x}] /\ h[T] = f[x] + h[T \ {x}]
      BY <2>2 DEF Adds
    <3>3. g[T \ {x}] = h[T \ {x}]
      BY <1>1, <3>1
    <3> QED BY <3>2, <3>3
  <2> QED BY <2>1, <2>2
<1>2. Same = SUBSET S
  <2> HIDE DEF Same
  <2>1. Same \in SUBSET (SUBSET S)
    BY DEF Same
  <2> QED BY <1>1, <2>1, SubsetsFill
<1> QED BY <1>2

(* The sums over the subsets of a set, as a function.                        *)
SumsAre(g, f, S) ==
  /\ g \in [SUBSET S -> Int] /\ Adds(f, g, SUBSET S)
  /\ \A T \in SUBSET S : SumFunctionOnSet(f, T) = g[T]

(* Its values are the sums.                                                  *)
LEMMA SumIsSolution ==
  ASSUME NEW S, NEW f, Summable(f, S)
  PROVE  \E g : SumsAre(g, f, S)
<1>1. PICK h \in [SUBSET S -> Int] : Adds(f, h, SUBSET S)
  BY SumRecursion
<1>2. ASSUME NEW T \in SUBSET S
      PROVE  SumFunctionOnSet(f, T) = h[T]
  <2> DEFINE Solution(g) ==
        g = [s \in SUBSET T |-> IF s = {} THEN 0
                                ELSE LET x == CHOOSE y \in s : TRUE IN f[x] + g[s \ {x}]]
             sum == CHOOSE g : Solution(g)
             k == [s \in SUBSET T |-> h[s]]
  <2>1. SUBSET T \subseteq SUBSET S
    OBVIOUS
  <2>2. \A s \in SUBSET T : s # {} => s \ {CHOOSE y \in s : TRUE} \in SUBSET T
    OBVIOUS
  <2>3. Solution(k)
    BY <1>1, <2>1, <2>2 DEF Adds
  <2>4. Solution(sum)
    <3> HIDE DEF Solution, k
    <3> QED BY <2>3
  <2>5. SumFunctionOnSet(f, T) = sum[T]
    BY DEF SumFunctionOnSet, FoldFunctionOnSet, MapThenFoldSet
  <2>6. Adds(f, sum, SUBSET T)
    BY <2>4 DEF Adds
  <2>7. Adds(f, h, SUBSET T)
    BY <1>1, <2>1 DEF Adds
  <2>8. IsFiniteSet(T)
    BY FS_Subset DEF Summable
  <2> HIDE DEF sum, k
  <2>9. sum[T] = h[T]
    BY <2>6, <2>7, <2>8, SolutionsAgree
  <2> QED BY <2>5, <2>9
<1> QED BY <1>1, <1>2 DEF SumsAre

(* Sums are integers; nothing adds up to 0.                                  *)
LEMMA SumInt ==
  ASSUME NEW S, NEW f, Summable(f, S)
  PROVE  /\ \A T \in SUBSET S : SumFunctionOnSet(f, T) \in Int
         /\ SumFunctionOnSet(f, {}) = 0
<1>a. PICK g : SumsAre(g, f, S)
  BY SumIsSolution
<1>1. /\ g \in [SUBSET S -> Int] /\ Adds(f, g, SUBSET S)
      /\ \A T \in SUBSET S : SumFunctionOnSet(f, T) = g[T]
  BY <1>a DEF SumsAre
<1>2. g[{}] = 0
  BY <1>1 DEF Adds
<1> QED BY <1>1, <1>2

(* Any element may be taken out first.                                       *)
LEMMA SumTakeOut ==
  ASSUME NEW S, NEW f, Summable(f, S), NEW T \in SUBSET S, NEW x \in T
  PROVE  SumFunctionOnSet(f, T) = f[x] + SumFunctionOnSet(f, T \ {x})
<1>a. PICK g : SumsAre(g, f, S)
  BY SumIsSolution
<1>1. /\ g \in [SUBSET S -> Int] /\ Adds(f, g, SUBSET S)
      /\ \A R \in SUBSET S : SumFunctionOnSet(f, R) = g[R]
  BY <1>a DEF SumsAre
<1> DEFINE Fine == {U \in SUBSET S : \A z \in U : g[U] = f[z] + g[U \ {z}]}
<1>2. ASSUME NEW U \in SUBSET S, \A V \in SUBSET U : V # U => V \in Fine
      PROVE  U \in Fine
  <2> SUFFICES ASSUME NEW z \in U PROVE g[U] = f[z] + g[U \ {z}]
    OBVIOUS
  <2> DEFINE y == CHOOSE v \in U : TRUE
  <2>1. y \in U /\ g[U] = f[y] + g[U \ {y}]
    BY <1>1 DEF Adds
  <2> HIDE DEF y
  <2>2. CASE z = y
    BY <2>1, <2>2
  <2>3. CASE z # y
    <3>1. U \ {z} \in Fine /\ y \in U \ {z} /\ U \ {y} \in Fine /\ z \in U \ {y}
      BY <1>2, <2>1, <2>3
    <3> DEFINE rest == g[(U \ {z}) \ {y}]
    <3>2. (U \ {z}) \ {y} = (U \ {y}) \ {z} /\ (U \ {z}) \ {y} \in SUBSET S
      OBVIOUS
    <3>3. f[z] \in Int /\ f[y] \in Int /\ rest \in Int
      BY <1>1, <2>1, <3>2 DEF Summable
    <3>4. g[U \ {z}] = f[y] + rest /\ g[U \ {y}] = f[z] + rest
      BY <3>1, <3>2
    <3> HIDE DEF rest
    <3>5. g[U] = f[y] + (f[z] + rest)
      BY <2>1, <3>4
    <3> QED BY <3>3, <3>4, <3>5
  <2> QED BY <2>2, <2>3
<1>3. Fine = SUBSET S
  <2> HIDE DEF Fine
  <2>1. Fine \in SUBSET (SUBSET S)
    BY DEF Fine
  <2> QED BY <1>2, <2>1, SubsetsFill DEF Summable
<1>4. T \ {x} \in SUBSET S /\ g[T] = f[x] + g[T \ {x}]
  BY <1>3
<1> QED BY <1>1, <1>4

(* Less in every place and over fewer places adds up to less.                *)
LEMMA SumMonotonic ==
  ASSUME NEW S, NEW f, NEW h, Summable(f, S), Summable(h, S),
         \A x \in S : f[x] \in Nat /\ h[x] \in Nat
  PROVE  \A U \in SUBSET S : \A T \in SUBSET U :
           (\A x \in T : f[x] <= h[x]) => SumFunctionOnSet(f, T) <= SumFunctionOnSet(h, U)
<1> DEFINE sf(T) == SumFunctionOnSet(f, T)
           sh(T) == SumFunctionOnSet(h, T)
           Fine == {U \in SUBSET S : \A T \in SUBSET U : (\A x \in T : f[x] <= h[x]) => sf(T) <= sh(U)}
<1>1. /\ \A T \in SUBSET S : sf(T) \in Int /\ sh(T) \in Int
      /\ sf({}) = 0 /\ sh({}) = 0
  BY SumInt
<1>2. ASSUME NEW T \in SUBSET S, NEW x \in T
      PROVE  sf(T) = f[x] + sf(T \ {x}) /\ sh(T) = h[x] + sh(T \ {x})
  BY SumTakeOut
<1> HIDE DEF sf, sh
<1>3. ASSUME NEW U \in SUBSET S, \A V \in SUBSET U : V # U => V \in Fine
      PROVE  U \in Fine
  <2> SUFFICES ASSUME NEW T \in SUBSET U, \A x \in T : f[x] <= h[x] PROVE sf(T) <= sh(U)
    OBVIOUS
  <2>1. CASE U = {}
    BY <1>1, <2>1
  <2>2. CASE U # {}
    <3>1. PICK x \in U : TRUE
      BY <2>2
    <3>2. U \ {x} \in Fine /\ T \ {x} \in SUBSET (U \ {x})
      BY <1>3, <3>1
    <3>3. sf(T \ {x}) <= sh(U \ {x})
      BY <3>2
    <3>4. sh(U) = h[x] + sh(U \ {x}) /\ f[x] \in Nat /\ h[x] \in Nat
            /\ sf(T \ {x}) \in Int /\ sh(U \ {x}) \in Int
      BY <1>1, <1>2
    <3>5. CASE x \in T
      <4>1. sf(T) = f[x] + sf(T \ {x}) /\ f[x] <= h[x]
        BY <1>2, <3>5
      <4> QED BY <3>3, <3>4, <4>1
    <3>6. CASE x \notin T
      <4>1. T \ {x} = T
        BY <3>6
      <4> QED BY <3>3, <3>4, <4>1
    <3> QED BY <3>5, <3>6
  <2> QED BY <2>1, <2>2
<1>4. Fine = SUBSET S
  <2> HIDE DEF Fine
  <2>1. Fine \in SUBSET (SUBSET S)
    BY DEF Fine
  <2> QED BY <1>3, <2>1, SubsetsFill DEF Summable
<1> QED BY <1>4 DEF sf, sh

-----------------------------------------------------------------------------
(* What a process that consumed an authorization may rely on.                *)
Spending ==
  /\ \A p \in Procs : procs[p].at # "idle" => procs[p].req \in Requests
  /\ \A p \in Procs : procs[p].at \in {"consumed", "called"} =>
       auths[procs[p].req].status = "consumed"
  /\ \A p \in Procs : procs[p].at = "consumed" =>
       /\ calls[procs[p].req] = 0
       /\ ledger[procs[p].req].state \in {"none", "pending"}
  /\ \A p \in Procs : procs[p].at = "called" => calls[procs[p].req] > 0
  /\ \A p, q \in Procs :
       procs[p].at \in {"consumed", "called"} /\ procs[q].at \in {"consumed", "called"}
         /\ procs[p].req = procs[q].req => p = q

(* How a request's authorization, its calls, its charge and its cost row     *)
(* relate.                                                                   *)
Related ==
  \A r \in Requests :
    /\ calls[r] <= 1
    /\ calls[r] > 0 => auths[r].status = "consumed"
    /\ charged[r] # NoCharge => calls[r] > 0
    /\ r \notin Credits /\ auths[r].status = "consumed" => ledger[r].state # "none"
    /\ ledger[r].state # "none" => auths[r].status = "consumed"
    /\ r \in Credits /\ ledger[r].state # "none" =>
         calls[r] > 0 /\ ledger[r].state # "pending"

Inv == TypeOK /\ Spending /\ Related /\ KnownCostsAreTrue

-----------------------------------------------------------------------------
LEMMA InitInv == Init => Inv
<1> SUFFICES ASSUME Init PROVE Inv
  OBVIOUS
<1>1. /\ NoAuth \in Auths /\ NoEntry \in Entries /\ Idle \in ProcStates
      /\ NoAuth.status = "none" /\ NoEntry.state = "none" /\ Idle.at = "idle"
  BY SpendAssumption DEF NoAuth, NoEntry, Idle, Auths, Entries, ProcStates, Statuses,
     Settlements, Places,
     Times
<1>2. TypeOK
  BY <1>1, SpendAssumption DEF Init, TypeOK, Times
<1>3. Spending /\ Related /\ KnownCostsAreTrue
  BY <1>1 DEF Init, Spending, Related,
       KnownCostsAreTrue, Overrun, MostUnnoticed
<1> QED BY <1>2, <1>3 DEF Inv

(* A process ends what it does.                                              *)
LEMMA RestFacts ==
  ASSUME TypeOK, NEW p \in Procs, Rest(p)
  PROVE  /\ procs' \in [Procs -> ProcStates] /\ procs'[p].at = "idle"
         /\ \A q \in Procs \ {p} : procs'[q] = procs[q]
<1>1. Idle \in ProcStates /\ Idle.at = "idle"
  BY SpendAssumption DEF Idle, ProcStates, Places, Times
<1> QED BY <1>1 DEF TypeOK, Rest

(* A process takes up a request.                                             *)
LEMMA AtFacts ==
  ASSUME NEW place \in Places, NEW r \in Requests
  PROVE  LET at == [Idle EXCEPT !.at = place, !.req = r]
         IN  at \in ProcStates /\ at.at = place /\ at.req = r
<1>1. Idle \in ProcStates
  BY SpendAssumption DEF Idle, ProcStates, Places, Times
<1>2. ASSUME NEW x \in ProcStates
      PROVE  LET y == [x EXCEPT !.at = place, !.req = r]
             IN  y \in ProcStates /\ y.at = place /\ y.req = r
  BY DEF ProcStates
<1> QED BY <1>1, <1>2

(* Steps that touch processes only, and none of them past consumption.       *)
LEMMA ProcessStep ==
  ASSUME Inv, NEW p \in Procs, procs' \in [Procs -> ProcStates],
         \A q \in Procs \ {p} : procs'[q] = procs[q],
         procs'[p].at \notin {"consumed", "called"},
         procs'[p].at # "idle" => procs'[p].req \in Requests,
         stale' \in SUBSET Requests,
         UNCHANGED <<now, auths, ledger, incidents, calls, charged, balance>>
  PROVE  Inv'
<1>1. TypeOK'
  BY DEF Inv, TypeOK
<1>2. Spending'
  BY DEF Inv, Spending
<1>3. Related' /\ KnownCostsAreTrue'
  BY DEF Inv, Related,
       KnownCostsAreTrue, Overrun, MostUnnoticed
<1> QED BY <1>1, <1>2, <1>3 DEF Inv

(* Issue, resume, cancel: nothing is consumed.                               *)
LEMMA IssueKeepsInv ==
  ASSUME Inv, NEW p \in Procs,
         (\E r \in Requests : Price(p, r) \/ Resume(p, r)) \/ Issue(p) \/ Cancel(p) \/ ReadClock(p)
           \/ GiveUp(p)
  PROVE  Inv'
<1>1. ASSUME NEW r \in Requests, Price(p, r)
      PROVE  Inv'
  <2>1. now \in Times /\ balance \in Int /\ 0 \in Int
    BY DEF Inv, TypeOK
  <2>2. [at |-> "priced", req |-> r, ts |-> now, seen |-> IF r \in Credits THEN balance ELSE 0] \in ProcStates
    BY <2>1 DEF ProcStates, Places
  <2>3. /\ procs' \in [Procs -> ProcStates] /\ procs'[p].at = "priced" /\ procs'[p].req = r
        /\ \A q \in Procs \ {p} : procs'[q] = procs[q]
    BY <1>1, <2>2 DEF Price, Inv, TypeOK
  <2> QED BY <1>1, <2>3, ProcessStep DEF Price, provider, Inv, TypeOK
<1>2. ASSUME NEW r \in Requests, Resume(p, r)
      PROVE  Inv'
  <2> DEFINE next == [Idle EXCEPT !.at = "issued", !.req = r]
  <2>1. next \in ProcStates /\ next.at = "issued" /\ next.req = r
    BY AtFacts DEF Places
  <2> HIDE DEF next
  <2>2. procs' = [procs EXCEPT ![p] = next]
    BY <1>2 DEF Resume, next
  <2>3. /\ procs' \in [Procs -> ProcStates] /\ procs'[p].at = "issued" /\ procs'[p].req = r
        /\ \A q \in Procs \ {p} : procs'[q] = procs[q]
    BY <2>1, <2>2 DEF Inv, TypeOK
  <2> QED BY <1>2, <2>3, ProcessStep DEF Resume, provider, Inv, TypeOK
<1>3. CASE Issue(p)
  <2> DEFINE r == procs[p].req
             ts == procs[p].ts
  <2>1. r \in Requests /\ ts \in Times
    BY <1>3 DEF Issue, Inv, Spending, TypeOK, ProcStates
  <2>2. CASE Allowed(r, ts, procs[p].seen)
    <3> DEFINE auth == [status |-> "authorized", issued |-> ts, expires |-> Expiry(ts)]
    <3>1. auth \in Auths /\ auth.status = "authorized"
      BY <2>1, SpendAssumption DEF Auths, Statuses, Times, Expiry
    <3>2. /\ auths' \in [Requests -> Auths] /\ auths'[r].status = "authorized"
          /\ \A x \in Requests \ {r} : auths'[x] = auths[x]
      BY <1>3, <2>1, <2>2, <3>1 DEF Issue, Inv, TypeOK
    <3> DEFINE next == [Idle EXCEPT !.at = "issued", !.req = r]
    <3>3. next \in ProcStates /\ next.at = "issued" /\ next.req = r
      BY <2>1, AtFacts DEF Places
    <3> HIDE DEF next
    <3>a. procs' = [procs EXCEPT ![p] = next]
      BY <1>3, <2>2 DEF Issue, next
    <3>4. /\ procs' \in [Procs -> ProcStates] /\ procs'[p].at = "issued" /\ procs'[p].req = r
          /\ \A q \in Procs \ {p} : procs'[q] = procs[q]
      BY <3>3, <3>a DEF Inv, TypeOK
    <3>5. auths[r].status = "none" /\ stale' \in SUBSET Requests
      BY <1>3, <2>1, <2>2 DEF Issue, Allowed, Inv, TypeOK
    <3>6. TypeOK'
      BY <1>3, <3>2, <3>4, <3>5 DEF Issue, provider, Inv, TypeOK
    <3>7. Spending'
      BY <1>3, <2>1, <3>2, <3>4, <3>5 DEF Issue, provider, Inv, Spending
    <3>8. Related' /\ KnownCostsAreTrue'
      BY <1>3, <2>1, <3>2, <3>5 DEF Issue, provider, Inv, Related,
       KnownCostsAreTrue, Overrun, MostUnnoticed
    <3> QED BY <3>6, <3>7, <3>8 DEF Inv
  <2>3. CASE ~Allowed(r, ts, procs[p].seen)
    BY <1>3, <2>3, RestFacts, ProcessStep DEF Issue, provider, Inv, TypeOK
  <2> QED BY <2>2, <2>3
<1>4. CASE Cancel(p)
  <2> DEFINE r == procs[p].req
  <2>1. r \in Requests
    BY <1>4 DEF Cancel, Inv, Spending
  <2>2. CASE auths[r].status = "authorized"
    <3>1. /\ auths' \in [Requests -> Auths] /\ auths'[r].status = "cancelled"
          /\ \A x \in Requests \ {r} : auths'[x] = auths[x]
      BY <1>4, <2>1, <2>2 DEF Cancel, Inv, TypeOK, Auths, Statuses
    <3>2. /\ procs' \in [Procs -> ProcStates] /\ procs'[p].at = "idle"
          /\ \A q \in Procs \ {p} : procs'[q] = procs[q]
      BY <1>4, RestFacts DEF Cancel, Inv
    <3>3. TypeOK'
      BY <1>4, <3>1, <3>2 DEF Cancel, provider, Inv, TypeOK
    <3>4. Spending'
      BY <1>4, <2>1, <2>2, <3>1, <3>2 DEF Cancel, provider, Inv, Spending
    <3>5. Related' /\ KnownCostsAreTrue'
      BY <1>4, <2>1, <2>2, <3>1 DEF Cancel, provider, Inv, Related,
       KnownCostsAreTrue, Overrun, MostUnnoticed
    <3> QED BY <3>3, <3>4, <3>5 DEF Inv
  <2>3. CASE auths[r].status # "authorized"
    BY <1>4, <2>3, RestFacts, ProcessStep DEF Cancel, provider, Inv, TypeOK
  <2> QED BY <2>2, <2>3
<1>5. CASE ReadClock(p)
  <2>1. /\ procs' \in [Procs -> ProcStates] /\ procs'[p].at = "timed" /\ procs'[p].req = procs[p].req
        /\ \A q \in Procs \ {p} : procs'[q] = procs[q]
    BY <1>5 DEF ReadClock, Inv, TypeOK, ProcStates, Places
  <2>2. procs[p].req \in Requests
    BY <1>5 DEF ReadClock, Inv, Spending
  <2> QED BY <1>5, <2>1, <2>2, ProcessStep DEF ReadClock, provider, Inv, TypeOK
<1>6. CASE GiveUp(p)
  BY <1>6, RestFacts, ProcessStep DEF GiveUp, provider, Inv, TypeOK
<1> QED BY <1>1, <1>2, <1>3, <1>4, <1>5, <1>6

(* Consuming an authorization and calling the provider.                      *)
LEMMA SpendKeepsInv ==
  ASSUME Inv, NEW p \in Procs, Consume(p) \/ Call(p)
  PROVE  Inv'
<1> DEFINE r == procs[p].req
<1>1. r \in Requests
  BY DEF Consume, Call, Inv, Spending
<1>2. CASE Consume(p) /\ ~Consumable(r, procs[p].ts)
  BY <1>2, RestFacts, ProcessStep DEF Consume, provider, Inv, TypeOK
<1>3. CASE Consume(p) /\ Consumable(r, procs[p].ts)
  <2> DEFINE next == [Idle EXCEPT !.at = "consumed", !.req = r]
  <2>a. /\ auths' = [auths EXCEPT ![r].status = "consumed"]
        /\ ledger' = IF r \in Credits THEN ledger ELSE [ledger EXCEPT ![r].state = "pending"]
        /\ procs' = [procs EXCEPT ![p] = next]
    BY <1>3 DEF Consume
  <2>1. /\ auths' \in [Requests -> Auths] /\ auths'[r].status = "consumed"
        /\ \A x \in Requests \ {r} : auths'[x] = auths[x]
    BY <1>1, <2>a DEF Inv, TypeOK, Auths, Statuses
  <2>2. /\ ledger' \in [Requests -> Entries]
        /\ r \in Credits => ledger'[r] = ledger[r]
        /\ r \notin Credits => ledger'[r].state = "pending"
        /\ \A x \in Requests \ {r} : ledger'[x] = ledger[x]
    BY <1>1, <2>a DEF Inv, TypeOK, Entries, Settlements
  <2>3. next \in ProcStates /\ next.at = "consumed" /\ next.req = r
    BY <1>1, AtFacts DEF Places
  <2> HIDE DEF next
  <2>4. /\ procs' \in [Procs -> ProcStates] /\ procs'[p].at = "consumed" /\ procs'[p].req = r
        /\ \A q \in Procs \ {p} : procs'[q] = procs[q]
    BY <2>a, <2>3 DEF Inv, TypeOK
  <2>5. auths[r].status = "authorized" /\ calls[r] = 0 /\ charged[r] = NoCharge /\ ledger[r].state = "none"
    BY <1>1, <1>3 DEF Consumable, Inv, Related, TypeOK
  <2>6. stale' \in SUBSET Requests
    BY <1>1, <1>3 DEF Consume, Inv, TypeOK
  <2>7. TypeOK'
    BY <1>3, <2>1, <2>2, <2>4, <2>6 DEF Consume, provider, Inv, TypeOK
  <2>8. Spending'
    <3>1. \A q \in Procs \ {p} :
            procs'[q].at \in {"consumed", "called"} => procs'[q].req # r
      BY <2>4, <2>5 DEF Inv, Spending
    <3>2. \A q \in Procs : procs'[q].at # "idle" => procs'[q].req \in Requests
      BY <1>1, <2>4 DEF Inv, Spending
    <3>3. UNCHANGED calls
      BY <1>3 DEF Consume, provider
    <3>4. \A q \in Procs \ {p} : procs'[q].at \in {"consumed", "called"} =>
            /\ auths'[procs'[q].req].status = "consumed"
            /\ ledger'[procs'[q].req] = ledger[procs'[q].req]
      BY <2>1, <2>2, <2>4, <3>1, <3>2 DEF Inv, Spending
    <3>5. ledger'[r].state \in {"none", "pending"}
      BY <2>2, <2>5
    <3> QED BY <2>1, <2>4, <2>5, <3>1, <3>2, <3>3, <3>4, <3>5 DEF Inv, Spending
  <2>9. Related' /\ KnownCostsAreTrue'
    BY <1>1, <1>3, <2>1, <2>2, <2>5 DEF Consume, provider, Inv, Related,
       KnownCostsAreTrue, Overrun, MostUnnoticed
  <2> QED BY <2>7, <2>8, <2>9 DEF Inv
<1>4. CASE Call(p)
  <2>1. /\ procs[p].at = "consumed" /\ calls[r] = 0 /\ auths[r].status = "consumed"
        /\ ledger[r].state \in {"none", "pending"}
    BY <1>4 DEF Call, Inv, Spending
  <2>2. /\ calls' \in [Requests -> Nat] /\ calls'[r] = 1
        /\ \A x \in Requests \ {r} : calls'[x] = calls[x]
    BY <1>1, <1>4, <2>1 DEF Call, Inv, TypeOK
  <2>3. /\ procs' \in [Procs -> ProcStates] /\ procs'[p].at = "called" /\ procs'[p].req = r
        /\ \A q \in Procs \ {p} : procs'[q] = procs[q]
    BY <1>4 DEF Call, Go, Inv, TypeOK, ProcStates, Places
  <2>4. TypeOK'
    BY <1>4, <2>2, <2>3 DEF Call, Inv, TypeOK
  <2>5. Spending'
    BY <1>1, <1>4, <2>1, <2>2, <2>3 DEF Call, Inv, Spending
  <2>6. Related' /\ KnownCostsAreTrue'
    BY <1>1, <1>4, <2>1, <2>2 DEF Call, Inv, Related,
       KnownCostsAreTrue, Overrun, MostUnnoticed, TypeOK
  <2> QED BY <2>4, <2>5, <2>6 DEF Inv
<1> QED BY <1>2, <1>3, <1>4

(* A cost is settled: only the ledger row and the incident of one request,   *)
(* that has been charged, change.                                            *)
LEMMA CostStep ==
  ASSUME Inv, NEW r \in Requests, calls[r] > 0,
         auths[r].status = "consumed",
         ledger' \in [Requests -> Entries], incidents' \in SUBSET Credits,
         \A x \in Requests \ {r} : ledger'[x] = ledger[x],
         incidents \subseteq incidents', incidents' \subseteq incidents \cup {r},
         r \in incidents' => r \in incidents \/ Overrun(r),
         ledger'[r].state # "none" \/ UNCHANGED ledger,
         r \in Credits => ledger'[r].state # "pending",
         ledger'[r].state = "known" =>
           \/ UNCHANGED ledger
           \/ /\ charged[r] # NoCharge /\ ledger'[r].net \in 0..charged[r]
              /\ r \in Credits => /\ ledger'[r].net = charged[r]
                                  /\ charged[r] <= MostUnnoticed(r) \/ r \in incidents',
         procs' \in [Procs -> ProcStates],
         \A q \in Procs : procs'[q] = procs[q] \/ procs'[q].at = "idle",
         UNCHANGED <<now, auths, calls, charged, balance, stale>>
  PROVE  Inv'
<1>1. TypeOK'
  BY DEF Inv, TypeOK
<1>2. Related'
  BY DEF Inv, Related
<1>3. Spending'
  BY DEF Inv, Spending, TypeOK
<1>4. KnownCostsAreTrue'
  <2>1. ASSUME NEW x \in Requests, ledger'[x].state = "known"
        PROVE  /\ IF calls[x] = 0 THEN ledger'[x].net = 0
                  ELSE charged[x] # NoCharge /\ ledger'[x].net \in 0..charged[x]
               /\ x \in Credits => /\ ledger'[x].net = charged[x]
                                   /\ charged[x] <= MostUnnoticed(x) \/ x \in incidents'
    <3>1. CASE ledger'[x] = ledger[x]
      BY <2>1, <3>1 DEF Inv, KnownCostsAreTrue
    <3>2. CASE ledger'[x] # ledger[x]
      BY <2>1, <3>2 DEF Inv, TypeOK
    <3> QED BY <3>1, <3>2
  <2>2. \A x \in incidents' : Overrun(x)
    BY DEF Inv, KnownCostsAreTrue
  <2> QED BY <2>1, <2>2 DEF KnownCostsAreTrue, Overrun, MostUnnoticed
<1> QED BY <1>1, <1>2, <1>3, <1>4 DEF Inv

(* The worker's evidence of a credit execution.                              *)
LEMMA EvidenceFacts ==
  ASSUME Inv, NEW r \in Credits, Evidence(r)
  PROVE  /\ ledger' \in [Requests -> Entries] /\ incidents' \in SUBSET Credits
         /\ \A x \in Requests \ {r} : ledger'[x] = ledger[x]
         /\ incidents \subseteq incidents' /\ incidents' \subseteq incidents \cup {r}
         /\ r \in incidents' => r \in incidents \/ Overrun(r)
         /\ ledger'[r].state # "none" \/ UNCHANGED ledger
         /\ ledger'[r].state # "pending"
         /\ ledger'[r].state = "known" =>
              \/ UNCHANGED ledger
              \/ /\ charged[r] # NoCharge /\ ledger'[r].net = charged[r]
                 /\ ledger'[r].net \in 0..charged[r]
                 /\ charged[r] <= MostUnnoticed(r) \/ r \in incidents'
<1>1. PICK known \in BOOLEAN, over \in BOOLEAN :
        /\ known \/ over => charged[r] # NoCharge
        /\ over => charged[r] > Amount[r]
        /\ known /\ ~over => charged[r] <= MostUnnoticed(r)
        /\ ledger' = CostEvent(r, known)
        /\ incidents' = IF over THEN incidents \cup {r} ELSE incidents
  BY DEF Evidence
<1>2. r \in Requests /\ (charged[r] # NoCharge => charged[r] \in Nat)
  BY SpendAssumption DEF Inv, TypeOK
<1>3. /\ incidents' \in SUBSET Credits /\ incidents \subseteq incidents'
      /\ incidents' \subseteq incidents \cup {r}
      /\ r \in incidents' => r \in incidents \/ Overrun(r)
  BY <1>1 DEF Inv, TypeOK, Overrun
<1>4. CASE ledger[r].state # "none"
  BY <1>1, <1>2, <1>3, <1>4 DEF CostEvent, Inv, TypeOK, Related
<1>5. CASE ledger[r].state = "none" /\ known
  <2>1. [state |-> "known", net |-> charged[r]] \in Entries
    BY <1>1, <1>2, <1>5 DEF Entries, Settlements
  <2>2. ledger' = [ledger EXCEPT ![r] = [state |-> "known", net |-> charged[r]]]
    BY <1>1, <1>5 DEF CostEvent
  <2>3. /\ ledger' \in [Requests -> Entries]
        /\ ledger'[r].state = "known" /\ ledger'[r].net = charged[r]
        /\ \A x \in Requests \ {r} : ledger'[x] = ledger[x]
    BY <1>2, <2>1, <2>2 DEF Inv, TypeOK
  <2>4. /\ charged[r] # NoCharge /\ charged[r] \in 0..charged[r]
        /\ charged[r] <= MostUnnoticed(r) \/ r \in incidents'
    BY <1>1, <1>2, <1>5
  <2> QED BY <1>3, <2>3, <2>4
<1>6. CASE ledger[r].state = "none" /\ ~known
  <2>1. [state |-> "unknown", net |-> 0] \in Entries
    BY DEF Entries, Settlements
  <2>2. ledger' = [ledger EXCEPT ![r] = [state |-> "unknown", net |-> 0]]
    BY <1>1, <1>6 DEF CostEvent
  <2>3. /\ ledger' \in [Requests -> Entries] /\ ledger'[r].state = "unknown"
        /\ \A x \in Requests \ {r} : ledger'[x] = ledger[x]
    BY <1>2, <2>1, <2>2 DEF Inv, TypeOK
  <2> QED BY <1>3, <2>3
<1> QED BY <1>4, <1>5, <1>6

LEMMA EvidenceKeepsInv ==
  ASSUME Inv, NEW p \in Procs, Record(p) \/ \E r \in Requests : RecordRecovered(p, r)
  PROVE  Inv'
<1>1. CASE Record(p)
  <2>1. /\ procs[p].req \in Credits /\ procs[p].req \in Requests
        /\ auths[procs[p].req].status = "consumed" /\ calls[procs[p].req] > 0
    BY <1>1 DEF Record, Inv, Spending
  <2> QED BY <1>1, <2>1, EvidenceFacts, RestFacts, CostStep DEF Record, provider, Inv
<1>2. ASSUME NEW r \in Requests, RecordRecovered(p, r)
      PROVE  Inv'
  BY <1>2, EvidenceFacts, CostStep DEF RecordRecovered, provider, Inv, TypeOK
<1> QED BY <1>1, <1>2

(* Settling a cost in dollars.                                               *)
LEMMA SettleFacts ==
  ASSUME Inv, NEW r \in Requests, NEW state \in Settlements, NEW net \in Nat, Settle(r, state, net)
  PROVE  /\ ledger' \in [Requests -> Entries]
         /\ \A x \in Requests \ {r} : ledger'[x] = ledger[x]
         /\ UNCHANGED ledger \/ (ledger'[r].state = state /\ ledger'[r].net = net)
<1>1. [state |-> state, net |-> net] \in Entries
  BY DEF Entries
<1> QED BY <1>1 DEF Settle, Inv, TypeOK

LEMMA DollarsKeepInv ==
  ASSUME Inv, (\E p \in Procs : Reconcile(p)) \/ \E r \in Requests : ReconcileLater(r)
  PROVE  Inv'
<1>1. ASSUME NEW p \in Procs, Reconcile(p)
      PROVE  Inv'
  <2> DEFINE r == procs[p].req
  <2>1. /\ r \in Requests /\ r \notin Credits /\ auths[r].status = "consumed" /\ Rest(p)
        /\ UNCHANGED <<now, auths, incidents, calls, charged, balance, stale>>
    BY <1>1 DEF Reconcile, Inv, Spending, provider
  <2>2. /\ procs' \in [Procs -> ProcStates] /\ procs'[p].at = "idle"
        /\ \A q \in Procs \ {p} : procs'[q] = procs[q]
    BY <2>1, RestFacts DEF Inv
  <2>3. CASE procs[p].at = "called" /\ Settle(r, "unknown", 0)
    <3>1. /\ ledger' \in [Requests -> Entries]
          /\ \A x \in Requests \ {r} : ledger'[x] = ledger[x]
          /\ UNCHANGED ledger \/ ledger'[r].state = "unknown"
      BY <2>1, <2>3, SettleFacts DEF Settlements
    <3>2. TypeOK'
      BY <2>1, <2>2, <3>1 DEF Inv, TypeOK
    <3>3. Spending'
      BY <2>1, <2>2, <2>3, <3>1 DEF Inv, Spending
    <3>4. Related' /\ KnownCostsAreTrue'
      BY <2>1, <3>1 DEF Inv, Related,
       KnownCostsAreTrue, Overrun, MostUnnoticed
    <3> QED BY <3>2, <3>3, <3>4 DEF Inv
  <2>4. CASE procs[p].at = "called" /\ charged[r] # NoCharge /\ Settle(r, "known", charged[r])
    <3>1. charged[r] \in Nat
      BY <2>1, <2>4 DEF Inv, TypeOK
    <3>2. /\ ledger' \in [Requests -> Entries]
          /\ \A x \in Requests \ {r} : ledger'[x] = ledger[x]
          /\ UNCHANGED ledger \/ (ledger'[r].state = "known" /\ ledger'[r].net = charged[r])
      BY <2>1, <2>4, <3>1, SettleFacts DEF Settlements
    <3>3. incidents' \in SUBSET Credits
      BY <2>1 DEF Inv, TypeOK
    <3>4. calls[r] > 0
      BY <2>4 DEF Inv, Spending
    <3> QED BY <2>1, <2>2, <2>4, <3>1, <3>2, <3>3, <3>4, CostStep
  <2>5. CASE procs[p].at = "consumed" /\ Settle(r, "known", 0)
    <3>1. calls[r] = 0
      BY <2>5 DEF Inv, Spending
    <3>2. /\ ledger' \in [Requests -> Entries]
          /\ \A x \in Requests \ {r} : ledger'[x] = ledger[x]
          /\ UNCHANGED ledger \/ (ledger'[r].state = "known" /\ ledger'[r].net = 0)
      BY <2>1, <2>5, SettleFacts DEF Settlements
    <3>3. TypeOK'
      BY <2>1, <2>2, <3>2 DEF Inv, TypeOK
    <3>4. Spending'
      BY <2>1, <2>2, <2>5, <3>2 DEF Inv, Spending
    <3>5. Related' /\ KnownCostsAreTrue'
      BY <2>1, <3>1, <3>2 DEF Inv, Related,
       KnownCostsAreTrue, Overrun, MostUnnoticed
    <3> QED BY <3>3, <3>4, <3>5 DEF Inv
  <2> QED BY <1>1, <2>3, <2>4, <2>5 DEF Reconcile
<1>2. ASSUME NEW r \in Requests, ReconcileLater(r)
      PROVE  Inv'
  <2>1. PICK refund \in {0, charged[r]} : Settle(r, "known", charged[r] - refund)
    BY <1>2 DEF ReconcileLater
  <2>2. charged[r] # NoCharge /\ charged[r] \in Nat /\ charged[r] - refund \in Nat
          /\ charged[r] - refund \in 0..charged[r]
    BY <1>2 DEF ReconcileLater, Inv, TypeOK
  <2>3. /\ ledger' \in [Requests -> Entries]
        /\ \A x \in Requests \ {r} : ledger'[x] = ledger[x]
        /\ UNCHANGED ledger \/ (ledger'[r].state = "known" /\ ledger'[r].net = charged[r] - refund)
    BY <2>1, <2>2, SettleFacts DEF Settlements
  <2>4. /\ auths[r].status = "consumed" /\ incidents' \in SUBSET Credits /\ calls[r] > 0
        /\ procs' \in [Procs -> ProcStates] /\ r \notin Credits
        /\ UNCHANGED <<now, auths, incidents, procs, calls, charged, balance, stale>>
    BY <1>2 DEF ReconcileLater, provider, Inv, Related, TypeOK
  <2> QED BY <2>2, <2>3, <2>4, CostStep
<1> QED BY <1>1, <1>2

(* The provider charges, and time passes.                                    *)
LEMMA WorldKeepsInv ==
  ASSUME Inv, (\E r \in Requests : ProviderCharges(r)) \/ Tick
  PROVE  Inv'
<1>1. ASSUME NEW r \in Requests, ProviderCharges(r)
      PROVE  Inv'
  <2>1. PICK c \in Charges[r] :
          /\ charged' = [charged EXCEPT ![r] = c]
          /\ balance' = IF r \in Credits THEN balance - c ELSE balance
    BY <1>1 DEF ProviderCharges
  <2>2. c \in Nat /\ c # NoCharge
    BY SpendAssumption
  <2>3. /\ charged' \in [Requests -> Nat \cup {NoCharge}] /\ balance' \in Int
        /\ \A x \in Requests \ {r} : charged'[x] = charged[x]
    BY <2>1, <2>2 DEF Inv, TypeOK
  <2>4. TypeOK'
    BY <1>1, <2>3 DEF ProviderCharges, Inv, TypeOK
  <2>5. Spending'
    BY <1>1 DEF ProviderCharges, Inv, Spending
  <2>6. Related'
    BY <1>1, <2>1, <2>2, <2>3 DEF ProviderCharges, Inv, Related, TypeOK
  <2>7. KnownCostsAreTrue'
    BY <1>1, <2>3 DEF ProviderCharges, Inv, Related,
       KnownCostsAreTrue, Overrun, MostUnnoticed, TypeOK
  <2> QED BY <2>4, <2>5, <2>6, <2>7 DEF Inv
<1>2. CASE Tick
  BY <1>2, SpendAssumption DEF Tick, provider, Inv, TypeOK, Times, Spending, Related,
     KnownCostsAreTrue, Overrun, MostUnnoticed
<1> QED BY <1>1, <1>2

LEMMA NextInv == Inv /\ [Next]_vars => Inv'
<1> SUFFICES ASSUME Inv, [Next]_vars PROVE Inv'
  OBVIOUS
<1>1. CASE UNCHANGED vars
  <2>1. TypeOK'
    BY <1>1 DEF vars, provider, Inv, TypeOK
  <2>2. Spending' /\ Related' /\ KnownCostsAreTrue'
    BY <1>1 DEF vars, provider, Inv, Spending, Related,
       KnownCostsAreTrue, Overrun, MostUnnoticed
  <2> QED BY <2>1, <2>2 DEF Inv
<1>2. CASE Next
  BY <1>2, IssueKeepsInv, SpendKeepsInv, EvidenceKeepsInv, DollarsKeepInv, WorldKeepsInv
  DEF Next
<1> QED BY <1>1, <1>2

\* The inductive invariant, for every behaviour.
THEOREM InvHolds == Spec => []Inv
<1> QED BY InitInv, NextInv, PTL DEF Spec

\* The table, the ledger and the processes are well typed (provider_spend.py,
\* all_provider_cost.py).
THEOREM TypeCorrect == Spec => []TypeOK
<1>1. Inv => TypeOK
  BY DEF Inv
<1> QED BY <1>1, InvHolds, PTL

\* An authorization pays for one call at most, and a call leaves only after it was
\* consumed and, in dollars, entered in the ledger, whatever races, is repeated or dies
\* (consume_provider_spend_authorization).
THEOREM PaysForOneCall == Spec => []PaidOnce
<1>1. Inv => PaidOnce
  BY DEF Inv, Related, PaidOnce
<1> QED BY <1>1, InvHolds, PTL

\* A cost the ledger calls known is what was charged in credits, lies between nothing and
\* the charge in dollars (a refund is taken off), and is nothing for a call never made.
\* Known credits above the quote times the jobs are an incident, and every incident is
\* about a charge above its quote (record_provider_execution, reconcile_paid_action_cost).
THEOREM KnownCostsHold == Spec => []KnownCostsAreTrue
<1>1. Inv => KnownCostsAreTrue
  BY DEF Inv
<1> QED BY <1>1, InvHolds, PTL

-----------------------------------------------------------------------------
(* A request that may stand above a limit: it cost more than its quote, or   *)
(* was consumed after it had expired.                                        *)
Excused(r) == auths[r].status = "consumed" /\ (Overrun(r) \/ r \in stale)

Windows(l) == {Window(l, t) : t \in Times}

CapsKept ==
  \A l \in Limits : \A w \in Windows(l) :
    \/ ReservedTotal(l, w, now) <= l.cap
    \/ \E r \in Counted(l, w, now) : Excused(r)

(* The clock an authorization is issued by is never ahead of time.           *)
Priced == \A p \in Procs : procs[p].at = "priced" => procs[p].ts <= now

(* What the sums run over.                                                   *)
Countable ==
  /\ Summable(Committed, Requests) /\ Summable(Amount, Requests)
  /\ \A r \in Requests : Committed[r] \in Nat /\ Amount[r] \in Nat
  /\ \A l \in Limits : l.cap \in Nat /\ l.covers \subseteq Requests
  /\ \A l \in Limits : \A w, t : Counted(l, w, t) \in SUBSET Requests

LEMMA CountableNow == TypeOK => Countable
<1> SUFFICES ASSUME TypeOK PROVE Countable
  OBVIOUS
<1>1. \A r \in Requests : Committed[r] \in Nat /\ Amount[r] \in Nat
  BY SpendAssumption DEF Committed, TypeOK, Entries
<1>2. Summable(Committed, Requests) /\ Summable(Amount, Requests)
  BY <1>1, SpendAssumption DEF Summable
<1>3. \A l \in Limits : l.cap \in Nat /\ l.covers \subseteq Requests
  BY SpendAssumption
<1>4. \A l \in Limits : \A w, t : Counted(l, w, t) \in SUBSET Requests
  BY <1>3 DEF Counted
<1> QED BY <1>1, <1>2, <1>3, <1>4 DEF Countable

LEMMA CountableLater == TypeOK' => Countable'
<1> QED BY CountableNow, PTL

(* A step that reserves nothing keeps the limits.                            *)
LEMMA NothingReserved ==
  ASSUME TypeOK, TypeOK', CapsKept,
         \A r \in Requests : Excused(r) => Excused(r)' /\ auths'[r].issued = auths[r].issued,
         \A r \in Requests : Counts(r, now)' =>
           \/ /\ Counts(r, now) /\ auths'[r].issued = auths[r].issued
              /\ Committed'[r] <= Committed[r]
           \/ Excused(r)'
  PROVE  CapsKept'
<1> SUFFICES ASSUME NEW l \in Limits, NEW w \in Windows(l),
                    ~ \E r \in Counted(l, w, now)' : Excused(r)'
             PROVE  ReservedTotal(l, w, now)' <= l.cap
  BY DEF CapsKept, Windows, Window
<1>c. Countable /\ Countable'
  BY CountableNow, CountableLater
<1> DEFINE before == Counted(l, w, now)
           after == Counted(l, w, now)'
<1>1. after \subseteq before /\ \A r \in after : Committed'[r] <= Committed[r]
  BY <1>c DEF Countable, Counted, Window
<1>2. ~ \E r \in before : Excused(r)
  BY <1>c DEF Countable, Counted, Counts, Excused, Window
<1>3. ReservedTotal(l, w, now) <= l.cap
  BY <1>2 DEF CapsKept
<1>4. before \in SUBSET Requests /\ after \in SUBSET before
  BY <1>1, <1>c DEF Countable
<1>5. /\ Summable(Committed, Requests) /\ Summable(Committed', Requests)
      /\ \A r \in Requests : Committed[r] \in Nat /\ Committed'[r] \in Nat
  BY <1>c DEF Countable
<1> HIDE DEF before, after
<1>6. SumFunctionOnSet(Committed', after) <= SumFunctionOnSet(Committed, before)
  BY <1>1, <1>4, <1>5, SumMonotonic
<1>7. SumFunctionOnSet(Committed, before) \in Int /\ SumFunctionOnSet(Committed', after) \in Int
        /\ l.cap \in Int
  BY <1>4, <1>5, <1>c, SumInt DEF Countable
<1>8. ReservedTotal(l, w, now)' = SumFunctionOnSet(Committed', after)
  BY DEF ReservedTotal, after
<1>9. ReservedTotal(l, w, now) = SumFunctionOnSet(Committed, before)
  BY DEF ReservedTotal, before
<1> QED BY <1>3, <1>6, <1>7, <1>8, <1>9

(* A step that leaves the authorizations alone.                              *)
LEMMA CostsOnly ==
  ASSUME TypeOK, TypeOK', CapsKept, UNCHANGED <<auths, stale>>, now <= now',
         \A r \in Requests : Overrun(r) => Overrun(r)',
         \A r \in Requests :
           \/ ledger'[r] = ledger[r] \/ r \in Credits
           \/ /\ auths[r].status = "consumed" /\ ledger[r].state # "known"
              /\ ledger'[r].state = "known" => ledger'[r].net <= Amount[r] \/ Overrun(r)'
  PROVE  CapsKept'
<1>1. \A r \in Requests : Excused(r) => Excused(r)'
  BY DEF Excused
<1>2. \A r \in Requests : Counts(r, now)' => Counts(r, now)
  <2>1. \A r \in Requests : auths[r].expires \in Nat
    BY SpendAssumption DEF TypeOK, Auths
  <2>2. now \in Nat /\ now' \in Nat
    BY SpendAssumption DEF TypeOK, Times
  <2> QED BY <2>1, <2>2 DEF Counts
<1>3. ASSUME NEW r \in Requests
      PROVE  Committed'[r] <= Committed[r] \/ Excused(r)'
  <2>1. Committed[r] \in Nat /\ Committed'[r] \in Nat
    BY CountableNow, CountableLater DEF Countable
  <2>2. CASE ledger'[r] = ledger[r]
    BY <2>1, <2>2 DEF Committed
  <2>3. CASE r \in Credits
    BY <2>1, <2>3 DEF Committed
  <2>4. CASE r \notin Credits /\ ledger'[r] # ledger[r]
    <3>1. Committed[r] = Amount[r]
      BY <2>4 DEF Committed
    <3>2. CASE ledger'[r].state # "known"
      BY <2>1, <3>1, <3>2 DEF Committed
    <3>3. CASE ledger'[r].state = "known" /\ ledger'[r].net <= Amount[r]
      BY <2>1, <2>4, <3>1, <3>3 DEF Committed
    <3>4. CASE Overrun(r)'
      BY <2>4, <3>4 DEF Excused
    <3> QED BY <2>4, <3>2, <3>3, <3>4
  <2> QED BY <2>2, <2>3, <2>4
<1> QED BY <1>1, <1>2, <1>3, NothingReserved

(* Evidence, settlements, the provider and time: the authorizations stay.    *)
LEMMA CostsKeepCaps ==
  ASSUME Inv, Inv', CapsKept,
         \/ \E p \in Procs : Record(p) \/ Reconcile(p)
         \/ \E p \in Procs, r \in Requests : RecordRecovered(p, r)
         \/ \E r \in Requests : ReconcileLater(r) \/ ProviderCharges(r)
         \/ UNCHANGED <<auths, ledger, charged, stale>> /\ now' \in {now, now + 1}
  PROVE  CapsKept'
<1>a. TypeOK /\ TypeOK' /\ now \in Nat
  BY SpendAssumption DEF Inv, TypeOK, Times
<1>1. ASSUME NEW r \in Credits, Evidence(r), UNCHANGED <<now, auths, charged, stale>>
      PROVE  CapsKept'
  <2>1. \A x \in Requests : ledger'[x] = ledger[x] \/ x \in Credits
    BY <1>1, <1>a DEF Evidence, CostEvent, TypeOK
  <2> QED BY <1>1, <1>a, <2>1, CostsOnly DEF Overrun
<1>2. ASSUME NEW r \in Requests, r \notin Credits, auths[r].status = "consumed",
             NEW state \in Settlements, NEW net \in Nat, Settle(r, state, net),
             state = "known" => net <= Amount[r] \/ Overrun(r),
             UNCHANGED <<now, auths, charged, stale>>
      PROVE  CapsKept'
  <2>1. \A x \in Requests \ {r} : ledger'[x] = ledger[x]
    BY <1>2, SettleFacts
  <2>2. \/ ledger'[r] = ledger[r]
        \/ ledger[r].state # "known" /\ ledger'[r].state = state /\ ledger'[r].net = net
    BY <1>2, <1>a DEF Settle, Unsettled, TypeOK
  <2>3. \A x \in Requests : Overrun(x)' <=> Overrun(x)
    BY <1>2 DEF Overrun
  <2>4. \A x \in Requests :
          \/ ledger'[x] = ledger[x] \/ x \in Credits
          \/ /\ auths[x].status = "consumed" /\ ledger[x].state # "known"
             /\ ledger'[x].state = "known" => ledger'[x].net <= Amount[x] \/ Overrun(x)'
    BY <1>2, <2>1, <2>2, <2>3
  <2> QED BY <1>2, <1>a, <2>3, <2>4, CostsOnly
<1>3. ASSUME NEW p \in Procs, Record(p)
      PROVE  CapsKept'
  BY <1>1, <1>3 DEF Record, provider
<1>4. ASSUME NEW p \in Procs, NEW r \in Requests, RecordRecovered(p, r)
      PROVE  CapsKept'
  BY <1>1, <1>4 DEF RecordRecovered, provider
<1>5. ASSUME NEW p \in Procs, Reconcile(p)
      PROVE  CapsKept'
  <2> DEFINE r == procs[p].req
  <2>1. /\ r \in Requests /\ r \notin Credits /\ auths[r].status = "consumed"
        /\ UNCHANGED <<now, auths, charged, stale>>
    BY <1>5 DEF Reconcile, Inv, Spending, provider
  <2>2. /\ "known" \in Settlements /\ "unknown" \in Settlements /\ Amount[r] \in Nat
        /\ charged[r] # NoCharge => charged[r] \in Nat /\ (charged[r] <= Amount[r] \/ Overrun(r))
    BY <1>a, <2>1, SpendAssumption DEF Settlements, TypeOK, Overrun
  <2> HIDE DEF r
  <2>3. CASE Settle(r, "unknown", 0)
    BY <1>2, <2>1, <2>2, <2>3
  <2>4. CASE charged[r] # NoCharge /\ Settle(r, "known", charged[r])
    BY <1>2, <2>1, <2>2, <2>4
  <2>5. CASE Settle(r, "known", 0)
    BY <1>2, <2>1, <2>2, <2>5
  <2> QED BY <1>5, <2>3, <2>4, <2>5 DEF Reconcile, r
<1>6. ASSUME NEW r \in Requests, ReconcileLater(r)
      PROVE  CapsKept'
  <2>1. /\ r \notin Credits /\ auths[r].status = "consumed" /\ charged[r] \in Nat
        /\ charged[r] # NoCharge /\ UNCHANGED <<now, auths, charged, stale>>
    BY <1>6, <1>a DEF ReconcileLater, provider, Inv, Related, TypeOK
  <2>2. PICK refund \in {0, charged[r]} : Settle(r, "known", charged[r] - refund)
    BY <1>6 DEF ReconcileLater
  <2>3. /\ "known" \in Settlements /\ charged[r] - refund \in Nat
        /\ charged[r] - refund <= Amount[r] \/ Overrun(r)
    BY <2>1, SpendAssumption DEF Settlements, Overrun
  <2> QED BY <1>2, <2>1, <2>2, <2>3
<1>7. ASSUME NEW r \in Requests, ProviderCharges(r)
      PROVE  CapsKept'
  <2>1. \A x \in Requests : Overrun(x) => Overrun(x)'
    BY <1>7, <1>a DEF ProviderCharges, Overrun, TypeOK
  <2> QED BY <1>7, <1>a, <2>1, CostsOnly DEF ProviderCharges
<1>8. CASE UNCHANGED <<auths, ledger, charged, stale>> /\ now' \in {now, now + 1}
  <2>1. now <= now' /\ \A x \in Requests : Overrun(x) => Overrun(x)'
    BY <1>8, <1>a DEF Overrun
  <2> QED BY <1>8, <1>a, <2>1, CostsOnly
<1> QED BY <1>3, <1>4, <1>5, <1>6, <1>7, <1>8

(* An authorization is cancelled, or consumed, perhaps after it expired.     *)
LEMMA SpendingKeepsCaps ==
  ASSUME Inv, Inv', CapsKept, NEW p \in Procs, Cancel(p) \/ Consume(p)
  PROVE  CapsKept'
<1>r. PICK r \in Requests : r = procs[p].req
  BY DEF Inv, Cancel, Consume, Spending
<1>a. TypeOK /\ TypeOK'
  BY DEF Inv
<1>b. \A x \in Requests : Committed[x] \in Nat
  BY <1>a, CountableNow DEF Countable
<1>c. UNCHANGED <<now, charged>> /\ stale \subseteq stale'
  BY DEF Cancel, Consume, provider
<1>d. \A x \in Requests : auths[x].expires \in Nat /\ now \in Nat
  BY <1>a, SpendAssumption DEF TypeOK, Auths, Times
<1>1. \A x \in Requests \ {r} : auths'[x] = auths[x] /\ ledger'[x] = ledger[x]
  BY <1>r, <1>a DEF Cancel, Consume, TypeOK
<1>2. /\ auths'[r].issued = auths[r].issued /\ auths'[r].expires = auths[r].expires
      /\ auths[r].status = "consumed" => auths'[r].status = "consumed"
  BY <1>r, <1>a DEF Cancel, Consume, Consumable, TypeOK, Auths
<1>3. Committed'[r] <= Committed[r]
  <2>1. ledger'[r] = ledger[r] \/ (auths[r].status = "authorized" /\ ledger'[r].state = "pending")
    BY <1>r, <1>a DEF Cancel, Consume, Consumable, TypeOK, Entries
  <2>2. auths[r].status = "authorized" => ledger[r].state = "none"
    BY <1>a DEF Inv, Related
  <2> QED BY <1>a, <1>b, <2>1, <2>2 DEF Committed
<1>4. Counts(r, now)' => Counts(r, now) \/ Excused(r)'
  <2>1. CASE Cancel(p)
    <3>1. auths'[r].status = auths[r].status \/ auths'[r].status = "cancelled"
      BY <1>r, <1>a, <2>1 DEF Cancel, TypeOK, Auths
    <3> QED BY <1>2, <1>c, <3>1 DEF Counts
  <2>2. CASE Consume(p) /\ ~Consumable(r, procs[p].ts)
    BY <1>r, <1>c, <2>2 DEF Counts, Consume
  <2>3. CASE Consume(p) /\ Consumable(r, procs[p].ts)
    <3>1. auths[r].status = "authorized" /\ auths'[r].status = "consumed"
      BY <1>r, <1>a, <2>3 DEF Consume, Consumable, TypeOK, Auths
    <3>2. auths[r].expires <= now => r \in stale'
      BY <1>r, <2>3 DEF Consume
    <3> QED BY <1>d, <1>a, <3>1, <3>2 DEF Counts, Excused
  <2> QED BY <1>r, <2>1, <2>2, <2>3
<1>5. \A x \in Requests : Excused(x) => Excused(x)' /\ auths'[x].issued = auths[x].issued
  BY <1>1, <1>2, <1>c DEF Excused, Overrun
<1>6. ASSUME NEW x \in Requests, Counts(x, now)'
      PROVE  \/ /\ Counts(x, now) /\ auths'[x].issued = auths[x].issued
                /\ Committed'[x] <= Committed[x]
             \/ Excused(x)'
  <2>1. CASE x = r
    BY <1>2, <1>3, <1>4, <1>6, <2>1
  <2>2. CASE x # r
    <3>1. Counts(x, now) /\ Committed'[x] = Committed[x]
      BY <1>1, <1>6, <1>c, <2>2 DEF Counts, Committed
    <3> QED BY <1>1, <1>b, <2>2, <3>1
  <2> QED BY <2>1, <2>2
<1> QED BY <1>a, <1>5, <1>6, NothingReserved

(* A new authorization fits under every limit it counts against.             *)
LEMMA IssueKeepsCaps ==
  ASSUME Inv, Inv', Priced, CapsKept, NEW p \in Procs, Issue(p)
  PROVE  CapsKept'
<1>r. PICK r \in Requests, ts \in Times : r = procs[p].req /\ ts = procs[p].ts
  BY DEF Issue, Inv, Spending, TypeOK, ProcStates
<1>a. TypeOK /\ TypeOK' /\ Countable /\ Countable' /\ ts \in Nat /\ now \in Nat /\ ts <= now
  BY <1>r, CountableNow, CountableLater, SpendAssumption DEF Issue, Priced, Inv, TypeOK, Times
<1>b. UNCHANGED <<now, ledger, charged>> /\ stale \subseteq stale'
  BY DEF Issue, provider
<1>1. CASE ~Allowed(r, ts, procs[p].seen)
  <2>1. UNCHANGED <<auths, ledger, charged, stale>> /\ now' = now
    BY <1>1, <1>r, <1>b DEF Issue
  <2> QED BY <2>1, CostsKeepCaps
<1>2. CASE Allowed(r, ts, procs[p].seen)
  <2>1. PICK t \in Nat : t <= now /\ Breaches(r, ts, t) = {}
    BY <1>2, <1>a DEF Allowed
  <2>2. /\ auths[r].status = "none" /\ auths'[r].issued = ts
        /\ auths'[r].status = "authorized"
        /\ \A x \in Requests \ {r} : auths'[x] = auths[x]
    BY <1>2, <1>r, <1>a DEF Issue, Allowed, TypeOK
  <2>3. Committed' = Committed /\ Committed[r] = Amount[r]
    BY <1>b, <2>2 DEF Committed, Inv, Related
  <2> SUFFICES ASSUME NEW l \in Limits, NEW w \in Windows(l),
                      ~ \E x \in Counted(l, w, now)' : Excused(x)'
               PROVE  ReservedTotal(l, w, now)' <= l.cap
    BY DEF CapsKept, Windows, Window
  <2> DEFINE after == Counted(l, w, now)'
  <2>4. /\ l.cap \in Nat /\ l.covers \subseteq Requests /\ after \in SUBSET Requests
        /\ Summable(Committed, Requests)
        /\ \A x \in Requests : Committed[x] \in Nat /\ Committed[x] <= Committed[x]
    BY <1>a DEF Countable
  <2>5. ReservedTotal(l, w, now)' = SumFunctionOnSet(Committed, after)
    BY <2>3 DEF ReservedTotal
  <2>6. CASE r \in l.covers /\ w = Window(l, ts)
    <3> DEFINE held == Counted(l, w, t)
    <3>1. SumFunctionOnSet(Committed, held) + Amount[r] <= l.cap
      <4>1. ~(ReservedTotal(l, Window(l, ts), t) + Amount[r] > l.cap)
        BY <2>1, <2>6 DEF Breaches
      <4>2. ReservedTotal(l, Window(l, ts), t) = SumFunctionOnSet(Committed, held)
        BY <2>6 DEF ReservedTotal
      <4>3. held \in SUBSET Requests /\ Amount[r] \in Nat
        BY <1>a DEF Countable
      <4>4. SumFunctionOnSet(Committed, held) \in Int
        BY <2>4, <4>3, SumInt
      <4> QED BY <2>4, <4>1, <4>2, <4>3, <4>4
    <3>2. r \notin held /\ held \in SUBSET Requests
      BY <1>a, <2>2 DEF Counted, Counts, Countable
    <3>3. \A x \in Requests : auths[x].expires \in Nat
      BY <1>a, SpendAssumption DEF TypeOK, Auths, Times
    <3>4. after \subseteq held \cup {r}
      <4> SUFFICES ASSUME NEW x \in after, x # r PROVE x \in held
        OBVIOUS
      <4>1. x \in l.covers /\ x \in Requests /\ Counts(x, now)' /\ Window(l, auths'[x].issued) = w
        BY <2>4 DEF Counted, Window
      <4>2. Counts(x, t)
        BY <1>a, <1>b, <2>1, <2>2, <3>3, <4>1 DEF Counts
      <4>3. auths'[x] = auths[x]
        BY <2>2, <4>1
      <4> QED BY <4>1, <4>2, <4>3 DEF Counted
    <3> DEFINE whole == held \cup {r}
    <3>5. whole \in SUBSET Requests /\ r \in whole /\ whole \ {r} = held /\ after \in SUBSET whole
      BY <3>2, <3>4
    <3> HIDE DEF held, after, whole
    <3>6. SumFunctionOnSet(Committed, whole) = Committed[r] + SumFunctionOnSet(Committed, whole \ {r})
      BY <2>4, <3>5, SumTakeOut
    <3>7. SumFunctionOnSet(Committed, after) <= SumFunctionOnSet(Committed, whole)
      BY <2>4, <3>5, SumMonotonic
    <3>8. /\ SumFunctionOnSet(Committed, after) \in Int /\ SumFunctionOnSet(Committed, held) \in Int
          /\ SumFunctionOnSet(Committed, whole) \in Int /\ Amount[r] \in Int
      BY <1>a, <2>4, <3>2, <3>5, SumInt DEF Countable
    <3>9. SumFunctionOnSet(Committed, whole) = Amount[r] + SumFunctionOnSet(Committed, held)
      BY <2>3, <3>5, <3>6
    <3>10. SumFunctionOnSet(Committed, held) + Amount[r] <= l.cap
      BY <3>1 DEF held
    <3> QED BY <2>4, <2>5, <3>7, <3>8, <3>9, <3>10
  <2>7. CASE ~(r \in l.covers /\ w = Window(l, ts))
    <3> DEFINE before == Counted(l, w, now)
    <3>1. r \notin after /\ r \notin before
      BY <1>a, <2>2, <2>7 DEF Counted, Counts, Window
    <3>2. \A x \in l.covers \ {r} : x \in after <=> x \in before
      BY <1>b, <2>2, <2>4 DEF Counted, Counts, Window
    <3>3. after = before
      BY <3>1, <3>2 DEF Counted
    <3>4. \A x \in before : ~Excused(x)
      <4> SUFFICES ASSUME NEW x \in before, Excused(x) PROVE FALSE
        OBVIOUS
      <4>1. x \in Requests \ {r}
        BY <3>1, <3>3, <2>4
      <4>2. Excused(x)'
        BY <1>b, <2>2, <4>1 DEF Excused, Overrun
      <4> QED BY <3>3, <4>2
    <3>5. ReservedTotal(l, w, now) <= l.cap
      BY <3>4 DEF CapsKept
    <3>6. ReservedTotal(l, w, now) = SumFunctionOnSet(Committed, before)
      BY DEF ReservedTotal
    <3> QED BY <2>5, <3>3, <3>5, <3>6
  <2> QED BY <2>6, <2>7
<1> QED BY <1>1, <1>2

(* Together, the limits are kept by every step.                              *)
LEMMA NextCaps ==
  ASSUME Inv, Inv', Priced, CapsKept, [Next]_vars
  PROVE  CapsKept' /\ Priced'
<1>1. CapsKept'
  <2>1. CASE UNCHANGED vars
    BY <2>1, CostsKeepCaps DEF vars, provider
  <2>2. ASSUME NEW p \in Procs,
               \/ \E r \in Requests : Price(p, r) \/ Resume(p, r)
               \/ ReadClock(p) \/ Call(p) \/ GiveUp(p)
        PROVE  CapsKept'
    <3>1. UNCHANGED <<auths, ledger, charged, stale>> /\ now' \in {now, now + 1}
      BY <2>2 DEF Price, Resume, ReadClock, Call, GiveUp, provider
    <3> QED BY <3>1, CostsKeepCaps
  <2>3. CASE Tick
    <3>1. UNCHANGED <<auths, ledger, charged, stale>> /\ now' \in {now, now + 1}
      BY <2>3 DEF Tick, provider
    <3> QED BY <3>1, CostsKeepCaps
  <2> QED BY <2>1, <2>2, <2>3, CostsKeepCaps, SpendingKeepsCaps, IssueKeepsCaps DEF Next
<1>2. Priced'
  <2>a. now \in Nat /\ procs \in [Procs -> ProcStates] /\ Idle.at = "idle"
    BY SpendAssumption DEF Inv, TypeOK, Times, Idle
  <2>b. \A q \in Procs : procs[q].ts \in Nat
    BY <2>a, SpendAssumption DEF ProcStates, Times
  <2>1. ASSUME now' \in {now, now + 1},
               \A q \in Procs : procs'[q].at = "priced" => procs'[q] = procs[q] \/ procs'[q].ts = now
        PROVE  Priced'
    BY <2>1, <2>a, <2>b DEF Priced
  <2>2. CASE UNCHANGED procs /\ now' \in {now, now + 1}
    BY <2>1, <2>2
  <2>3. ASSUME NEW p \in Procs, now' = now,
               \A q \in Procs \ {p} : procs'[q] = procs[q], procs'[p].at # "priced"
        PROVE  Priced'
    BY <2>1, <2>3
  <2>4. ASSUME NEW p \in Procs, Rest(p), now' = now
        PROVE  Priced'
    BY <2>3, <2>4, RestFacts DEF Inv
  <2>5. ASSUME NEW p \in Procs, NEW place \in Places \ {"priced"}, NEW r \in Requests, now' = now,
               procs' = [procs EXCEPT ![p] = [Idle EXCEPT !.at = place, !.req = r]]
        PROVE  Priced'
    <3>1. [Idle EXCEPT !.at = place, !.req = r].at = place
      BY <2>5, AtFacts
    <3> DEFINE next == [Idle EXCEPT !.at = place, !.req = r]
    <3> HIDE DEF next
    <3>2. \A q \in Procs \ {p} : procs'[q] = procs[q]
      BY <2>5, <2>a DEF next
    <3>3. procs'[p].at # "priced"
      BY <2>5, <2>a, <3>1 DEF next
    <3> QED BY <2>3, <2>5, <3>2, <3>3
  <2>6. ASSUME NEW p \in Procs, NEW r \in Requests, Price(p, r)
        PROVE  Priced'
    BY <2>1, <2>6, <2>a DEF Price
  <2>7. ASSUME NEW p \in Procs, NEW r \in Requests, Resume(p, r)
        PROVE  Priced'
    BY <2>5, <2>7 DEF Resume, Places
  <2>8. ASSUME NEW p \in Procs, Issue(p)
        PROVE  Priced'
    <3>1. procs[p].req \in Requests
      BY <2>8 DEF Issue, Inv, Spending
    <3>2. "issued" \in Places \ {"priced"} /\ now' = now
      BY <2>8 DEF Issue, Places
    <3>3. \/ Rest(p)
          \/ procs' = [procs EXCEPT ![p] = [Idle EXCEPT !.at = "issued", !.req = procs[p].req]]
      BY <2>8 DEF Issue
    <3> QED BY <2>4, <2>5, <3>1, <3>2, <3>3
  <2>9. ASSUME NEW p \in Procs, Consume(p)
        PROVE  Priced'
    <3>1. procs[p].req \in Requests
      BY <2>9 DEF Consume, Inv, Spending
    <3>2. "consumed" \in Places \ {"priced"} /\ now' = now
      BY <2>9 DEF Consume, Places
    <3>3. \/ Rest(p)
          \/ procs' = [procs EXCEPT ![p] = [Idle EXCEPT !.at = "consumed", !.req = procs[p].req]]
      BY <2>9 DEF Consume
    <3> QED BY <2>4, <2>5, <3>1, <3>2, <3>3
  <2>10. ASSUME NEW p \in Procs, ReadClock(p) \/ Call(p)
         PROVE  Priced'
    <3>1. \A q \in Procs \ {p} : procs'[q] = procs[q]
      BY <2>10, <2>a DEF ReadClock, Call, Go
    <3>2. procs'[p].at # "priced"
      BY <2>10, <2>a DEF ReadClock, Call, Go, ProcStates
    <3> QED BY <2>3, <2>10, <3>1, <3>2 DEF ReadClock, Call
  <2>11. ASSUME NEW p \in Procs, Cancel(p) \/ Record(p) \/ Reconcile(p) \/ GiveUp(p)
         PROVE  Priced'
    BY <2>4, <2>11 DEF Cancel, Record, Reconcile, GiveUp
  <2>12. ASSUME NEW p \in Procs, NEW r \in Requests, RecordRecovered(p, r)
         PROVE  Priced'
    BY <2>2, <2>12 DEF RecordRecovered
  <2>13. ASSUME NEW r \in Requests, ProviderCharges(r) \/ ReconcileLater(r)
         PROVE  Priced'
    BY <2>2, <2>13 DEF ProviderCharges, ReconcileLater
  <2>14. CASE Tick \/ UNCHANGED vars
    BY <2>2, <2>14 DEF Tick, vars
  <2> QED BY <2>6, <2>7, <2>8, <2>9, <2>10, <2>11, <2>12, <2>13, <2>14 DEF Next
<1> QED BY <1>1, <1>2
-----------------------------------------------------------------------------
(* What the provider may still charge its quote for.                         *)
Exposed == {r \in Credits : Counts(r, now) /\ charged[r] = NoCharge}

(* What excuses a balance below its floor, once and for all.                 *)
Doubtful(r) == Overrun(r) \/ r \in stale \/ ledger[r].state = "unknown"

LEMMA FloorIs ==
  /\ BalanceFloor <=> balance - Total(Exposed) >= MinBalance \/ \E r \in Credits : Doubtful(r)
  /\ BalanceFloor' <=>
       balance' - Total(Exposed)' >= MinBalance \/ \E r \in Credits : Doubtful(r)'
<1>1. BalanceFloor <=>
        balance - Total(Exposed) >= MinBalance \/ \E r \in Credits : Doubtful(r)
  BY DEF BalanceFloor, Exposed, Doubtful
<1>2. BalanceFloor' <=>
        balance' - Total(Exposed)' >= MinBalance \/ \E r \in Credits : Doubtful(r)'
  BY DEF BalanceFloor, Exposed, Doubtful
<1> QED BY <1>1, <1>2

LEMMA DoubtStays ==
  ASSUME Inv, [Next]_vars, NEW r \in Credits, Doubtful(r)
  PROVE  Doubtful(r)'
<1>0. r \in Requests
  BY SpendAssumption
<1>1. Overrun(r) => Overrun(r)'
  <2>1. ASSUME NEW x \in Requests, ProviderCharges(x), charged[r] # NoCharge
        PROVE  charged'[r] = charged[r]
    BY <1>0, <2>1 DEF ProviderCharges, Inv, TypeOK
  <2>2. (\E x \in Requests : ProviderCharges(x)) \/ UNCHANGED charged
    BY DEF Next, vars, provider, Price, Resume, RecordRecovered, Issue, Cancel, ReadClock,
       Consume, Call, Record, Reconcile, GiveUp, ReconcileLater, Tick
  <2> QED BY <2>1, <2>2 DEF Overrun
<1>2. r \in stale => r \in stale'
  BY DEF Next, vars, provider, Price, Resume, RecordRecovered, Issue, Cancel, ReadClock,
     Consume, Call, Record, Reconcile, GiveUp, ProviderCharges, ReconcileLater, Tick
<1>3. ledger[r].state = "unknown" => ledger'[r].state = "unknown"
  <2> SUFFICES ASSUME ledger[r].state = "unknown" PROVE ledger'[r] = ledger[r]
    OBVIOUS
  <2>1. ASSUME NEW x \in Requests, Evidence(x) PROVE ledger'[r] = ledger[r]
    BY <1>0, <2>1 DEF Evidence, CostEvent, Inv, TypeOK
  <2>2. ASSUME NEW x \in Requests \ Credits, NEW st, NEW net, Settle(x, st, net)
        PROVE  ledger'[r] = ledger[r]
    BY <1>0, <2>2 DEF Settle, Inv, TypeOK
  <2>3. ASSUME NEW p \in Procs, Record(p) \/ Reconcile(p) \/ Consume(p)
        PROVE  ledger'[r] = ledger[r]
    <3>1. procs[p].req \in Requests
      BY <2>3 DEF Record, Reconcile, Consume, Inv, Spending
    <3>2. CASE Record(p)
      BY <2>1, <3>1, <3>2 DEF Record
    <3>3. CASE Reconcile(p)
      BY <2>2, <3>1, <3>3 DEF Reconcile
    <3>4. CASE Consume(p)
      BY <1>0, <3>1, <3>4 DEF Consume, Inv, TypeOK
    <3> QED BY <2>3, <3>2, <3>3, <3>4
  <2>4. ASSUME NEW x \in Requests, NEW p \in Procs, RecordRecovered(p, x)
        PROVE  ledger'[r] = ledger[r]
    BY <2>1, <2>4 DEF RecordRecovered
  <2>5. ASSUME NEW x \in Requests, ReconcileLater(x)
        PROVE  ledger'[r] = ledger[r]
    BY <2>2, <2>5 DEF ReconcileLater
  <2> QED BY <2>3, <2>4, <2>5 DEF Next, vars, provider, Price, Resume, Issue, Cancel,
          ReadClock, Call, GiveUp, ProviderCharges, Tick
<1> QED BY <1>1, <1>2, <1>3 DEF Doubtful

LEMMA NothingExposed ==
  ASSUME Inv, [Next]_vars, TypeOK, BalanceFloor, Exposed' \subseteq Exposed, balance' = balance
  PROVE  BalanceFloor'
<1>1. CASE balance - Total(Exposed) >= MinBalance
  <2>1. /\ Exposed \in SUBSET Requests /\ Exposed' \in SUBSET Exposed
        /\ Summable(Amount, Requests) /\ \A r \in Requests : Amount[r] \in Nat /\ Amount[r] <= Amount[r]
    BY SpendAssumption, CountableNow DEF Exposed, Countable
  <2>2. SumFunctionOnSet(Amount, Exposed') <= SumFunctionOnSet(Amount, Exposed)
    BY <2>1, SumMonotonic
  <2>3. SumFunctionOnSet(Amount, Exposed') \in Int /\ SumFunctionOnSet(Amount, Exposed) \in Int
          /\ balance \in Int /\ MinBalance \in Int
    BY <2>1, SumInt, SpendAssumption DEF TypeOK
  <2>4. balance' - Total(Exposed)' >= MinBalance
    BY <1>1, <2>2, <2>3 DEF Total
  <2> QED BY <2>4, FloorIs
<1>2. CASE ~(balance - Total(Exposed) >= MinBalance)
  BY <1>2, FloorIs, DoubtStays
<1> QED BY <1>1, <1>2

(* A charge takes its request out of what is exposed, and no more than its   *)
(* quote out of the balance, unless it overruns it.                          *)
LEMMA ChargeKeepsFloor ==
  ASSUME Inv, Inv', [Next]_vars, BalanceFloor, NEW r \in Requests, ProviderCharges(r)
  PROVE  BalanceFloor'
<1>1. PICK c \in Charges[r] :
        /\ charged' = [charged EXCEPT ![r] = c]
        /\ balance' = IF r \in Credits THEN balance - c ELSE balance
  BY DEF ProviderCharges
<1>c. c \in Nat /\ c # NoCharge /\ calls[r] > 0
  BY SpendAssumption DEF ProviderCharges
<1>2. /\ c \in Nat /\ c # NoCharge /\ charged[r] = NoCharge /\ charged'[r] = c
      /\ \A x \in Requests \ {r} : charged'[x] = charged[x]
      /\ UNCHANGED <<now, auths, stale>>
      /\ auths[r].status = "consumed"
  BY <1>1, <1>c DEF ProviderCharges, Inv, TypeOK, Related
<1>4. Exposed' = Exposed \ {r}
  <2>1. \A x \in Credits : Counts(x, now)' <=> Counts(x, now)
    BY <1>2 DEF Counts
  <2>2. \A x \in Credits : charged'[x] = NoCharge <=> charged[x] = NoCharge /\ x # r
    BY <1>2, SpendAssumption
  <2> QED BY <2>1, <2>2 DEF Exposed
<1>5. CASE r \notin Credits
  BY <1>1, <1>2, <1>4, <1>5, NothingExposed, SpendAssumption DEF Inv
<1>6. CASE r \in Credits /\ c <= Amount[r] /\ balance - Total(Exposed) >= MinBalance
  <2>1. /\ Exposed \in SUBSET Requests /\ Exposed' \in SUBSET Requests /\ r \in Exposed
        /\ Summable(Amount, Requests) /\ Amount[r] \in Nat
    BY <1>2, <1>4, <1>6, SpendAssumption DEF Exposed, Counts, Summable
  <2>2. SumFunctionOnSet(Amount, Exposed) = Amount[r] + SumFunctionOnSet(Amount, Exposed \ {r})
    BY <2>1, SumTakeOut
  <2>3. SumFunctionOnSet(Amount, Exposed') \in Int /\ balance \in Int /\ MinBalance \in Int
    BY <2>1, SumInt, SpendAssumption DEF Inv, TypeOK
  <2>4. SumFunctionOnSet(Amount, Exposed) = Amount[r] + SumFunctionOnSet(Amount, Exposed')
    BY <1>4, <2>2
  <2>5. balance' - SumFunctionOnSet(Amount, Exposed') >= MinBalance
    BY <1>1, <1>2, <1>6, <2>1, <2>3, <2>4 DEF Total
  <2>6. balance' - Total(Exposed)' >= MinBalance
    BY <2>5 DEF Total
  <2> QED BY <2>6, FloorIs
<1>7. CASE r \in Credits /\ c > Amount[r]
  <2>1. Overrun(r)'
    BY <1>2, <1>7 DEF Overrun
  <2> QED BY <1>7, <2>1 DEF BalanceFloor
<1>8. CASE \E x \in Credits : Doubtful(x)
  BY <1>8, DoubtStays, FloorIs
<1>9. c <= Amount[r] \/ c > Amount[r]
  BY <1>2, SpendAssumption
<1> QED BY <1>5, <1>6, <1>7, <1>8, <1>9, FloorIs

(* An authorization is issued only if the floor holds with its quote added.  *)
LEMMA IssueKeepsFloor ==
  ASSUME Inv, Inv', [Next]_vars, BalanceFloor, NEW p \in Procs, Issue(p)
  PROVE  BalanceFloor'
<1>r. PICK r \in Requests, ts \in Times : r = procs[p].req /\ ts = procs[p].ts
  BY DEF Issue, Inv, Spending, TypeOK, ProcStates
<1>a. /\ UNCHANGED <<now, ledger, charged, balance>> /\ stale \subseteq stale' /\ TypeOK
      /\ \A x \in Requests : Overrun(x)' <=> Overrun(x)
      /\ Credits \subseteq Requests
  BY SpendAssumption DEF Issue, provider, Overrun, Inv
<1>1. CASE ~Allowed(r, ts, procs[p].seen) \/ r \notin Credits
  <2>1. \A x \in Credits : auths'[x] = auths[x]
    BY <1>1, <1>r, <1>a DEF Issue, TypeOK
  <2>2. Exposed' = Exposed
    BY <1>a, <2>1 DEF Exposed, Counts
  <2> QED BY <1>a, <2>2, NothingExposed
<1>2. CASE Allowed(r, ts, procs[p].seen) /\ r \in Credits /\ ~Allowed(r, ts, balance)
  <2>1. r \in stale'
    BY <1>2, <1>r DEF Issue
  <2> QED BY <1>2, <2>1 DEF BalanceFloor
<1>3. CASE \E x \in Credits : Doubtful(x)
  BY <1>3, DoubtStays, FloorIs
<1>4. CASE /\ Allowed(r, ts, procs[p].seen) /\ r \in Credits /\ Allowed(r, ts, balance)
           /\ \A x \in Credits : ~Doubtful(x)
  <2>1. balance - Total(ActiveReservations) - Amount[r] >= MinBalance /\ auths[r].status = "none"
    BY <1>4 DEF Allowed
  <2>2. \A x \in Requests \ {r} : auths'[x] = auths[x]
    BY <1>4, <1>r, <1>a DEF Issue, TypeOK
  <2> DEFINE held == ActiveReservations
             whole == held \cup {r}
  <2>3. held \in SUBSET Requests /\ r \notin held
    BY <1>a, <2>1 DEF ActiveReservations, Counts
  <2>4. Exposed' \subseteq whole
    <3> SUFFICES ASSUME NEW x \in Exposed', x # r PROVE x \in held
      OBVIOUS
    <3>1. x \in Credits /\ Counts(x, now) /\ charged[x] = NoCharge
      BY <1>a, <2>2 DEF Exposed, Counts
    <3>2. ledger[x].state \notin {"known", "unknown", "pending"}
      BY <1>4, <1>a, <3>1 DEF Inv, Related, KnownCostsAreTrue, Doubtful, TypeOK
    <3>3. ledger[x].state = "none"
      BY <1>a, <3>1, <3>2 DEF TypeOK, Entries, Settlements
    <3> QED BY <3>1, <3>3 DEF ActiveReservations
  <2>5. /\ whole \in SUBSET Requests /\ r \in whole /\ whole \ {r} = held /\ Exposed' \in SUBSET whole
        /\ Summable(Amount, Requests) /\ \A x \in Requests : Amount[x] \in Nat /\ Amount[x] <= Amount[x]
    BY <2>3, <2>4, SpendAssumption DEF Summable
  <2> HIDE DEF held, whole
  <2>6. SumFunctionOnSet(Amount, whole) = Amount[r] + SumFunctionOnSet(Amount, whole \ {r})
    BY <2>5, SumTakeOut
  <2>7. SumFunctionOnSet(Amount, Exposed') <= SumFunctionOnSet(Amount, whole)
    BY <2>5, SumMonotonic
  <2>8. /\ SumFunctionOnSet(Amount, Exposed') \in Int /\ SumFunctionOnSet(Amount, held) \in Int
        /\ SumFunctionOnSet(Amount, whole) \in Int /\ Amount[r] \in Int
        /\ balance \in Int /\ MinBalance \in Int
    BY <1>a, <2>3, <2>5, SumInt, SpendAssumption DEF TypeOK
  <2>9. SumFunctionOnSet(Amount, whole) = Amount[r] + SumFunctionOnSet(Amount, held)
    BY <2>5, <2>6
  <2>10. balance - SumFunctionOnSet(Amount, held) - Amount[r] >= MinBalance
    BY <2>1 DEF Total, held
  <2>11. balance - SumFunctionOnSet(Amount, Exposed') >= MinBalance
    BY <2>7, <2>8, <2>9, <2>10
  <2>12. balance' - Total(Exposed)' >= MinBalance
    BY <1>a, <2>11 DEF Total
  <2> QED BY <2>12, FloorIs
<1> QED BY <1>1, <1>2, <1>3, <1>4

LEMMA NextFloor ==
  ASSUME Inv, Inv', BalanceFloor, [Next]_vars
  PROVE  BalanceFloor'
<1>a. TypeOK /\ now \in Nat /\ Credits \subseteq Requests
  BY SpendAssumption DEF Inv, TypeOK, Times
<1>b. \A r \in Requests : auths[r].expires \in Nat
  BY <1>a, SpendAssumption DEF TypeOK, Auths, Times
<1>1. ASSUME UNCHANGED <<auths, charged, balance, stale>>, now' \in {now, now + 1}
      PROVE  BalanceFloor'
  <2>1. Exposed' \subseteq Exposed
    BY <1>1, <1>a, <1>b DEF Exposed, Counts
  <2> QED BY <1>1, <1>a, <2>1, NothingExposed
<1>2. ASSUME NEW p \in Procs, Cancel(p) \/ Consume(p)
      PROVE  BalanceFloor'
  <2>1. PICK r \in Requests : r = procs[p].req
    BY <1>2 DEF Cancel, Consume, Inv, Spending
  <2>2. UNCHANGED <<now, charged, balance>> /\ stale \subseteq stale'
    BY <1>2 DEF Cancel, Consume, provider
  <2>3. \A x \in Requests \ {r} : auths'[x] = auths[x]
    BY <1>2, <1>a, <2>1 DEF Cancel, Consume, TypeOK
  <2>4. auths'[r] = auths[r] \/ auths'[r].status = "cancelled"
          \/ Counts(r, now) \/ (Consume(p) /\ r \in stale')
    BY <1>2, <1>a, <1>b, <2>1 DEF Cancel, Consume, Consumable, Counts, TypeOK, Auths
  <2>5. CASE Consume(p) /\ r \in stale' /\ r \in Credits
    BY <2>5 DEF BalanceFloor
  <2>6. CASE auths'[r] = auths[r] \/ auths'[r].status = "cancelled" \/ Counts(r, now) \/ r \notin Credits
    <3>1. Exposed' \subseteq Exposed
      BY <1>a, <2>2, <2>3, <2>6 DEF Exposed, Counts
    <3> QED BY <1>a, <2>2, <3>1, NothingExposed
  <2> QED BY <2>4, <2>5, <2>6
<1>3. ASSUME NEW p \in Procs,
             \/ \E r \in Requests : Price(p, r) \/ Resume(p, r) \/ RecordRecovered(p, r)
             \/ ReadClock(p) \/ Call(p) \/ Record(p) \/ Reconcile(p) \/ GiveUp(p)
      PROVE  BalanceFloor'
  <2>1. UNCHANGED <<auths, charged, balance, stale>> /\ now' \in {now, now + 1}
    BY <1>3 DEF Price, Resume, RecordRecovered, ReadClock, Call, Record, Reconcile, GiveUp, provider
  <2> QED BY <1>1, <2>1
<1>4. ASSUME NEW r \in Requests, ReconcileLater(r)
      PROVE  BalanceFloor'
  BY <1>1, <1>4 DEF ReconcileLater, provider
<1>5. CASE Tick
  BY <1>1, <1>5 DEF Tick, provider
<1>6. CASE UNCHANGED vars
  BY <1>1, <1>6 DEF vars, provider
<1> QED BY <1>2, <1>3, <1>4, <1>5, <1>6, IssueKeepsFloor, ChargeKeepsFloor DEF Next
-----------------------------------------------------------------------------
(* Nothing is reserved and nothing exposed at the start.                     *)
LEMMA InitMoney == Init => Priced /\ CapsKept /\ BalanceFloor
<1> SUFFICES ASSUME Init PROVE Priced /\ CapsKept /\ BalanceFloor
  OBVIOUS
<1>1. TypeOK /\ Countable
  BY InitInv, CountableNow DEF Inv
<1>2. NoAuth.status = "none" /\ Idle.at = "idle"
  BY DEF NoAuth, Idle
<1>3. \A r \in Requests : \A t : ~Counts(r, t)
  BY <1>2 DEF Init, Counts
<1>4. SumFunctionOnSet(Committed, {}) = 0 /\ SumFunctionOnSet(Amount, {}) = 0
  BY <1>1, SumInt DEF Countable
<1>5. Priced
  BY <1>2 DEF Init, Priced
<1>6. CapsKept
  <2> SUFFICES ASSUME NEW l \in Limits, NEW w \in Windows(l) PROVE ReservedTotal(l, w, now) <= l.cap
    BY DEF CapsKept
  <2>1. Counted(l, w, now) = {} /\ l.cap \in Nat
    BY <1>1, <1>3 DEF Counted, Countable
  <2>2. ReservedTotal(l, w, now) = 0
    BY <1>4, <2>1 DEF ReservedTotal
  <2> QED BY <2>1, <2>2
<1>7. BalanceFloor
  <2>1. Exposed = {}
    BY <1>3, SpendAssumption DEF Exposed
  <2>2. Total(Exposed) = 0
    BY <1>4, <2>1 DEF Total
  <2>3. balance - Total(Exposed) >= MinBalance
    BY <2>2, SpendAssumption DEF Init
  <2> QED BY <2>3 DEF BalanceFloor, Exposed
<1> QED BY <1>5, <1>6, <1>7

LEMMA MoneyHolds == Spec => [](Priced /\ CapsKept /\ BalanceFloor)
<1>1. Inv /\ Inv' /\ (Priced /\ CapsKept /\ BalanceFloor) /\ [Next]_vars
        => (Priced /\ CapsKept /\ BalanceFloor)'
  BY NextCaps, NextFloor
<1> QED BY <1>1, InitMoney, InvHolds, PTL DEF Spec

\* A limit is reserved beyond its cap only in a window that holds an authorization
\* charged above its quote or consumed after it expired (_budget_breaches,
\* _reserved_total).
THEOREM LimitsHold == Spec => []WithinCaps
<1>1. CapsKept => WithinCaps
  BY DEF CapsKept, WithinCaps, Windows, Excused
<1> QED BY <1>1, MoneyHolds, PTL

\* The balance, less the quotes of everything outstanding, is below its minimum only when
\* a request cost more than its quote, was issued on a balance no longer current or
\* consumed after it expired, or was recorded at an unknown cost
\* (issue_provider_spend_authorization, _active_provider_reservations).
THEOREM FloorHolds == Spec => []BalanceFloor
<1> QED BY MoneyHolds, PTL
=============================================================================
