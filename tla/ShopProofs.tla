----------------------------- MODULE ShopProofs -----------------------------
(***************************************************************************)
(* What is proved of a shop, for any sets of plans, top-ups, customers,    *)
(* keys, requests and tasks.  Of its administration: sums over finite sets *)
(* add up, every variable keeps its type, a key takes effect once, and     *)
(* edits of the configuration compose.  Of its customers, who work on the  *)
(* same rows: one trial a month and money that adds up, while keys and     *)
(* edits hold as before.  The types of both come first in each part; every *)
(* later invariant is kept by a step between well-typed states.            *)
(***************************************************************************)
EXTENDS ShopCustomers, FiniteSetTheorems, WellFoundedInduction, TLAPS

-----------------------------------------------------------------------------
(* Sums over finite sets.                                                  *)

\* A nonempty family of parts of a finite set has a minimal one: what induction rests on.
LEMMA MinimalPart ==
    ASSUME NEW S, IsFiniteSet(S), NEW F \in SUBSET SUBSET S, F # {}
    PROVE  \E T \in F : \A U \in F : U \subseteq T => U = T
<1>1. F \subseteq FiniteSubsetsOf(S)
  BY FS_FiniteSubsetsOfFinite
<1>2. \E T \in F : \A U \in F : ~(<<U, T>> \in StrictSubsetOrdering(S))
  BY <1>1, FS_StrictSubsetOrderingWellFounded, WFMin
<1> QED BY <1>2 DEF StrictSubsetOrdering

Pick(s) == CHOOSE x \in s : TRUE
\* h is the running sum of f over every part of S, element by element as SumFunctionOnSet takes them.
Sums(h, f, S) ==
    /\ h \in [SUBSET S -> Int]
    /\ h[{}] = 0
    /\ \A s \in SUBSET S : s # {} => h[s] = f[Pick(s)] + h[s \ {Pick(s)}]

LEMMA PickIn == ASSUME NEW s, s # {} PROVE Pick(s) \in s
BY DEF Pick

\* Two running sums agree where both are defined.
LEMMA SumsUnique ==
    ASSUME NEW f, NEW S, IsFiniteSet(S), NEW R, NEW h, NEW k, Sums(h, f, S), Sums(k, f, R), S \subseteq R
    PROVE  \A s \in SUBSET S : h[s] = k[s]
<1> DEFINE F == {s \in SUBSET S : h[s] # k[s]}
<1> SUFFICES ASSUME F # {} PROVE FALSE
  OBVIOUS
<1>1. PICK T \in F : \A U \in F : U \subseteq T => U = T
  <2>1. F \in SUBSET SUBSET S
    OBVIOUS
  <2> HIDE DEF F
  <2> QED BY <2>1, MinimalPart
<1>2. T # {}
  BY DEF Sums
<1>3. Pick(T) \in T
  BY <1>2, PickIn
<1>4. T \ {Pick(T)} \notin F
  BY <1>1, <1>3
<1>5. h[T \ {Pick(T)}] = k[T \ {Pick(T)}]
  BY <1>4
<1>6. h[T] = f[Pick(T)] + h[T \ {Pick(T)}]
  BY <1>2 DEF Sums
<1>7. k[T] = f[Pick(T)] + k[T \ {Pick(T)}]
  <2>1. T \in SUBSET R
    OBVIOUS
  <2> QED BY <1>2, <2>1 DEF Sums
<1> QED BY <1>5, <1>6, <1>7

\* Every part of a finite set has a running sum.
LEMMA SumsExist ==
    ASSUME NEW S, IsFiniteSet(S), NEW f, \A x \in S : f[x] \in Int
    PROVE  \E h : Sums(h, f, S)
<1> DEFINE F == {s \in SUBSET S : ~\E h : Sums(h, f, s)}
           H(s) == CHOOSE h : Sums(h, f, s)
<1> SUFFICES ASSUME F # {} PROVE FALSE
  OBVIOUS
<1>1. PICK T \in F : \A U \in F : U \subseteq T => U = T
  <2>1. F \in SUBSET SUBSET S
    OBVIOUS
  <2> HIDE DEF F
  <2> QED BY <2>1, MinimalPart
<1>2. ASSUME NEW U \in SUBSET T, U # T PROVE Sums(H(U), f, U)
  <2>1. \E g : Sums(g, f, U)
    BY <1>1, <1>2
  <2> QED BY <2>1
<1>3. T # {}
  <2>1. Sums([s \in SUBSET {} |-> 0], f, {})
    BY DEF Sums
  <2> QED BY <2>1, <1>1
<1>4. Pick(T) \in T /\ T \ {Pick(T)} # T /\ f[Pick(T)] \in Int
  BY <1>3, PickIn
<1> DEFINE V(s) == H(s)[s]
           h == [s \in SUBSET T |-> IF s = T THEN f[Pick(T)] + V(T \ {Pick(T)}) ELSE V(s)]
<1>5. ASSUME NEW s \in SUBSET T, s # T PROVE V(s) \in Int
  <2>1. Sums(H(s), f, s)
    BY <1>2, <1>5
  <2> HIDE DEF H
  <2> QED BY <2>1 DEF Sums
<1>6. ASSUME NEW s \in SUBSET T, s # T, s # {}
      PROVE  V(s) = f[Pick(s)] + V(s \ {Pick(s)})
  <2> DEFINE r == s \ {Pick(s)}
  <2>1. Pick(s) \in s /\ r \in SUBSET s /\ r # T /\ r \in SUBSET T
    BY <1>6, PickIn
  <2>2. Sums(H(s), f, s) /\ Sums(H(r), f, r)
    BY <1>2, <1>6, <2>1
  <2>3. IsFiniteSet(r)
    BY <2>1, FS_Subset
  <2> HIDE DEF H, r
  <2>4. H(r)[r] = H(s)[r]
    BY <2>1, <2>2, <2>3, SumsUnique
  <2>5. H(s)[s] = f[Pick(s)] + H(s)[r]
    BY <2>2, <1>6 DEF Sums, r
  <2> QED BY <2>4, <2>5 DEF r
<1>7. V({}) = 0
  BY <1>2, <1>3 DEF Sums
<1> HIDE DEF H, V
<1>8. h \in [SUBSET T -> Int]
  BY <1>4, <1>5
<1>9. h[{}] = 0
  BY <1>3, <1>7
<1>10. ASSUME NEW s \in SUBSET T, s # {} PROVE h[s] = f[Pick(s)] + h[s \ {Pick(s)}]
  <2>1. Pick(s) \in s /\ s \ {Pick(s)} # T /\ s \ {Pick(s)} \in SUBSET T
    BY <1>10, PickIn
  <2>2. h[s \ {Pick(s)}] = V(s \ {Pick(s)})
    BY <2>1
  <2>3. CASE s = T
    BY <2>2, <2>3
  <2>4. CASE s # T
    BY <2>2, <2>4, <1>6, <1>10
  <2> QED BY <2>3, <2>4
<1> HIDE DEF h
<1>11. Sums(h, f, T)
  BY <1>8, <1>9, <1>10 DEF Sums
<1> QED BY <1>11, <1>1

LEMMA SumUnfolds ==
    ASSUME NEW S, IsFiniteSet(S), NEW f, \A x \in S : f[x] \in Int
    PROVE  \E h : Sums(h, f, S) /\ SumFunctionOnSet(f, S) = h[S]
<1> DEFINE Body(g) == [s \in SUBSET S |-> IF s = {} THEN 0
                          ELSE LET x == CHOOSE x \in s : TRUE IN f[x] + g[s \ {x}]]
           iter == CHOOSE g : g = Body(g)
<1>1. SumFunctionOnSet(f, S) = iter[S]
  BY DEF SumFunctionOnSet, FoldFunctionOnSet, MapThenFoldSet
<1>2. PICK k : Sums(k, f, S)
  BY SumsExist
<1>3. k = Body(k)
  <2>1. ASSUME NEW s \in SUBSET S PROVE k[s] = Body(k)[s]
    BY <1>2 DEF Sums, Pick
  <2>2. k \in [SUBSET S -> Int]
    BY <1>2 DEF Sums
  <2> QED BY <2>1, <2>2
<1>4. iter = Body(iter)
  BY <1>3
<1> HIDE DEF iter
<1>5. \A s \in SUBSET S : iter[s] = IF s = {} THEN 0 ELSE f[Pick(s)] + iter[s \ {Pick(s)}]
  BY <1>4 DEF Pick
<1>6. \A s \in SUBSET S : iter[s] = k[s]
  <2> DEFINE F == {s \in SUBSET S : iter[s] # k[s]}
  <2> SUFFICES ASSUME F # {} PROVE FALSE
    OBVIOUS
  <2>1. PICK T \in F : \A U \in F : U \subseteq T => U = T
    <3>1. F \in SUBSET SUBSET S
      OBVIOUS
    <3> HIDE DEF F
    <3> QED BY <3>1, MinimalPart
  <2>2. T \in SUBSET S /\ iter[T] # k[T]
    OBVIOUS
  <2>3. k[{}] = 0 /\ (T # {} => k[T] = f[Pick(T)] + k[T \ {Pick(T)}])
    BY <1>2, <2>2 DEF Sums
  <2>4. T # {}
    BY <1>5, <2>2, <2>3
  <2>5. Pick(T) \in T
    BY <2>4, PickIn
  <2>6. T \ {Pick(T)} \notin F
    BY <2>1, <2>5
  <2>7. iter[T \ {Pick(T)}] = k[T \ {Pick(T)}]
    BY <2>6, <2>2
  <2>8. iter[T] = f[Pick(T)] + iter[T \ {Pick(T)}]
    BY <1>5, <2>2, <2>4
  <2> QED BY <2>2, <2>3, <2>4, <2>7, <2>8
<1> QED BY <1>1, <1>2, <1>6

LEMMA SumOfNone ==
    ASSUME NEW f
    PROVE  SumFunctionOnSet(f, {}) = 0
BY SumUnfolds, FS_EmptySet DEF Sums

LEMMA SumType ==
    ASSUME NEW S, IsFiniteSet(S), NEW f, \A x \in S : f[x] \in Int
    PROVE  SumFunctionOnSet(f, S) \in Int
<1>1. PICK h : Sums(h, f, S) /\ SumFunctionOnSet(f, S) = h[S]
  BY SumUnfolds
<1> QED BY <1>1 DEF Sums

\* The order does not matter: any element may be taken out first.
LEMMA SumSplits ==
    ASSUME NEW S, IsFiniteSet(S), NEW f, \A x \in S : f[x] \in Int, NEW e \in S
    PROVE  SumFunctionOnSet(f, S) = f[e] + SumFunctionOnSet(f, S \ {e})
<1>1. PICK h : Sums(h, f, S) /\ SumFunctionOnSet(f, S) = h[S]
  BY SumUnfolds
<1>2. ASSUME NEW T \in SUBSET S PROVE SumFunctionOnSet(f, T) = h[T]
  <2>1. IsFiniteSet(T) /\ \A x \in T : f[x] \in Int
    BY FS_Subset
  <2>2. PICK k : Sums(k, f, T) /\ SumFunctionOnSet(f, T) = k[T]
    BY <2>1, SumUnfolds
  <2>3. k[T] = h[T]
    BY <1>1, <2>1, <2>2, SumsUnique
  <2> QED BY <2>2, <2>3
<1> DEFINE F == {T \in SUBSET S : \E x \in T : h[T] # f[x] + h[T \ {x}]}
<1> SUFFICES ASSUME F # {} PROVE FALSE
  <2>1. ASSUME F = {} PROVE h[S] = f[e] + h[S \ {e}]
    BY <2>1
  <2>2. SumFunctionOnSet(f, S \ {e}) = h[S \ {e}]
    BY <1>2
  <2> HIDE DEF F
  <2> QED BY <1>1, <2>1, <2>2
<1>3. PICK T \in F : \A U \in F : U \subseteq T => U = T
  <2>1. F \in SUBSET SUBSET S
    OBVIOUS
  <2> HIDE DEF F
  <2> QED BY <2>1, MinimalPart
<1>4. PICK x \in T : h[T] # f[x] + h[T \ {x}]
  OBVIOUS
<1> DEFINE p == Pick(T)
<1>5. p \in T /\ T \in SUBSET S
  BY <1>4, PickIn
<1>6. h[T] = f[p] + h[T \ {p}]
  BY <1>1, <1>5 DEF Sums
<1>7. p # x
  BY <1>4, <1>6
<1>8. T \ {p} \notin F /\ T \ {x} \notin F
  BY <1>3, <1>4, <1>5
<1>9. h[T \ {p}] = f[x] + h[(T \ {p}) \ {x}]
  BY <1>4, <1>5, <1>7, <1>8
<1>10. h[T \ {x}] = f[p] + h[(T \ {p}) \ {x}]
  <2>1. (T \ {x}) \ {p} = (T \ {p}) \ {x}
    OBVIOUS
  <2>2. h[T \ {x}] = f[p] + h[(T \ {x}) \ {p}]
    BY <1>4, <1>5, <1>7, <1>8
  <2> QED BY <2>1, <2>2
<1>11. f[p] + (f[x] + h[(T \ {p}) \ {x}]) # f[x] + (f[p] + h[(T \ {p}) \ {x}])
  BY <1>4, <1>6, <1>9, <1>10
<1>12. f[p] \in Int /\ f[x] \in Int /\ h[(T \ {p}) \ {x}] \in Int
  <2>1. (T \ {p}) \ {x} \in SUBSET S
    BY <1>5
  <2> QED BY <1>1, <1>4, <1>5, <2>1 DEF Sums
<1> HIDE DEF F, p
<1> QED BY <1>11, <1>12

\* Only the values on the set matter.
LEMMA SumSame ==
    ASSUME NEW S, IsFiniteSet(S), NEW f, NEW g, \A x \in S : f[x] \in Int /\ f[x] = g[x]
    PROVE  SumFunctionOnSet(f, S) = SumFunctionOnSet(g, S)
<1>1. PICK h : Sums(h, f, S) /\ SumFunctionOnSet(f, S) = h[S]
  BY SumUnfolds
<1>2. PICK k : Sums(k, g, S) /\ SumFunctionOnSet(g, S) = k[S]
  BY SumUnfolds
<1>3. Sums(h, g, S)
  BY <1>1, PickIn DEF Sums
<1>4. h[S] = k[S]
  BY <1>2, <1>3, SumsUnique
<1> QED BY <1>1, <1>2, <1>4

LEMMA SumOfOneMore ==
    ASSUME NEW S, IsFiniteSet(S), NEW e, e \notin S, NEW f, \A x \in S \cup {e} : f[x] \in Int
    PROVE  SumFunctionOnSet(f, S \cup {e}) = f[e] + SumFunctionOnSet(f, S)
<1>1. IsFiniteSet(S \cup {e}) /\ (S \cup {e}) \ {e} = S
  BY FS_AddElement
<1> QED BY <1>1, SumSplits

\* One value changes.
LEMMA SumChanges ==
    ASSUME NEW S, IsFiniteSet(S), NEW e \in S, NEW f, NEW g,
           \A x \in S : f[x] \in Int /\ g[x] \in Int, \A x \in S \ {e} : f[x] = g[x]
    PROVE  SumFunctionOnSet(g, S) = SumFunctionOnSet(f, S) - f[e] + g[e]
<1>1. IsFiniteSet(S \ {e})
  BY FS_RemoveElement
<1>2. SumFunctionOnSet(f, S \ {e}) = SumFunctionOnSet(g, S \ {e})
  BY <1>1, SumSame
<1>3. SumFunctionOnSet(f, S \ {e}) \in Int
  BY <1>1, SumType
<1>4. SumFunctionOnSet(f, S) = f[e] + SumFunctionOnSet(f, S \ {e})
  BY SumSplits
<1>5. SumFunctionOnSet(g, S) = g[e] + SumFunctionOnSet(g, S \ {e})
  BY SumSplits
<1> QED BY <1>2, <1>3, <1>4, <1>5

LEMMA SumOfNothing ==
    ASSUME NEW S, IsFiniteSet(S), NEW f, \A x \in S : f[x] = 0
    PROVE  SumFunctionOnSet(f, S) = 0
<1>1. PICK h : Sums(h, f, S) /\ SumFunctionOnSet(f, S) = h[S]
  BY SumUnfolds
<1>2. Sums([s \in SUBSET S |-> 0], f, S)
  BY PickIn DEF Sums
<1>3. h[S] = [s \in SUBSET S |-> 0][S]
  BY <1>1, <1>2, SumsUnique
<1> QED BY <1>1, <1>3

-----------------------------------------------------------------------------
(* Rows: what a session's flush makes of them.                             *)

LEMMA MergeSame ==
    ASSUME NEW now, NEW loaded
    PROVE  MergeRow(now, loaded, loaded) = now
BY Zenon DEF MergeRow

LEMMA MergeNone ==
    ASSUME NEW now, NEW loaded, NEW wanted, wanted # loaded,
           {None, Gone} \cap {now, loaded, wanted} # {}
    PROVE  MergeRow(now, loaded, wanted) = wanted
BY Zenon DEF MergeRow

LEMMA MergeAttributes ==
    ASSUME NEW now, NEW loaded, NEW wanted, wanted # loaded,
           {None, Gone} \cap {now, loaded, wanted} = {}
    PROVE  MergeRow(now, loaded, wanted) =
              [a \in DOMAIN now |-> IF wanted[a] = loaded[a] THEN now[a] ELSE wanted[a]]
BY Zenon DEF MergeRow

\* Rows that nobody else changed become what was wanted.
LEMMA MergeUntouched ==
    ASSUME NEW now, NEW wanted,
           {None, Gone} \cap {now, wanted} = {} => /\ DOMAIN now = DOMAIN wanted
                                                   /\ wanted = [a \in DOMAIN wanted |-> wanted[a]]
    PROVE  MergeRow(now, now, wanted) = wanted
<1>1. CASE wanted = now
  BY <1>1, MergeSame
<1>2. CASE wanted # now /\ {None, Gone} \cap {now, wanted} # {}
  BY <1>2, MergeNone
<1>3. CASE wanted # now /\ {None, Gone} \cap {now, wanted} = {}
  <2>1. MergeRow(now, now, wanted) = [a \in DOMAIN now |-> IF wanted[a] = now[a] THEN now[a] ELSE wanted[a]]
    BY <1>3, MergeAttributes
  <2>2. [a \in DOMAIN now |-> IF wanted[a] = now[a] THEN now[a] ELSE wanted[a]]
           = [a \in DOMAIN wanted |-> wanted[a]]
    BY <1>3
  <2> QED BY <2>1, <2>2, <1>3
<1> QED BY <1>1, <1>2, <1>3

\* A merged row has the attributes of one of the two.
LEMMA MergeTypes ==
    ASSUME NEW now, NEW loaded, NEW wanted
    PROVE  LET to == MergeRow(now, loaded, wanted)
           IN /\ now \in Shop /\ loaded \in Shop /\ wanted \in Shop => to \in Shop
              /\ now \in Plan /\ loaded \in Plan /\ wanted \in Plan => to \in Plan
              /\ now \in Customer /\ loaded \in Customer /\ wanted \in Customer => to \in Customer
              /\ now \in Topup /\ loaded \in Topup /\ wanted \in Topup => to \in Topup
              /\ now \in Code \cup {None} /\ loaded \in Code \cup {None} /\ wanted \in Code \cup {None}
                    => to \in Code \cup {None}
<1> DEFINE to == MergeRow(now, loaded, wanted)
           mix == [a \in DOMAIN now |-> IF wanted[a] = loaded[a] THEN now[a] ELSE wanted[a]]
<1>1. to \in {now, wanted} \/ (to = mix /\ {None, Gone} \cap {now, loaded, wanted} = {})
  BY MergeSame, MergeNone, MergeAttributes
<1> HIDE DEF to
<1>2. ASSUME now \in Shop, wanted \in Shop PROVE mix \in Shop
  BY <1>2 DEF Shop
<1>3. ASSUME now \in SomePlan, wanted \in SomePlan PROVE mix \in SomePlan
  BY <1>3 DEF SomePlan
<1>4. ASSUME now \in Customer, wanted \in Customer PROVE mix \in Customer
  BY <1>4 DEF Customer
<1>5. ASSUME now \in SomeTopup, wanted \in SomeTopup PROVE mix \in SomeTopup
  BY <1>5 DEF SomeTopup
<1>6. ASSUME now \in Code, wanted \in Code PROVE mix \in Code
  BY <1>6 DEF Code
<1> HIDE DEF mix
<1>7. now \in Shop /\ loaded \in Shop /\ wanted \in Shop => to \in Shop
  BY <1>1, <1>2
<1>8. now \in Plan /\ loaded \in Plan /\ wanted \in Plan => to \in Plan
  BY <1>1, <1>3 DEF Plan
<1>9. now \in Customer /\ loaded \in Customer /\ wanted \in Customer => to \in Customer
  BY <1>1, <1>4
<1>10. now \in Topup /\ loaded \in Topup /\ wanted \in Topup => to \in Topup
  BY <1>1, <1>5 DEF Topup
<1>11. now \in Code \cup {None} /\ loaded \in Code \cup {None} /\ wanted \in Code \cup {None}
          => to \in Code \cup {None}
  BY <1>1, <1>6
<1> QED BY <1>7, <1>8, <1>9, <1>10, <1>11 DEF to

LEMMA UpdatedTypes ==
    /\ \A row \in Shop, set \in Settings \cup [required : {FALSE}] : Updated(row, set) \in Shop
    /\ \A row \in SomePlan, set \in {[price |-> 1], [price |-> 2], [gb |-> 2]} : Updated(row, set) \in SomePlan
    /\ \A row \in Code, set \in {[worth |-> 2], [on |-> TRUE]} : Updated(row, set) \in Code
<1>1. ASSUME NEW row \in Shop, NEW set \in Settings \cup [required : {FALSE}] PROVE Updated(row, set) \in Shop
  <2>1. CASE set \in [card : BOOLEAN]
    BY <2>1 DEF Shop, Updated
  <2>2. CASE set \in [number : {None, "card"}]
    BY <2>2 DEF Shop, Updated
  <2>3. CASE set \in [trial : BOOLEAN]
    BY <2>3 DEF Shop, Updated
  <2>4. CASE set \in [text : {None, "text"}]
    BY <2>4 DEF Shop, Updated
  <2>5. CASE set \in [closed : BOOLEAN]
    BY <2>5 DEF Shop, Updated
  <2>6. CASE set \in [events : BOOLEAN]
    BY <2>6 DEF Shop, Updated
  <2>7. CASE set \in [required : {FALSE}]
    BY <2>7 DEF Shop, Updated
  <2> QED BY <1>1, <2>1, <2>2, <2>3, <2>4, <2>5, <2>6, <2>7 DEF Settings
<1>2. ASSUME NEW row \in SomePlan, NEW set \in {[price |-> 1], [price |-> 2], [gb |-> 2]}
      PROVE  Updated(row, set) \in SomePlan
  BY <1>2 DEF SomePlan, Updated
<1>3. ASSUME NEW row \in Code, NEW set \in {[worth |-> 2], [on |-> TRUE]} PROVE Updated(row, set) \in Code
  <2>1. CASE set = [worth |-> 2]
    BY <2>1 DEF Code, Updated
  <2>2. CASE set = [on |-> TRUE]
    BY <2>2 DEF Code, Updated
  <2> QED BY <1>3, <2>1, <2>2
<1> QED BY <1>1, <1>2, <1>3

-----------------------------------------------------------------------------
(* Commands: what they carry, and what each makes of the rows.             *)

Edits == {"update_payment", "update_trial", "update_messages", "update_shop_state", "update_notifications"}
CodeDos == {"create_credit", "update_credit", "set_credit_enabled", "archive_credit"}
PlanDos == {"create_plan", "update_plan", "set_plan_enabled", "delete_plan", "reorder_plans"}
ShopDos == Edits \cup {"set_channel_required", "delete_channel", "channel.save", "channel.enable",
                       "add_manager", "remove_manager"}
RowDos == {"set_customer_banned", "adjust_wallet", "set_topup_decision"}
Executed == PlanDos \cup ShopDos \cup RowDos \cup CodeDos \cup {"reset_free_trials"}

\* What a command carries, by its kind.
LEMMA CommandFields ==
    ASSUME NEW cmd \in Command
    PROVE  /\ cmd.do \in Executed \cup Orders \cup {"bulk_topup_decisions"}
           /\ cmd.do = "create_plan" => cmd.gb \in 1..2 /\ cmd.price \in Nat
           /\ cmd.do = "update_plan" => cmd.p \in Plans /\ cmd.set \in {[price |-> 1], [price |-> 2], [gb |-> 2]}
           /\ cmd.do = "set_plan_enabled" => cmd.p \in Plans /\ cmd.on \in BOOLEAN
           /\ cmd.do = "delete_plan" => cmd.p \in Plans
           /\ cmd.do = "reorder_plans" => cmd.ids \in {<<2, 1>>, <<1, 2>>}
           /\ cmd.do \in Edits => cmd.set \in Settings
           /\ cmd.do = "set_channel_required" => cmd.set \in [required : {FALSE}]
           /\ cmd.do \in Channels => cmd.channel \in {None, "c1", "c2"}
           /\ cmd.do \in {"add_manager", "remove_manager"} => cmd.m \in Customers
           /\ cmd.do = "set_customer_banned" => cmd.c \in Customers /\ cmd.on \in BOOLEAN
           /\ cmd.do = "adjust_wallet" => cmd.c \in Customers /\ cmd.n \in Int
           /\ cmd.do = "set_topup_decision" => cmd.t \in Topups /\ cmd.yes \in BOOLEAN /\ cmd.n \in Nat
           /\ cmd.do = "bulk_topup_decisions" => cmd.yes \in BOOLEAN
           /\ cmd.do = "create_credit" => cmd.gift \in BOOLEAN /\ cmd.worth \in Nat /\ cmd.cap \in Nat
           /\ cmd.do = "update_credit" => cmd.set \in {[worth |-> 2], [on |-> TRUE]}
           /\ cmd.do \in {"set_credit_enabled", "order.set_enabled"} => cmd.on \in BOOLEAN
BY DEF Command, Executed, Edits, CodeDos, PlanDos, ShopDos, RowDos, Channels, Orders

LEMMA OutcomesAre ==
    ASSUME NEW cmd, NEW c
    PROVE  /\ cmd.do = "create_plan" => Outcomes(cmd, c) = create_plan(cmd, c)
           /\ cmd.do = "update_plan" => Outcomes(cmd, c) = update_plan(cmd, c)
           /\ cmd.do = "set_plan_enabled" => Outcomes(cmd, c) = set_plan_enabled(cmd, c)
           /\ cmd.do = "delete_plan" => Outcomes(cmd, c) = delete_plan(cmd, c)
           /\ cmd.do = "reorder_plans" => Outcomes(cmd, c) = reorder_plans(cmd, c)
           /\ cmd.do = "update_payment" => Outcomes(cmd, c) = update_payment(cmd, c)
           /\ cmd.do = "update_trial" => Outcomes(cmd, c) = update_trial(cmd, c)
           /\ cmd.do = "update_messages" => Outcomes(cmd, c) = update_messages(cmd, c)
           /\ cmd.do = "update_shop_state" => Outcomes(cmd, c) = update_shop_state(cmd, c)
           /\ cmd.do = "update_notifications" => Outcomes(cmd, c) = update_notifications(cmd, c)
           /\ cmd.do = "set_channel_required" => Outcomes(cmd, c) = set_channel_required(cmd, c)
           /\ cmd.do = "delete_channel" => Outcomes(cmd, c) = delete_channel(cmd, c)
           /\ cmd.do = "add_manager" => Outcomes(cmd, c) = add_manager(cmd, c)
           /\ cmd.do = "remove_manager" => Outcomes(cmd, c) = remove_manager(cmd, c)
           /\ cmd.do = "reset_free_trials" => Outcomes(cmd, c) = reset_free_trials(cmd, c)
           /\ cmd.do = "set_customer_banned" => Outcomes(cmd, c) = set_customer_banned(cmd, c)
           /\ cmd.do = "adjust_wallet" => Outcomes(cmd, c) = adjust_wallet(cmd, c)
           /\ cmd.do = "set_topup_decision" => Outcomes(cmd, c) = set_topup_decision(cmd, c)
           /\ cmd.do = "create_credit" => Outcomes(cmd, c) = create_credit(cmd, c)
           /\ cmd.do = "update_credit" => Outcomes(cmd, c) = update_credit(cmd, c)
           /\ cmd.do = "set_credit_enabled" => Outcomes(cmd, c) = set_credit_enabled(cmd, c)
           /\ cmd.do = "archive_credit" => Outcomes(cmd, c) = archive_credit(cmd, c)
           /\ cmd.do \in Channels => Outcomes(cmd, c) = save_channel(cmd, c)
<1>1. cmd.do = "create_plan" => Outcomes(cmd, c) = create_plan(cmd, c)
  BY Zenon DEF Outcomes
<1>2. cmd.do = "update_plan" => Outcomes(cmd, c) = update_plan(cmd, c)
  BY Zenon DEF Outcomes
<1>3. cmd.do = "set_plan_enabled" => Outcomes(cmd, c) = set_plan_enabled(cmd, c)
  BY Zenon DEF Outcomes
<1>4. cmd.do = "delete_plan" => Outcomes(cmd, c) = delete_plan(cmd, c)
  BY Zenon DEF Outcomes
<1>5. cmd.do = "reorder_plans" => Outcomes(cmd, c) = reorder_plans(cmd, c)
  BY Zenon DEF Outcomes
<1>6. cmd.do = "update_payment" => Outcomes(cmd, c) = update_payment(cmd, c)
  BY Zenon DEF Outcomes
<1>7. cmd.do = "update_trial" => Outcomes(cmd, c) = update_trial(cmd, c)
  BY Zenon DEF Outcomes
<1>8. cmd.do = "update_messages" => Outcomes(cmd, c) = update_messages(cmd, c)
  BY Zenon DEF Outcomes
<1>9. cmd.do = "update_shop_state" => Outcomes(cmd, c) = update_shop_state(cmd, c)
  BY Zenon DEF Outcomes
<1>10. cmd.do = "update_notifications" => Outcomes(cmd, c) = update_notifications(cmd, c)
  BY Zenon DEF Outcomes
<1>11. cmd.do = "set_channel_required" => Outcomes(cmd, c) = set_channel_required(cmd, c)
  BY Zenon DEF Outcomes
<1>12. cmd.do = "delete_channel" => Outcomes(cmd, c) = delete_channel(cmd, c)
  BY Zenon DEF Outcomes
<1>13. cmd.do = "add_manager" => Outcomes(cmd, c) = add_manager(cmd, c)
  BY Zenon DEF Outcomes
<1>14. cmd.do = "remove_manager" => Outcomes(cmd, c) = remove_manager(cmd, c)
  BY Zenon DEF Outcomes
<1>15. cmd.do = "reset_free_trials" => Outcomes(cmd, c) = reset_free_trials(cmd, c)
  BY Zenon DEF Outcomes
<1>16. cmd.do = "set_customer_banned" => Outcomes(cmd, c) = set_customer_banned(cmd, c)
  BY Zenon DEF Outcomes
<1>17. cmd.do = "adjust_wallet" => Outcomes(cmd, c) = adjust_wallet(cmd, c)
  BY Zenon DEF Outcomes
<1>18. cmd.do = "set_topup_decision" => Outcomes(cmd, c) = set_topup_decision(cmd, c)
  BY Zenon DEF Outcomes
<1>19. cmd.do = "create_credit" => Outcomes(cmd, c) = create_credit(cmd, c)
  BY Zenon DEF Outcomes
<1>20. cmd.do = "update_credit" => Outcomes(cmd, c) = update_credit(cmd, c)
  BY Zenon DEF Outcomes
<1>21. cmd.do = "set_credit_enabled" => Outcomes(cmd, c) = set_credit_enabled(cmd, c)
  BY Zenon DEF Outcomes
<1>22. cmd.do = "archive_credit" => Outcomes(cmd, c) = archive_credit(cmd, c)
  BY Zenon DEF Outcomes
<1>23. cmd.do \in Channels => Outcomes(cmd, c) = save_channel(cmd, c)
  BY Zenon DEF Outcomes, Channels
<1> QED BY <1>1, <1>2, <1>3, <1>4, <1>5, <1>6, <1>7, <1>8, <1>9, <1>10, <1>11, <1>12, <1>13, <1>14, <1>15, <1>16, <1>17, <1>18, <1>19, <1>20, <1>21, <1>22, <1>23

\* Commands on plans change nothing but plans, and only look at them and at the cost.
LEMMA PlanOutcomes ==
    ASSUME NEW c \in Database, NEW cmd \in Command, cmd.do \in PlanDos, NEW to \in Outcomes(cmd, c)
    PROVE  \E P \in [Plans -> Plan] :
              /\ to = [c EXCEPT !.plan = P]
              /\ \A d \in Database : d.plan = c.plan /\ d.cost = c.cost => [d EXCEPT !.plan = P] \in Outcomes(cmd, d)
<1> DEFINE Goal(P) == /\ P \in [Plans -> Plan]
                      /\ to = [c EXCEPT !.plan = P]
                      /\ \A d \in Database : d.plan = c.plan /\ d.cost = c.cost => [d EXCEPT !.plan = P] \in Outcomes(cmd, d)
<1> SUFFICES \E P : Goal(P)
  OBVIOUS
<1>0. c.plan \in [Plans -> Plan] /\ c.cost \in Nat
  BY DEF Database
<1>1. ASSUME cmd.do = "create_plan" PROVE \E P : Goal(P)
  <2> DEFINE new == {p \in Plans : c.plan[p] = None}
             row == [on |-> TRUE, gb |-> cmd.gb, price |-> cmd.price, order |-> Cardinality(Listed(c))]
             P == [c.plan EXCEPT ![Min(new)] = row]
  <2>1. to = [c EXCEPT !.plan = P] /\ ~BelowCost(c, cmd.gb, cmd.price) /\ new # {}
    BY <1>1, OutcomesAre DEF Given, create_plan
  <2>2. row \in Plan
    <3>1. IsFiniteSet(Listed(c))
      BY IdsAssumption, FS_Subset DEF Listed
    <3>2. Cardinality(Listed(c)) \in Nat
      BY <3>1, FS_CardinalityType
    <3> QED BY <1>1, <3>2, CommandFields DEF Plan, SomePlan
  <2>3. P \in [Plans -> Plan]
    <3> HIDE DEF row, new
    <3> QED BY <1>0, <2>2
  <2>4. ASSUME NEW d \in Database, d.plan = c.plan, d.cost = c.cost
        PROVE  [d EXCEPT !.plan = P] \in Outcomes(cmd, d)
    <3>1. Outcomes(cmd, d) = create_plan(cmd, d)
      BY <1>1, OutcomesAre
    <3>2. Listed(d) = Listed(c) /\ ~BelowCost(d, cmd.gb, cmd.price)
      BY <2>1, <2>4 DEF Listed, BelowCost
    <3> QED BY <2>1, <2>4, <3>1, <3>2 DEF Given, create_plan
  <2> HIDE DEF P
  <2> QED BY <2>1, <2>3, <2>4
<1>2. ASSUME cmd.do = "update_plan" PROVE \E P : Goal(P)
  <2> DEFINE merged == Updated(c.plan[cmd.p], cmd.set)
             P == [c.plan EXCEPT ![cmd.p] = merged]
  <2>1. to = [c EXCEPT !.plan = P] /\ cmd.p \in Listed(c) /\ ~BelowCost(c, merged.gb, merged.price)
    BY <1>2, OutcomesAre DEF Given, update_plan
  <2>2. merged \in Plan
    <3>1. c.plan[cmd.p] \in SomePlan
      BY <1>0, <2>1 DEF Listed, Plan
    <3> QED BY <1>2, <3>1, CommandFields, UpdatedTypes DEF Plan
  <2>3. P \in [Plans -> Plan]
    <3> HIDE DEF merged
    <3> QED BY <1>0, <2>2
  <2>4. ASSUME NEW d \in Database, d.plan = c.plan, d.cost = c.cost
        PROVE  [d EXCEPT !.plan = P] \in Outcomes(cmd, d)
    <3>1. Outcomes(cmd, d) = update_plan(cmd, d)
      BY <1>2, OutcomesAre
    <3>2. cmd.p \in Listed(d) /\ ~BelowCost(d, merged.gb, merged.price)
      BY <2>1, <2>4 DEF Listed, BelowCost
    <3> QED BY <2>1, <2>4, <3>1, <3>2 DEF Given, update_plan
  <2> HIDE DEF P
  <2> QED BY <2>1, <2>3, <2>4
<1>3. ASSUME cmd.do = "set_plan_enabled" PROVE \E P : Goal(P)
  <2> DEFINE P == [c.plan EXCEPT ![cmd.p] = [@ EXCEPT !.on = cmd.on]]
  <2>1. /\ to = [c EXCEPT !.plan = P] /\ cmd.p \in Listed(c)
        /\ cmd.on => ~BelowCost(c, c.plan[cmd.p].gb, c.plan[cmd.p].price)
    BY <1>3, OutcomesAre DEF Given, set_plan_enabled
  <2>2. P \in [Plans -> Plan]
    <3>1. c.plan[cmd.p] \in SomePlan
      BY <1>0, <2>1 DEF Listed, Plan
    <3>2. [c.plan[cmd.p] EXCEPT !.on = cmd.on] \in Plan
      BY <1>3, <3>1, CommandFields DEF Plan, SomePlan
    <3> QED BY <1>0, <3>2
  <2>3. ASSUME NEW d \in Database, d.plan = c.plan, d.cost = c.cost
        PROVE  [d EXCEPT !.plan = P] \in Outcomes(cmd, d)
    <3>1. Outcomes(cmd, d) = set_plan_enabled(cmd, d)
      BY <1>3, OutcomesAre
    <3>2. cmd.p \in Listed(d) /\ (cmd.on => ~BelowCost(d, d.plan[cmd.p].gb, d.plan[cmd.p].price))
      BY <2>1, <2>3 DEF Listed, BelowCost
    <3> QED BY <2>1, <2>3, <3>1, <3>2 DEF Given, set_plan_enabled
  <2> HIDE DEF P
  <2> QED BY <2>1, <2>2, <2>3
<1>4. ASSUME cmd.do = "delete_plan" PROVE \E P : Goal(P)
  <2> DEFINE P == [c.plan EXCEPT ![cmd.p] = Gone]
  <2>1. to = [c EXCEPT !.plan = P] /\ cmd.p \in Listed(c)
    BY <1>4, OutcomesAre DEF Given, delete_plan
  <2>2. P \in [Plans -> Plan]
    BY <1>0 DEF Plan
  <2>3. ASSUME NEW d \in Database, d.plan = c.plan, d.cost = c.cost
        PROVE  [d EXCEPT !.plan = P] \in Outcomes(cmd, d)
    <3>1. Outcomes(cmd, d) = delete_plan(cmd, d) /\ cmd.p \in Listed(d)
      BY <1>4, <2>1, <2>3, OutcomesAre DEF Listed
    <3> QED BY <2>1, <2>3, <3>1 DEF Given, delete_plan
  <2> HIDE DEF P
  <2> QED BY <2>1, <2>2, <2>3
<1>5. ASSUME cmd.do = "reorder_plans" PROVE \E P : Goal(P)
  <2> DEFINE place(p) == CHOOSE i \in DOMAIN cmd.ids : cmd.ids[i] = p
             P == [p \in Plans |-> IF p \in Listed(c) THEN [c.plan[p] EXCEPT !.order = place(p) - 1] ELSE c.plan[p]]
  <2>1. to = [c EXCEPT !.plan = P] /\ {cmd.ids[i] : i \in DOMAIN cmd.ids} = Listed(c)
    BY <1>5, OutcomesAre DEF Given, reorder_plans
  <2>2. P \in [Plans -> Plan]
    <3>1. ASSUME NEW p \in Listed(c) PROVE [c.plan[p] EXCEPT !.order = place(p) - 1] \in Plan
      <4>0. cmd.ids \in {<<2, 1>>, <<1, 2>>}
        BY <1>5, CommandFields
      <4>1. DOMAIN cmd.ids = 1..2
        BY <4>0
      <4>2. place(p) \in 1..2
        BY <2>1, <3>1, <4>1
      <4>3. c.plan[p] \in SomePlan
        BY <1>0, <3>1 DEF Listed, Plan
      <4> HIDE DEF place
      <4> QED BY <4>2, <4>3 DEF Plan, SomePlan
    <3> QED BY <1>0, <3>1 DEF Listed
  <2>3. ASSUME NEW d \in Database, d.plan = c.plan, d.cost = c.cost
        PROVE  [d EXCEPT !.plan = P] \in Outcomes(cmd, d)
    <3>1. Outcomes(cmd, d) = reorder_plans(cmd, d) /\ Listed(d) = Listed(c)
      BY <1>5, <2>3, OutcomesAre DEF Listed
    <3> QED BY <2>1, <2>3, <3>1 DEF Given, reorder_plans
  <2> HIDE DEF P
  <2> QED BY <2>1, <2>2, <2>3
<1> HIDE DEF Goal
<1> QED BY <1>1, <1>2, <1>3, <1>4, <1>5 DEF PlanDos

\* The shop's configuration is its row without the health of its channel and the bot's token.
Attributes == {"version", "closed", "trial", "card", "number", "text", "events", "managers",
               "period", "channel", "required", "verified"}
Alike(s, t) == \A a \in Attributes : s[a] = t[a]

LEMMA ShopDomain == \A s \in Shop : DOMAIN s = Attributes \cup {"error", "token"}
BY DEF Shop, Attributes

LEMMA SettingsKeep ==
    ASSUME NEW row \in Shop, NEW set \in Settings \cup [required : {FALSE}]
    PROVE  LET S == Updated(row, set)
           IN /\ S \in Shop
              /\ S.version = row.version /\ S.period = row.period /\ S.token = row.token
              /\ S.managers = row.managers
<1>1. {"version", "period", "token", "managers"} \cap DOMAIN set = {}
  BY DEF Settings
<1>2. {"version", "period", "token", "managers"} \subseteq DOMAIN row
  BY ShopDomain DEF Attributes
<1> QED BY <1>1, <1>2, UpdatedTypes DEF Updated

LEMMA SettingsAlike ==
    ASSUME NEW s \in Shop, NEW t \in Shop, Alike(s, t), NEW set
    PROVE  Alike(Updated(s, set), Updated(t, set))
BY ShopDomain DEF Updated, Alike

\* Commands on the shop's row change nothing but that, and only look at its configuration and at bans.
LEMMA ShopOutcomes ==
    ASSUME NEW c \in Database, NEW cmd \in Command, cmd.do \in ShopDos, NEW to \in Outcomes(cmd, c)
    PROVE  \E S \in Shop :
              /\ to = [c EXCEPT !.shop = S]
              /\ S.version = c.shop.version /\ S.period = c.shop.period /\ S.token = c.shop.token
              /\ \A d \in Database : d.cust = c.cust /\ Alike(d.shop, c.shop) =>
                    \E T \in Shop : Alike(T, S) /\ [d EXCEPT !.shop = T] \in Outcomes(cmd, d)
<1> DEFINE Goal(S) ==
              /\ S \in Shop
              /\ to = [c EXCEPT !.shop = S]
              /\ S.version = c.shop.version /\ S.period = c.shop.period /\ S.token = c.shop.token
              /\ \A d \in Database : d.cust = c.cust /\ Alike(d.shop, c.shop) =>
                    \E T \in Shop : Alike(T, S) /\ [d EXCEPT !.shop = T] \in Outcomes(cmd, d)
<1> SUFFICES \E S : Goal(S)
  OBVIOUS
<1>0. \A d \in Database : d.shop \in Shop /\ d.cust \in [Customers -> Customer]
  BY DEF Database
<1>1. ASSUME cmd.do \in Edits \cup {"set_channel_required"} PROVE \E S : Goal(S)
  <2> DEFINE S == Updated(c.shop, cmd.set)
  <2>0. cmd.set \in Settings \cup [required : {FALSE}]
    BY <1>1, CommandFields
  <2>1. to = [c EXCEPT !.shop = S] /\ (cmd.do = "update_payment" => (S.card => S.number # None))
    <3>1. CASE cmd.do = "update_payment"
      <4>1. Outcomes(cmd, c) = update_payment(cmd, c)
        BY <3>1, OutcomesAre
      <4> QED BY <3>1, <4>1, <1>0 DEF Given, update_payment, Set, Database
    <3>2. CASE cmd.do = "set_channel_required"
      <4>1. Outcomes(cmd, c) = set_channel_required(cmd, c)
        BY <3>2, OutcomesAre
      <4> QED BY <3>2, <4>1, <1>0 DEF Given, set_channel_required, Set
    <3>3. CASE cmd.do \in Edits \ {"update_payment"}
      <4>1. Outcomes(cmd, c) \in {update_trial(cmd, c), update_messages(cmd, c), update_shop_state(cmd, c),
                                  update_notifications(cmd, c)}
        BY <3>3, OutcomesAre DEF Edits
      <4> QED BY <3>3, <4>1 DEF update_trial, update_messages, update_shop_state, update_notifications, Set
    <3> QED BY <1>1, <3>1, <3>2, <3>3
  <2>2. /\ S \in Shop
        /\ S.version = c.shop.version /\ S.period = c.shop.period /\ S.token = c.shop.token
    BY <1>0, <2>0, SettingsKeep
  <2>3. ASSUME NEW d \in Database, d.cust = c.cust, Alike(d.shop, c.shop)
        PROVE  \E T \in Shop : Alike(T, S) /\ [d EXCEPT !.shop = T] \in Outcomes(cmd, d)
    <3> DEFINE T == Updated(d.shop, cmd.set)
    <3>1. T \in Shop /\ Alike(T, S)
      BY <1>0, <2>0, <2>3, SettingsKeep, SettingsAlike
    <3>2. T.card = S.card /\ T.number = S.number
      BY <3>1 DEF Alike, Attributes
    <3> DEFINE to2 == [d EXCEPT !.shop = T]
    <3>3. to2.shop = T
      BY DEF Database
    <3>4. to2 \in Outcomes(cmd, d)
      <4> HIDE DEF T
      <4>1. CASE cmd.do = "update_payment"
        <5>1. Outcomes(cmd, d) = update_payment(cmd, d)
          BY <4>1, OutcomesAre
        <5>2. update_payment(cmd, d) = Given(to2.shop.card => to2.shop.number # None, to2)
          BY DEF update_payment, Set, T
        <5> QED BY <2>1, <3>2, <3>3, <4>1, <5>1, <5>2 DEF Given
      <4>2. CASE cmd.do = "set_channel_required"
        <5>1. Outcomes(cmd, d) = set_channel_required(cmd, d)
          BY <4>2, OutcomesAre
        <5>2. cmd.set.required = FALSE
          BY <4>2, CommandFields
        <5> QED BY <5>1, <5>2 DEF Given, set_channel_required, Set, T
      <4>3. CASE cmd.do \in Edits \ {"update_payment"}
        <5>1. Outcomes(cmd, d) \in {update_trial(cmd, d), update_messages(cmd, d), update_shop_state(cmd, d),
                                    update_notifications(cmd, d)}
          BY <4>3, OutcomesAre DEF Edits
        <5> QED BY <5>1 DEF update_trial, update_messages, update_shop_state, update_notifications, Set, T
      <4> QED BY <1>1, <4>1, <4>2, <4>3
    <3> HIDE DEF T, to2
    <3> QED BY <3>1, <3>4 DEF to2
  <2> HIDE DEF S
  <2> QED BY <2>1, <2>2, <2>3
<1>2. ASSUME cmd.do = "delete_channel" PROVE \E S : Goal(S)
  <2> DEFINE F(s) == [[[[s EXCEPT !.required = FALSE] EXCEPT !.channel = None] EXCEPT !.verified = FALSE]
                      EXCEPT !.error = FALSE]
  <2>1. ASSUME NEW d \in Database PROVE Outcomes(cmd, d) = {[d EXCEPT !.shop = F(d.shop)]}
    <3>1. Outcomes(cmd, d) = delete_channel(cmd, d)
      BY <1>2, OutcomesAre
    <3> QED BY <3>1 DEF delete_channel, Database
  <2>2. ASSUME NEW s \in Shop
        PROVE  /\ F(s) \in Shop
               /\ F(s).version = s.version /\ F(s).period = s.period /\ F(s).token = s.token
    BY DEF Shop
  <2>3. ASSUME NEW s \in Shop, NEW t \in Shop, Alike(s, t) PROVE Alike(F(s), F(t))
    BY <2>3, ShopDomain DEF Alike, Attributes
  <2> HIDE DEF F
  <2>4. Goal(F(c.shop))
    BY <1>0, <2>1, <2>2, <2>3
  <2> QED BY <2>4
<1>3. ASSUME cmd.do \in Channels PROVE \E S : Goal(S)
  <2> DEFINE F(s) == [[[[s EXCEPT !.required = TRUE] EXCEPT !.channel = cmd.channel] EXCEPT !.verified = TRUE]
                      EXCEPT !.error = FALSE]
  <2>0. cmd.channel \in {None, "c1", "c2"}
    BY <1>3, CommandFields
  <2>1. ASSUME NEW d \in Database PROVE Outcomes(cmd, d) = {[d EXCEPT !.shop = F(d.shop)]}
    <3>1. Outcomes(cmd, d) = save_channel(cmd, d)
      BY <1>3, OutcomesAre
    <3> QED BY <3>1 DEF save_channel, Database
  <2>2. ASSUME NEW s \in Shop
        PROVE  /\ F(s) \in Shop
               /\ F(s).version = s.version /\ F(s).period = s.period /\ F(s).token = s.token
    BY <2>0 DEF Shop
  <2>3. ASSUME NEW s \in Shop, NEW t \in Shop, Alike(s, t) PROVE Alike(F(s), F(t))
    BY <2>3, ShopDomain DEF Alike, Attributes
  <2> HIDE DEF F
  <2>4. Goal(F(c.shop))
    BY <1>0, <2>1, <2>2, <2>3
  <2> QED BY <2>4
<1>4. ASSUME cmd.do = "add_manager" PROVE \E S : Goal(S)
  <2> DEFINE F(s) == [s EXCEPT !.managers = s.managers \cup {cmd.m}]
             ok(d) == /\ cmd.m \in d.shop.managers \/ Cardinality(d.shop.managers) < MaxManagers
                      /\ ~d.cust[cmd.m].banned
  <2>0. cmd.m \in Customers
    BY <1>4, CommandFields
  <2>1. ASSUME NEW d \in Database PROVE Outcomes(cmd, d) = Given(ok(d), [d EXCEPT !.shop = F(d.shop)])
    <3>1. Outcomes(cmd, d) = add_manager(cmd, d)
      BY <1>4, OutcomesAre
    <3> QED BY <3>1 DEF add_manager, Database
  <2>2. ASSUME NEW s \in Shop
        PROVE  /\ F(s) \in Shop
               /\ F(s).version = s.version /\ F(s).period = s.period /\ F(s).token = s.token
    BY <2>0 DEF Shop
  <2>3. ASSUME NEW s \in Shop, NEW t \in Shop, Alike(s, t) PROVE Alike(F(s), F(t)) /\ s.managers = t.managers
    BY <2>3, ShopDomain DEF Alike, Attributes
  <2>4. ok(c) /\ to = [c EXCEPT !.shop = F(c.shop)]
    BY <2>1 DEF Given
  <2>5. ASSUME NEW d \in Database, d.cust = c.cust, Alike(d.shop, c.shop)
        PROVE  ok(d)
    BY <1>0, <2>3, <2>4, <2>5
  <2> HIDE DEF F, ok
  <2>6. \A d \in Database : ok(d) => [d EXCEPT !.shop = F(d.shop)] \in Outcomes(cmd, d)
    BY <2>1 DEF Given
  <2>7. Goal(F(c.shop))
    BY <1>0, <2>2, <2>3, <2>4, <2>5, <2>6
  <2> QED BY <2>7
<1>5. ASSUME cmd.do = "remove_manager" PROVE \E S : Goal(S)
  <2> DEFINE F(s) == [s EXCEPT !.managers = s.managers \ {cmd.m}]
  <2>1. ASSUME NEW d \in Database PROVE Outcomes(cmd, d) = {[d EXCEPT !.shop = F(d.shop)]}
    <3>1. Outcomes(cmd, d) = remove_manager(cmd, d)
      BY <1>5, OutcomesAre
    <3> QED BY <3>1 DEF remove_manager, Database
  <2>2. ASSUME NEW s \in Shop
        PROVE  /\ F(s) \in Shop
               /\ F(s).version = s.version /\ F(s).period = s.period /\ F(s).token = s.token
    BY DEF Shop
  <2>3. ASSUME NEW s \in Shop, NEW t \in Shop, Alike(s, t) PROVE Alike(F(s), F(t))
    BY <2>3, ShopDomain DEF Alike, Attributes
  <2> HIDE DEF F
  <2>4. Goal(F(c.shop))
    BY <1>0, <2>1, <2>2, <2>3
  <2> QED BY <2>4
<1> HIDE DEF Goal
<1> QED BY <1>1, <1>2, <1>3, <1>4, <1>5 DEF ShopDos, Channels

-----------------------------------------------------------------------------
(* Commands on customers, top-ups and codes.                               *)

\* Money moves to or from one customer's balance only.
LEMMA MovesIs ==
    ASSUME NEW c \in Database, NEW i \in Customers, NEW n \in Int, c.cust[i].bal + n >= 0
    PROVE  LET to == Moves(c, i, n)
           IN /\ to = [c EXCEPT !.cust = [c.cust EXCEPT ![i] = [c.cust[i] EXCEPT !.bal = c.cust[i].bal + n]]]
              /\ to \in Database
              /\ to.cust[i].bal = c.cust[i].bal + n
              /\ \A j \in Customers \ {i} : to.cust[j] = c.cust[j]
              /\ \A j \in Customers : to.cust[j].trial = c.cust[j].trial
              /\ to.shop = c.shop /\ to.plan = c.plan /\ to.topup = c.topup /\ to.code = c.code
              /\ to.order = c.order /\ to.cost = c.cost /\ to.ledger = c.ledger /\ to.uses = c.uses
<1> DEFINE C == [c.cust EXCEPT ![i] = [c.cust[i] EXCEPT !.bal = c.cust[i].bal + n]]
<1>1. c.cust \in [Customers -> Customer]
  BY DEF Database
<1>2. [c.cust[i] EXCEPT !.bal = c.cust[i].bal + n] \in Customer
  BY <1>1 DEF Customer
<1>3. /\ C \in [Customers -> Customer]
      /\ C[i].bal = c.cust[i].bal + n
      /\ \A j \in Customers \ {i} : C[j] = c.cust[j]
      /\ \A j \in Customers : C[j].trial = c.cust[j].trial
  BY <1>1, <1>2 DEF Customer
<1>4. Moves(c, i, n) = [c EXCEPT !.cust = C]
  BY <1>1 DEF Moves, Database
<1> HIDE DEF C
<1>5. [c EXCEPT !.cust = C].cust = C /\ [c EXCEPT !.cust = C] \in Database
  BY <1>3 DEF Database
<1> QED BY <1>3, <1>4, <1>5 DEF C, Database

\* A redeemed code is worth its worth to one customer.
LEMMA RedeemIs ==
    ASSUME NEW c \in Database, NEW i \in Customers, c.code # None
    PROVE  LET to == Redeem(c, i)
           IN /\ to \in Database /\ c.code \in Code
              /\ to.cust = Moves(c, i, c.code.worth).cust
              /\ to.code = [c.code EXCEPT !.used = c.code.used + 1] /\ to.code # None
              /\ to.code.used = c.code.used + 1 /\ to.code.cap = c.code.cap
              /\ to.uses = [c.uses EXCEPT ![i] = c.uses[i] + 1]
              /\ to.ledger = [c.ledger EXCEPT ![i] = c.ledger[i] + c.code.worth]
              /\ to.shop = c.shop /\ to.plan = c.plan /\ to.topup = c.topup
              /\ to.order = c.order /\ to.cost = c.cost
<1> DEFINE m == Moves(c, i, c.code.worth)
           x == [c.code EXCEPT !.used = c.code.used + 1]
           u == [c.uses EXCEPT ![i] = c.uses[i] + 1]
           l == [c.ledger EXCEPT ![i] = c.ledger[i] + c.code.worth]
<1>1. c.code \in Code /\ c.uses \in [Customers -> Nat] /\ c.ledger \in [Customers -> Int] /\ c.cust[i].bal \in Nat
  BY DEF Database, Customer
<1>2. x \in Code /\ u \in [Customers -> Nat] /\ l \in [Customers -> Int]
      /\ x.used = c.code.used + 1 /\ x.cap = c.code.cap
  BY <1>1 DEF Code
<1>3. x # None
  BY <1>2, NoneShopAssumption
<1>4. /\ m \in Database
      /\ m.shop = c.shop /\ m.plan = c.plan /\ m.topup = c.topup /\ m.code = c.code
      /\ m.order = c.order /\ m.cost = c.cost /\ m.ledger = c.ledger /\ m.uses = c.uses
  <2>1. c.code.worth \in Int /\ c.cust[i].bal + c.code.worth >= 0
    BY <1>1 DEF Code
  <2> QED BY <2>1, MovesIs
<1>5. Redeem(c, i) = [[[m EXCEPT !.code = x] EXCEPT !.uses = u] EXCEPT !.ledger = l]
  BY <1>1, <1>4 DEF Redeem, Database
<1> HIDE DEF m, x, u, l
<1>6. /\ Redeem(c, i) \in Database
      /\ Redeem(c, i).cust = m.cust /\ Redeem(c, i).code = x /\ Redeem(c, i).uses = u /\ Redeem(c, i).ledger = l
      /\ Redeem(c, i).shop = m.shop /\ Redeem(c, i).plan = m.plan /\ Redeem(c, i).topup = m.topup
      /\ Redeem(c, i).order = m.order /\ Redeem(c, i).cost = m.cost
  BY <1>2, <1>4, <1>5 DEF Database
<1> QED BY <1>1, <1>2, <1>3, <1>4, <1>6 DEF m, x, u, l

LEMMA BanOutcomes ==
    ASSUME NEW c \in Database, NEW cmd \in Command, cmd.do = "set_customer_banned", NEW to \in Outcomes(cmd, c)
    PROVE  \E C \in [Customers -> Customer] :
              /\ to = [c EXCEPT !.cust = C]
              /\ \A i \in Customers : C[i].trial = c.cust[i].trial /\ C[i].bal = c.cust[i].bal
<1> DEFINE C == [c.cust EXCEPT ![cmd.c] = [c.cust[cmd.c] EXCEPT !.banned = cmd.on]]
<1>1. Outcomes(cmd, c) = set_customer_banned(cmd, c)
  BY OutcomesAre
<1>2. cmd.c \in Customers /\ cmd.on \in BOOLEAN
  BY CommandFields
<1>3. c.cust \in [Customers -> Customer]
  BY DEF Database
<1>4. to = [c EXCEPT !.cust = C]
  BY <1>1, <1>3 DEF set_customer_banned, Database
<1>5. C \in [Customers -> Customer]
  BY <1>2, <1>3 DEF Customer
<1>6. \A i \in Customers : C[i].trial = c.cust[i].trial /\ C[i].bal = c.cust[i].bal
  BY <1>2, <1>3 DEF Customer
<1> QED BY <1>4, <1>5, <1>6

\* What an adjustment moves is what it writes down.
LEMMA AdjustOutcomes ==
    ASSUME NEW c \in Database, NEW cmd \in Command, cmd.do = "adjust_wallet", NEW to \in Outcomes(cmd, c)
    PROVE  /\ cmd.c \in Customers
           /\ \E n \in Int :
                /\ c.cust[cmd.c].bal + n >= 0
                /\ to = [Moves(c, cmd.c, n) EXCEPT !.ledger = [c.ledger EXCEPT ![cmd.c] = c.ledger[cmd.c] + n]]
<1> DEFINE n == Max({cmd.n, -c.cust[cmd.c].bal})
<1>1. Outcomes(cmd, c) = adjust_wallet(cmd, c)
  BY OutcomesAre
<1>2. cmd.c \in Customers /\ cmd.n \in Int /\ c.cust[cmd.c].bal \in Nat
  BY CommandFields DEF Database, Customer
<1>3. n \in Int /\ n >= -c.cust[cmd.c].bal
  <2>1. \E m \in {cmd.n, -c.cust[cmd.c].bal} : \A k \in {cmd.n, -c.cust[cmd.c].bal} : m >= k
    BY <1>2
  <2> QED BY <1>2, <2>1 DEF Max
<1>4. Moves(c, cmd.c, n).ledger = c.ledger
  BY <1>2, <1>3, MovesIs
<1>5. to = [Moves(c, cmd.c, n) EXCEPT !.ledger[cmd.c] = Moves(c, cmd.c, n).ledger[cmd.c] + n]
  BY <1>1 DEF adjust_wallet
<1> HIDE DEF n
<1>6. to = [Moves(c, cmd.c, n) EXCEPT !.ledger = [c.ledger EXCEPT ![cmd.c] = c.ledger[cmd.c] + n]]
  BY <1>4, <1>5
<1> QED BY <1>2, <1>3, <1>6

\* A decision finds its top-up decided, rejects it, or credits its amount, and the code's
\* worth when one can be redeemed.
LEMMA DecisionOutcomes ==
    ASSUME NEW c \in Database, NEW cmd \in Command, cmd.do = "set_topup_decision", NEW to \in Outcomes(cmd, c),
           c.topup[cmd.t] # None
    PROVE  /\ cmd.t \in Topups /\ cmd.n \in Nat /\ Buyer[cmd.t] \in Customers /\ c.topup[cmd.t] \in SomeTopup
           /\ \/ to = c
              \/ /\ c.topup[cmd.t].status = "pending"
                 /\ to = [c EXCEPT !.topup = [c.topup EXCEPT ![cmd.t] = [c.topup[cmd.t] EXCEPT !.status = "rejected"]]]
              \/ /\ c.topup[cmd.t].status = "pending"
                 /\ \E paid \in Database :
                      /\ paid = [Moves(c, Buyer[cmd.t], cmd.n) EXCEPT
                                    !.topup = [c.topup EXCEPT ![cmd.t] =
                                        [[c.topup[cmd.t] EXCEPT !.status = "confirmed"] EXCEPT !.amount = cmd.n]]]
                      /\ to = paid \/ (Redeemable(c, Buyer[cmd.t], cmd.n) /\ to = Redeem(paid, Buyer[cmd.t]))
<1>1. Outcomes(cmd, c) = set_topup_decision(cmd, c)
  BY OutcomesAre
<1>2. cmd.t \in Topups /\ cmd.n \in Nat /\ Buyer[cmd.t] \in Customers
  BY CommandFields, IdsAssumption
<1>3. c.topup[cmd.t] \in SomeTopup /\ c.topup \in [Topups -> Topup]
  BY <1>2 DEF Database, Topup
<1> DEFINE row == [c.topup[cmd.t] EXCEPT !.status = "rejected"]
           no == [c EXCEPT !.topup = [c.topup EXCEPT ![cmd.t] = row]]
<1>4. /\ c.topup[cmd.t].status # "pending" => to = c
      /\ c.topup[cmd.t].status = "pending" /\ cmd.yes => to = confirm_topup(cmd.t, cmd.n, c)
      /\ c.topup[cmd.t].status = "pending" /\ ~cmd.yes => to = [c EXCEPT !.topup[cmd.t].status = "rejected"]
  BY <1>1, Zenon DEF set_topup_decision
<1>5. [c EXCEPT !.topup[cmd.t].status = "rejected"] = no
  BY <1>2, <1>3 DEF Database
<1> DEFINE paid == [Moves(c, Buyer[cmd.t], cmd.n) EXCEPT
                      !.topup = [c.topup EXCEPT ![cmd.t] =
                                    [[c.topup[cmd.t] EXCEPT !.status = "confirmed"] EXCEPT !.amount = cmd.n]]]
<1>6. /\ Moves(c, Buyer[cmd.t], cmd.n) \in Database
      /\ Moves(c, Buyer[cmd.t], cmd.n).topup = c.topup
  <2>1. c.cust[Buyer[cmd.t]].bal + cmd.n >= 0
    BY <1>2 DEF Database, Customer
  <2> QED BY <1>2, <2>1, MovesIs
<1>7. paid \in Database
  <2>1. [[c.topup[cmd.t] EXCEPT !.status = "confirmed"] EXCEPT !.amount = cmd.n] \in Topup
    BY <1>2, <1>3 DEF Topup, SomeTopup
  <2> DEFINE T == [c.topup EXCEPT ![cmd.t] =
                      [[c.topup[cmd.t] EXCEPT !.status = "confirmed"] EXCEPT !.amount = cmd.n]]
  <2>2. T \in [Topups -> Topup]
    BY <1>3, <2>1
  <2> HIDE DEF T
  <2>3. [Moves(c, Buyer[cmd.t], cmd.n) EXCEPT !.topup = T] \in Database
    BY <1>6, <2>2 DEF Database
  <2> QED BY <2>3 DEF T
<1>8. [Moves(c, Buyer[cmd.t], cmd.n) EXCEPT !.topup[cmd.t] =
          [Moves(c, Buyer[cmd.t], cmd.n).topup[cmd.t] EXCEPT !.status = "confirmed", !.amount = cmd.n]] = paid
  BY <1>6
<1>9. confirm_topup(cmd.t, cmd.n, c) = paid
      \/ (Redeemable(c, Buyer[cmd.t], cmd.n) /\ confirm_topup(cmd.t, cmd.n, c) = Redeem(paid, Buyer[cmd.t]))
  <2> HIDE DEF paid
  <2> QED BY <1>8 DEF confirm_topup
<1> HIDE DEF paid, row, no
<1>10. CASE c.topup[cmd.t].status # "pending"
  BY <1>2, <1>3, <1>4, <1>10
<1>11. CASE c.topup[cmd.t].status = "pending" /\ cmd.yes
  BY <1>2, <1>3, <1>4, <1>7, <1>9, <1>11 DEF paid
<1>12. CASE c.topup[cmd.t].status = "pending" /\ ~cmd.yes
  BY <1>2, <1>3, <1>4, <1>5, <1>12 DEF row, no
<1> QED BY <1>10, <1>11, <1>12

\* Commands on the code change nothing but the code, and never how often it was redeemed.
LEMMA CodeOutcomes ==
    ASSUME NEW c \in Database, NEW cmd \in Command, cmd.do \in CodeDos, NEW to \in Outcomes(cmd, c)
    PROVE  \E K \in Code :
              /\ to = [c EXCEPT !.code = K]
              /\ cmd.do = "create_credit" => c.code = None /\ K.used = 0
              /\ cmd.do # "create_credit" => c.code # None /\ K.used = c.code.used /\ K.cap = c.code.cap
<1>1. c.code \in Code \cup {None}
  BY DEF Database
<1>2. CASE cmd.do = "create_credit"
  <2> DEFINE K == [on |-> TRUE, archived |-> FALSE, gift |-> cmd.gift, worth |-> cmd.worth, cap |-> cmd.cap, used |-> 0]
  <2>1. Outcomes(cmd, c) = create_credit(cmd, c)
    BY <1>2, OutcomesAre
  <2>2. to = [c EXCEPT !.code = K] /\ c.code = None
    BY <2>1 DEF create_credit, Given
  <2>3. K \in Code /\ K.used = 0
    BY <1>2, CommandFields DEF Code
  <2> HIDE DEF K
  <2> QED BY <1>2, <2>2, <2>3
<1>3. CASE cmd.do = "update_credit"
  <2> DEFINE K == Updated(c.code, cmd.set)
  <2>1. Outcomes(cmd, c) = update_credit(cmd, c)
    BY <1>3, OutcomesAre
  <2>2. to = [c EXCEPT !.code = K] /\ c.code # None
    BY <2>1 DEF update_credit, Given
  <2>3. cmd.set \in {[worth |-> 2], [on |-> TRUE]}
    BY <1>3, CommandFields
  <2>4. K \in Code
    BY <1>1, <2>2, <2>3, UpdatedTypes
  <2>5. {"used", "cap"} \cap DOMAIN cmd.set = {} /\ {"used", "cap"} \subseteq DOMAIN c.code
    BY <1>1, <2>2, <2>3 DEF Code
  <2>6. K.used = c.code.used /\ K.cap = c.code.cap
    BY <2>5 DEF Updated
  <2> HIDE DEF K
  <2> QED BY <1>3, <2>2, <2>4, <2>6
<1>4. CASE cmd.do = "set_credit_enabled"
  <2> DEFINE K == [c.code EXCEPT !.on = cmd.on]
  <2>1. Outcomes(cmd, c) = set_credit_enabled(cmd, c)
    BY <1>4, OutcomesAre
  <2>2. to = [c EXCEPT !.code = K] /\ c.code # None
    BY <2>1 DEF set_credit_enabled, Given
  <2>3. cmd.on \in BOOLEAN
    BY <1>4, CommandFields
  <2>4. K \in Code /\ K.used = c.code.used /\ K.cap = c.code.cap
    BY <1>1, <2>2, <2>3 DEF Code
  <2> HIDE DEF K
  <2> QED BY <1>4, <2>2, <2>4
<1>5. CASE cmd.do = "archive_credit"
  <2> DEFINE K == [[c.code EXCEPT !.on = FALSE] EXCEPT !.archived = TRUE]
  <2>1. Outcomes(cmd, c) = archive_credit(cmd, c)
    BY <1>5, OutcomesAre
  <2>2. to = [c EXCEPT !.code = K] /\ c.code # None
    BY <2>1 DEF archive_credit, Given, Database
  <2>3. K \in Code /\ K.used = c.code.used /\ K.cap = c.code.cap
    BY <1>1, <2>2 DEF Code
  <2> HIDE DEF K
  <2> QED BY <1>5, <2>2, <2>3
<1> QED BY <1>2, <1>3, <1>4, <1>5 DEF CodeDos

\* The monthly reset gives every customer his trial back.
LEMMA ResetOutcomes ==
    ASSUME NEW c \in Database, NEW cmd, cmd.do = "reset_free_trials", NEW to \in Outcomes(cmd, c)
    PROVE  LET C == [i \in Customers |-> [c.cust[i] EXCEPT !.trial = FALSE]]
           IN /\ c.shop.period = None
              /\ to = [[c EXCEPT !.shop = [c.shop EXCEPT !.period = "now"]] EXCEPT !.cust = C]
              /\ to \in Database
              /\ \A d \in Database : d.shop.period = None => Outcomes(cmd, d) # {}
<1> DEFINE C == [i \in Customers |-> [c.cust[i] EXCEPT !.trial = FALSE]]
           S == [c.shop EXCEPT !.period = "now"]
<1>1. \A d : Outcomes(cmd, d) = reset_free_trials(cmd, d)
  BY OutcomesAre
<1>2. c.shop.period = None /\ to = [[c EXCEPT !.shop = S] EXCEPT !.cust = C]
  BY <1>1 DEF reset_free_trials, Given, Database
<1>3. S \in Shop
  BY DEF Database, Shop
<1>4. C \in [Customers -> Customer]
  BY DEF Database, Customer
<1>5. \A d \in Database : d.shop.period = None => Outcomes(cmd, d) # {}
  BY <1>1 DEF reset_free_trials, Given
<1> HIDE DEF C, S
<1>6. to \in Database
  BY <1>2, <1>3, <1>4 DEF Database
<1> QED BY <1>2, <1>5, <1>6 DEF C, S

\* No command makes an ill-typed row, or a top-up or a code disappear, or touches an order or the cost.
LEMMA OutcomesTyped ==
    ASSUME NEW c \in Database, NEW cmd \in Command, cmd.do \in Executed, NEW to \in Outcomes(cmd, c),
           cmd.do = "set_topup_decision" => c.topup[cmd.t] # None
    PROVE  /\ to \in Database /\ to.order = c.order /\ to.cost = c.cost
           /\ to.shop.version = c.shop.version /\ to.shop.token = c.shop.token
           /\ cmd.do # "set_topup_decision" => to.uses = c.uses /\ to.topup = c.topup
           /\ \A t \in Topups : c.topup[t] # None => to.topup[t] # None
           /\ c.code # None => to.code # None
           /\ \A i \in Customers : to.uses[i] >= c.uses[i]
<1>0. \A i \in Customers : c.uses[i] \in Nat
  BY DEF Database
<1>1. CASE cmd.do \in PlanDos
  <2>1. PICK P \in [Plans -> Plan] : to = [c EXCEPT !.plan = P]
    BY <1>1, PlanOutcomes
  <2> QED BY <1>0, <2>1 DEF Database
<1>2. CASE cmd.do \in ShopDos
  <2>1. PICK S \in Shop : /\ to = [c EXCEPT !.shop = S]
                          /\ S.version = c.shop.version /\ S.token = c.shop.token
    BY <1>2, ShopOutcomes
  <2> QED BY <1>0, <2>1 DEF Database
<1>3. CASE cmd.do = "reset_free_trials"
  <2> DEFINE C == [i \in Customers |-> [c.cust[i] EXCEPT !.trial = FALSE]]
             S == [c.shop EXCEPT !.period = "now"]
  <2>1. to = [[c EXCEPT !.shop = S] EXCEPT !.cust = C] /\ to \in Database
    BY <1>3, ResetOutcomes
  <2>2. S.version = c.shop.version /\ S.token = c.shop.token
    BY DEF Database, Shop
  <2> HIDE DEF C, S
  <2>3. /\ to.shop = S /\ to.order = c.order /\ to.cost = c.cost /\ to.uses = c.uses /\ to.topup = c.topup
        /\ to.code = c.code
    BY <2>1 DEF Database
  <2> QED BY <1>0, <1>3, <2>1, <2>2, <2>3
<1>4. CASE cmd.do = "set_customer_banned"
  <2>1. PICK C \in [Customers -> Customer] : to = [c EXCEPT !.cust = C]
    BY <1>4, BanOutcomes
  <2> QED BY <1>0, <1>4, <2>1 DEF Database
<1>5. CASE cmd.do = "adjust_wallet"
  <2>1. PICK n \in Int :
            /\ c.cust[cmd.c].bal + n >= 0
            /\ to = [Moves(c, cmd.c, n) EXCEPT !.ledger = [c.ledger EXCEPT ![cmd.c] = c.ledger[cmd.c] + n]]
    BY <1>5, AdjustOutcomes
  <2>2. cmd.c \in Customers
    BY <1>5, CommandFields
  <2> DEFINE L == [c.ledger EXCEPT ![cmd.c] = c.ledger[cmd.c] + n]
             m == Moves(c, cmd.c, n)
  <2>3. /\ m \in Database /\ m.shop = c.shop /\ m.topup = c.topup /\ m.code = c.code
        /\ m.order = c.order /\ m.cost = c.cost /\ m.uses = c.uses
    BY <2>1, <2>2, MovesIs
  <2>4. L \in [Customers -> Int]
    BY <2>1, <2>2 DEF Database
  <2> HIDE DEF L, m
  <2>5. to = [m EXCEPT !.ledger = L]
    BY <2>1 DEF L, m
  <2> QED BY <1>0, <1>5, <2>3, <2>4, <2>5 DEF Database
<1>6. CASE cmd.do = "set_topup_decision"
  <2> DEFINE t == cmd.t
             i == Buyer[cmd.t]
             T == [c.topup EXCEPT ![t] = [c.topup[t] EXCEPT !.status = "rejected"]]
             U == [c.topup EXCEPT ![t] = [[c.topup[t] EXCEPT !.status = "confirmed"] EXCEPT !.amount = cmd.n]]
             m == Moves(c, i, cmd.n)
  <2>1. /\ t \in Topups /\ cmd.n \in Nat /\ i \in Customers /\ c.topup[t] \in SomeTopup
        /\ \/ to = c
           \/ to = [c EXCEPT !.topup = T]
           \/ \E paid \in Database :
                /\ paid = [m EXCEPT !.topup = U]
                /\ to = paid \/ (Redeemable(c, i, cmd.n) /\ to = Redeem(paid, i))
    BY <1>6, DecisionOutcomes
  <2>2. /\ T \in [Topups -> Topup] /\ U \in [Topups -> Topup]
        /\ \A u \in Topups : c.topup[u] # None => T[u] # None /\ U[u] # None
    <3>1. [c.topup[t] EXCEPT !.status = "rejected"] \in SomeTopup
      BY <2>1 DEF SomeTopup
    <3>2. [[c.topup[t] EXCEPT !.status = "confirmed"] EXCEPT !.amount = cmd.n] \in SomeTopup
      BY <2>1 DEF SomeTopup
    <3>3. None \notin SomeTopup
      BY NoneShopAssumption
    <3>4. c.topup \in [Topups -> Topup]
      BY DEF Database
    <3> QED BY <2>1, <3>1, <3>2, <3>3, <3>4 DEF Topup
  <2>3. /\ m \in Database /\ m.shop = c.shop /\ m.code = c.code /\ m.order = c.order /\ m.cost = c.cost
        /\ m.uses = c.uses
    <3>1. c.cust[i].bal + cmd.n >= 0
      BY <2>1 DEF Database, Customer
    <3> QED BY <2>1, <3>1, MovesIs
  <2> HIDE DEF T, U, m
  <2>4. CASE to = c
    BY <1>0, <1>6, <2>4 DEF Database
  <2>5. CASE to = [c EXCEPT !.topup = T]
    BY <1>0, <1>6, <2>2, <2>5 DEF Database
  <2>6. ASSUME NEW paid \in Database, paid = [m EXCEPT !.topup = U],
               to = paid \/ (Redeemable(c, i, cmd.n) /\ to = Redeem(paid, i))
        PROVE  /\ to \in Database /\ to.order = c.order /\ to.cost = c.cost
               /\ to.shop.version = c.shop.version /\ to.shop.token = c.shop.token
               /\ \A u \in Topups : c.topup[u] # None => to.topup[u] # None
               /\ c.code # None => to.code # None
               /\ \A j \in Customers : to.uses[j] >= c.uses[j]
    <3>1. /\ paid.topup = U /\ paid.shop = c.shop /\ paid.code = c.code /\ paid.order = c.order
          /\ paid.cost = c.cost /\ paid.uses = c.uses
      BY <2>3, <2>6 DEF Database
    <3>2. CASE to = paid
      BY <1>0, <2>2, <2>6, <3>1, <3>2
    <3>3. CASE Redeemable(c, i, cmd.n) /\ to = Redeem(paid, i)
      <4>1. paid.code # None
        BY <3>1, <3>3 DEF Redeemable
      <4>2. /\ to \in Database /\ to.code # None /\ to.shop = paid.shop /\ to.topup = paid.topup
            /\ to.order = paid.order /\ to.cost = paid.cost
            /\ to.uses = [paid.uses EXCEPT ![i] = paid.uses[i] + 1]
        BY <2>1, <3>3, <4>1, RedeemIs
      <4>3. \A j \in Customers : to.uses[j] >= c.uses[j]
        <5>1. c.uses \in [Customers -> Nat]
          BY DEF Database
        <5> QED BY <3>1, <4>2, <5>1
      <4> QED BY <2>2, <3>1, <4>2, <4>3
    <3> QED BY <2>6, <3>2, <3>3
  <2> QED BY <1>6, <2>1, <2>4, <2>5, <2>6
<1>7. CASE cmd.do \in CodeDos
  <2>1. PICK K \in Code : to = [c EXCEPT !.code = K]
    BY <1>7, CodeOutcomes
  <2>2. K # None
    BY NoneShopAssumption
  <2> QED BY <1>0, <2>1, <2>2 DEF Database
<1> QED BY <1>1, <1>2, <1>3, <1>4, <1>5, <1>6, <1>7 DEF Executed, RowDos

-----------------------------------------------------------------------------
(* Commits.                                                                *)

LEMMA FlushIs ==
    ASSUME NEW now \in Database, NEW loaded \in Database, NEW wanted \in Database,
           \A i \in Customers : wanted.uses[i] >= loaded.uses[i]
    PROVE  LET to == Flush(now, loaded, wanted)
           IN /\ to \in Database
              /\ to.shop = MergeRow(now.shop, loaded.shop, wanted.shop)
              /\ to.plan = MergeRows(now.plan, loaded.plan, wanted.plan)
              /\ to.cust = MergeRows(now.cust, loaded.cust, wanted.cust)
              /\ to.topup = MergeRows(now.topup, loaded.topup, wanted.topup)
              /\ to.code = MergeRow(now.code, loaded.code, wanted.code)
              /\ to.ledger = Inserted(now.ledger, loaded.ledger, wanted.ledger)
              /\ to.uses = Inserted(now.uses, loaded.uses, wanted.uses)
              /\ to.order = now.order /\ to.cost = now.cost
<1> DEFINE S == MergeRow(now.shop, loaded.shop, wanted.shop)
           P == MergeRows(now.plan, loaded.plan, wanted.plan)
           C == MergeRows(now.cust, loaded.cust, wanted.cust)
           T == MergeRows(now.topup, loaded.topup, wanted.topup)
           K == MergeRow(now.code, loaded.code, wanted.code)
           L == Inserted(now.ledger, loaded.ledger, wanted.ledger)
           U == Inserted(now.uses, loaded.uses, wanted.uses)
<1>1. S \in Shop
  BY MergeTypes DEF Database
<1>2. P \in [Plans -> Plan]
  <2>1. \A p \in Plans : MergeRow(now.plan[p], loaded.plan[p], wanted.plan[p]) \in Plan
    BY MergeTypes DEF Database
  <2> QED BY <2>1 DEF MergeRows, Database
<1>3. C \in [Customers -> Customer]
  <2>1. \A p \in Customers : MergeRow(now.cust[p], loaded.cust[p], wanted.cust[p]) \in Customer
    BY MergeTypes DEF Database
  <2> QED BY <2>1 DEF MergeRows, Database
<1>4. T \in [Topups -> Topup]
  <2>1. \A p \in Topups : MergeRow(now.topup[p], loaded.topup[p], wanted.topup[p]) \in Topup
    BY MergeTypes DEF Database
  <2> QED BY <2>1 DEF MergeRows, Database
<1>5. K \in Code \cup {None}
  BY MergeTypes DEF Database
<1>6. L \in [Customers -> Int]
  BY DEF Inserted, Database
<1>7. U \in [Customers -> Nat]
  <2>1. \A i \in Customers : now.uses[i] + wanted.uses[i] - loaded.uses[i] \in Nat
    BY DEF Database
  <2> QED BY <2>1 DEF Inserted, Database
<1>8. Flush(now, loaded, wanted) =
        [[[[[[[now EXCEPT !.shop = S] EXCEPT !.plan = P] EXCEPT !.cust = C] EXCEPT !.topup = T]
          EXCEPT !.code = K] EXCEPT !.ledger = L] EXCEPT !.uses = U]
  BY DEF Flush, Database
<1> HIDE DEF S, P, C, T, K, L, U
<1>9. LET to == Flush(now, loaded, wanted)
      IN /\ to \in Database
         /\ to.shop = S /\ to.plan = P /\ to.cust = C /\ to.topup = T /\ to.code = K /\ to.ledger = L /\ to.uses = U
         /\ to.order = now.order /\ to.cost = now.cost
  BY <1>1, <1>2, <1>3, <1>4, <1>5, <1>6, <1>7, <1>8 DEF Database
<1> QED BY <1>9 DEF S, P, C, T, K, L, U

\* Rows that were not wanted otherwise stay as they are.
LEMMA RowsSame ==
    ASSUME NEW I, NEW R, NEW now \in [I -> R], NEW loaded
    PROVE  MergeRows(now, loaded, loaded) = now
<1>1. \A i \in I : MergeRow(now[i], loaded[i], loaded[i]) = now[i]
  BY MergeSame
<1> QED BY <1>1 DEF MergeRows

LEMMA InsertedSame ==
    ASSUME NEW now \in [Customers -> Int], NEW loaded \in [Customers -> Int]
    PROVE  Inserted(now, loaded, loaded) = now
BY DEF Inserted

LEMMA SameDatabase ==
    ASSUME NEW c \in Database, NEW d \in Database,
           c.shop = d.shop, c.plan = d.plan, c.cust = d.cust, c.topup = d.topup, c.code = d.code,
           c.order = d.order, c.cost = d.cost, c.ledger = d.ledger, c.uses = d.uses
    PROVE  c = d
BY DEF Database

-----------------------------------------------------------------------------
(* Types.  A request that works on the database has read it, a decision is *)
(* about a top-up that was asked for, and only bulk requests have parts.   *)

Part == Request({None})
SomeRequest == Request(Part \cup {None})
\* What holds of a request r when the rows are d.
Wellformed(r, d) ==
    /\ r.step = "open" => r.view \in Database /\ r.cmd.do \in Executed
    /\ r.cmd.do = "set_topup_decision" => d.topup[r.cmd.t] # None
    /\ r.step \in {"call", "answer"} => External(r.cmd)
    /\ r.step = "items" => r.cmd.do = "bulk_topup_decisions" /\ r.parent = None
    /\ r.cmd.do = "bulk_topup_decisions" => r.key \in (1..MaxSends) \X {0}
    /\ \A t \in r.left : d.topup[t] # None
Good(r, d) ==
    /\ r \in SomeRequest /\ Wellformed(r, d)
    /\ r.parent # None => /\ r.parent \in Part /\ Wellformed(r.parent, d)
                          /\ r.parent.step = "items" /\ r.cmd.do = "set_topup_decision"
SlotsOK == \A s \in Slots : req[s] # None => Good(req[s], db)
AskedOK == \A i \in DOMAIN asked :
    asked[i].cmd.do = "set_topup_decision" => db.topup[asked[i].cmd.t] # None
SweepOK == sweep # None =>
    /\ sweep.left \subseteq Plans
    /\ sweep.sent # None => \E p \in Plans : sweep.sent = SweepKey(p)
Typed == TypeOK /\ SlotsOK /\ AskedOK /\ SweepOK

\* The ways a step changes the variables.
Grows(d) == d \in Database /\ \A t \in Topups : db.topup[t] # None => d.topup[t] # None
KeysStep == keys' = keys \/ \E k \in Keys, row \in Key : keys' = [keys EXCEPT ![k] = row]
ReqStep == req' = req \/ \E s \in Slots : \E r : (r = None \/ Good(r, db)) /\ req' = [req EXCEPT ![s] = r]
AskedStep ==
    \/ asked' = asked /\ sends' \in {sends, sends + 1}
    \/ \E x \in Asked : /\ x.cmd.do = "set_topup_decision" => db.topup[x.cmd.t] # None
                        /\ asked' = Append(asked, x) /\ sends' = sends + 1
CountsStep ==
    /\ did' = did \/ \E k \in Keys : did' = [did EXCEPT ![k] = did[k] + 1]
    /\ calls' = calls \/ \E k \in Keys : calls' = [calls EXCEPT ![k] = calls[k] + 1]
AnyStep == /\ Grows(db') /\ KeysStep /\ ReqStep /\ AskedStep /\ CountsStep
           /\ SweepOK' /\ sends' <= MaxSends /\ world' = world

LEMMA GoodGrows ==
    ASSUME NEW r, NEW c, Good(r, c), NEW d, \A t \in Topups : c.topup[t] # None => d.topup[t] # None
    PROVE  Good(r, d)
<1>1. r \in SomeRequest /\ (r.parent # None => r.parent \in Part)
  BY DEF Good
<1>2. ASSUME NEW q \in SomeRequest \cup Part, Wellformed(q, c) PROVE Wellformed(q, d)
  <2>1. q.left \subseteq Topups /\ q.cmd \in Command
    BY <1>2 DEF SomeRequest, Request, Part
  <2>2. q.cmd.do = "set_topup_decision" => q.cmd.t \in Topups
    BY <2>1, CommandFields
  <2> QED BY <1>2, <2>1, <2>2 DEF Wellformed
<1> QED BY <1>1, <1>2 DEF Good

LEMMA PartIsRequest == \A r \in Part : r \in SomeRequest
BY DEF Request, Part, SomeRequest

\* A step that changes the variables in these ways keeps the types.
LEMMA TypedKept ==
    ASSUME Typed, AnyStep
    PROVE  Typed'
<1>1. db' \in Database /\ \A t \in Topups : db.topup[t] # None => db'.topup[t] # None
  BY DEF AnyStep, Grows
<1>2. keys' \in [Keys -> Key \cup {None}]
  BY DEF AnyStep, KeysStep, Typed, TypeOK
<1>3. req \in [Slots -> SomeRequest \cup {None}] /\ \A s \in Slots : req[s] # None => Good(req[s], db')
  <2>1. \A s \in Slots : req[s] # None => Good(req[s], db')
    BY <1>1, GoodGrows DEF Typed, SlotsOK
  <2> QED BY <2>1 DEF Typed, TypeOK, SomeRequest, Part
<1>4. req' \in [Slots -> SomeRequest \cup {None}] /\ SlotsOK'
  <2>1. CASE req' = req
    BY <1>3, <2>1 DEF SlotsOK
  <2>2. ASSUME NEW s \in Slots, NEW r, r = None \/ Good(r, db), req' = [req EXCEPT ![s] = r]
        PROVE  req' \in [Slots -> SomeRequest \cup {None}] /\ SlotsOK'
    <3>1. r = None \/ Good(r, db')
      BY <1>1, <2>2, GoodGrows
    <3>2. r \in SomeRequest \cup {None}
      BY <3>1 DEF Good
    <3> QED BY <1>3, <2>2, <3>1, <3>2 DEF SlotsOK
  <2> QED BY <2>1, <2>2 DEF AnyStep, ReqStep
<1>5. asked' \in Seq(Asked) /\ sends' \in 0..MaxSends /\ Len(asked') <= sends' /\ AskedOK'
  <2>1. asked \in Seq(Asked) /\ sends \in 0..MaxSends /\ Len(asked) <= sends /\ AskedOK /\ Len(asked) \in Nat
    BY DEF Typed, TypeOK
  <2>2. ASSUME NEW i \in DOMAIN asked, asked[i].cmd.do = "set_topup_decision"
        PROVE  db'.topup[asked[i].cmd.t] # None
    <3>1. asked[i] \in Asked
      BY <2>1
    <3>2. asked[i].cmd.t \in Topups
      BY <2>2, <3>1, CommandFields DEF Asked
    <3> QED BY <1>1, <2>1, <2>2, <3>2 DEF AskedOK
  <2>3. CASE asked' = asked /\ sends' \in {sends, sends + 1}
    BY <2>1, <2>2, <2>3, BoundsAssumption DEF AnyStep, AskedOK
  <2>4. ASSUME NEW x \in Asked, x.cmd.do = "set_topup_decision" => db.topup[x.cmd.t] # None,
               asked' = Append(asked, x), sends' = sends + 1
        PROVE  asked' \in Seq(Asked) /\ sends' \in 0..MaxSends /\ Len(asked') <= sends' /\ AskedOK'
    <3>1. asked' \in Seq(Asked) /\ Len(asked') = Len(asked) + 1
      BY <2>1, <2>4
    <3>2. x.cmd.do = "set_topup_decision" => db'.topup[x.cmd.t] # None
      <4>1. x.cmd.do = "set_topup_decision" => x.cmd.t \in Topups
        BY <2>4, CommandFields DEF Asked
      <4> QED BY <1>1, <2>4, <4>1
    <3>3. ASSUME NEW i \in DOMAIN asked' PROVE asked'[i] = x \/ (i \in DOMAIN asked /\ asked'[i] = asked[i])
      BY <2>1, <2>4, <3>3
    <3>4. AskedOK'
      BY <2>2, <3>2, <3>3 DEF AskedOK
    <3> QED BY <2>1, <2>4, <3>1, <3>4, BoundsAssumption DEF AnyStep
  <2> QED BY <2>3, <2>4 DEF AnyStep, AskedStep
<1>6. did' \in [Keys -> Nat] /\ calls' \in [Keys -> Nat]
  <2>1. ASSUME NEW f \in [Keys -> Nat], NEW k \in Keys PROVE [f EXCEPT ![k] = f[k] + 1] \in [Keys -> Nat]
    OBVIOUS
  <2>2. did \in [Keys -> Nat] /\ calls \in [Keys -> Nat]
    BY DEF Typed, TypeOK
  <2> QED BY <2>1, <2>2 DEF AnyStep, CountsStep
<1>7. world' \in Worlds /\ SweepOK'
  BY DEF AnyStep, Typed, TypeOK
<1> QED BY <1>1, <1>2, <1>4, <1>5, <1>6, <1>7 DEF Typed, TypeOK, SomeRequest, Part

\* The request of a slot, what it claims and what it is answered.
LEMMA SlotIs ==
    ASSUME Typed, NEW s \in Slots, req[s] # None
    PROVE  /\ Good(req[s], db) /\ req[s] \in SomeRequest
           /\ req[s].key \in Keys /\ req[s].cmd \in Command /\ req[s].seen \in Nat
           /\ req[s].left \subseteq Topups
           /\ Intent(req[s]) \in [cmd : Command, seen : Nat]
<1>1. Good(req[s], db) /\ req[s] \in SomeRequest
  BY DEF Typed, SlotsOK, Good
<1>2. req[s].key \in Keys /\ req[s].cmd \in Command /\ req[s].seen \in Nat /\ req[s].left \subseteq Topups
  BY <1>1 DEF SomeRequest, Request, Part
<1> QED BY <1>1, <1>2 DEF Intent

LEMMA ReplySteps ==
    ASSUME Typed, NEW s \in Slots, req[s] # None, NEW answer, Reply(s, answer)
    PROVE  ReqStep
<1>1. req[s].parent # None => Good(req[s].parent, db)
  <2>1. ASSUME req[s].parent # None
        PROVE  /\ req[s].parent \in Part /\ req[s].parent \in SomeRequest
               /\ Wellformed(req[s].parent, db)
    BY <2>1, SlotIs, PartIsRequest DEF Good
  <2>2. \A r \in Part : r.parent = None
    BY DEF Request, Part
  <2> QED BY <2>1, <2>2 DEF Good
<1> QED BY <1>1 DEF Reply, ReqStep

LEMMA RowSteps ==
    ASSUME Typed, NEW s \in Slots, req[s] # None,
           NEW status \in {"pending", "succeeded", "failed", "unknown"},
           NEW answer \in {None, "ok", "refused", "config_conflict", "unknown"}
    PROVE  Row(req[s], status, answer) \in Key /\ Pending(req[s]) \in Key
BY SlotIs DEF Row, Pending, Key

LEMMA CacheSteps ==
    ASSUME Typed, NEW s \in Slots, req[s] # None,
           NEW status \in {"pending", "succeeded", "failed", "unknown"},
           NEW answer \in {None, "ok", "refused", "config_conflict", "unknown"}, Caches(s, status, answer)
    PROVE  KeysStep
BY SlotIs, RowSteps DEF Caches, KeysStep

LEMMA ErrorGrows == ASSUME Typed, ChannelError PROVE Grows(db') /\ db'.topup = db.topup
<1>1. db \in Database
  BY DEF Typed, TypeOK
<1>2. [db.shop EXCEPT !.error = TRUE] \in Shop
  BY <1>1 DEF Database, Shop
<1>3. db' = [db EXCEPT !.shop = [db.shop EXCEPT !.error = TRUE]]
  BY <1>1 DEF ChannelError, Database
<1> QED BY <1>1, <1>2, <1>3 DEF Grows, Database

LEMMA SameGrows == ASSUME Typed, UNCHANGED db PROVE Grows(db')
BY DEF Typed, TypeOK, Grows

\* A request that is just sent.
LEMMA SentIs ==
    ASSUME NEW key \in Keys, NEW cmd \in Command, NEW by \in Customers \cup {Owner, System},
           NEW via \in {"portal", "flow", "button", "system"}, NEW seen \in Nat
    PROVE  LET r == Sent(key, cmd, by, via, seen)
           IN /\ r \in Part /\ r \in SomeRequest
              /\ r.key = key /\ r.cmd = cmd /\ r.by = by /\ r.via = via /\ r.step = "sent" /\ r.parent = None
              /\ r.left = {} /\ r.seen = IF OnVersion(cmd) THEN seen ELSE 0
              /\ r.seen \in Nat
<1> DEFINE r == Sent(key, cmd, by, via, seen)
<1>1. /\ r.key = key /\ r.cmd = cmd /\ r.by = by /\ r.via = via /\ r.step = "sent" /\ r.parent = None
      /\ r.left = {} /\ r.seen = IF OnVersion(cmd) THEN seen ELSE 0
  BY DEF Sent
<1>2. r \in Part
  BY DEF Sent, Request, Part
<1>3. r \in SomeRequest
  BY <1>2, PartIsRequest
<1> HIDE DEF r
<1> QED BY <1>1, <1>2, <1>3 DEF r

LEMMA SentGood ==
    ASSUME NEW key \in Keys, NEW cmd \in Command, NEW by \in Customers \cup {Owner, System},
           NEW via \in {"portal", "flow", "button", "system"}, NEW seen \in Nat,
           cmd.do = "bulk_topup_decisions" => key \in (1..MaxSends) \X {0},
           NEW d, cmd.do = "set_topup_decision" => d.topup[cmd.t] # None
    PROVE  Good(Sent(key, cmd, by, via, seen), d)
<1> DEFINE r == Sent(key, cmd, by, via, seen)
<1>1. r \in SomeRequest /\ r.key = key /\ r.cmd = cmd /\ r.step = "sent" /\ r.parent = None /\ r.left = {}
  BY SentIs
<1> HIDE DEF r
<1>2. Good(r, d)
  BY <1>1 DEF Good, Wellformed
<1> QED BY <1>2 DEF r

\* A request may go on to another step of its work.
LEMMA RequestFields ==
    ASSUME NEW r \in SomeRequest
    PROVE  /\ DOMAIN r = {"key", "cmd", "by", "via", "seen", "step", "view", "answer", "left", "parent", "token"}
           /\ \A x \in {"sent", "open", "call", "answer", "items"} : [r EXCEPT !.step = x] \in SomeRequest
           /\ \A x \in Database \cup {None} : [r EXCEPT !.view = x] \in SomeRequest
           /\ \A x \in {None, "yes", "no", "unclear"} : [r EXCEPT !.answer = x] \in SomeRequest
           /\ \A x \in Nat : [r EXCEPT !.token = x] \in SomeRequest
           /\ \A x \in Command : [r EXCEPT !.cmd = x] \in SomeRequest
           /\ \A x \in SUBSET Topups : [r EXCEPT !.left = x] \in SomeRequest
<1>1. DOMAIN r = {"key", "cmd", "by", "via", "seen", "step", "view", "answer", "left", "parent", "token"}
  BY DEF SomeRequest, Request, Part
<1>2. \A x \in {"sent", "open", "call", "answer", "items"} : [r EXCEPT !.step = x] \in SomeRequest
  BY DEF SomeRequest, Request, Part
<1>3. \A x \in Database \cup {None} : [r EXCEPT !.view = x] \in SomeRequest
  BY DEF SomeRequest, Request, Part
<1>4. \A x \in {None, "yes", "no", "unclear"} : [r EXCEPT !.answer = x] \in SomeRequest
  BY DEF SomeRequest, Request, Part
<1>5. \A x \in Nat : [r EXCEPT !.token = x] \in SomeRequest
  BY DEF SomeRequest, Request, Part
<1>6. \A x \in Command : [r EXCEPT !.cmd = x] \in SomeRequest
  BY DEF SomeRequest, Request, Part
<1>7. \A x \in SUBSET Topups : [r EXCEPT !.left = x] \in SomeRequest
  BY DEF SomeRequest, Request, Part
<1> QED BY <1>1, <1>2, <1>3, <1>4, <1>5, <1>6, <1>7

\* Whatever is offered is a command, on a surface; a decision is offered for a top-up there is.
LEMMA OfferedIs ==
    ASSUME Typed, NEW o \in Offered
    PROVE  /\ o.cmd \in Command /\ o.via \in {"portal", "flow", "button"}
           /\ o.cmd.do = "set_topup_decision" => db.topup[o.cmd.t] # None
<1> DEFINE Fine == {c \in Command : c.do # "set_topup_decision"}
           Decided == {c \in Command : c.do = "set_topup_decision" /\ db.topup[c.t] # None}
<1>1. CreatePlans \subseteq Fine /\ UpdatePlans \subseteq Fine /\ EnablePlans \subseteq Fine /\ DeletePlans \subseteq Fine
  <2>1. ASSUME NEW n \in Nat PROVE [do |-> "create_plan", gb |-> 1, price |-> n] \in Fine
    <3>1. 1 \in 1..2
      OBVIOUS
    <3>2. [do |-> "create_plan", gb |-> 1, price |-> n] \in [do : {"create_plan"}, gb : 1..2, price : Nat]
      BY <3>1
    <3> QED BY <3>2 DEF Command
  <2>2. ASSUME NEW p \in Plans, NEW s \in {[price |-> 1], [price |-> 2], [gb |-> 2]}
        PROVE  [do |-> "update_plan", p |-> p, set |-> s] \in Fine
    BY DEF Command
  <2>3. ASSUME NEW p \in Plans, NEW b \in BOOLEAN PROVE [do |-> "set_plan_enabled", p |-> p, on |-> b] \in Fine
    BY DEF Command
  <2>4. ASSUME NEW p \in Plans PROVE [do |-> "delete_plan", p |-> p] \in Fine
    BY DEF Command
  <2> HIDE DEF Fine
  <2>5. CreatePlans \subseteq Fine
    <3>1. 1..2 \subseteq Nat
      OBVIOUS
    <3> QED BY <2>1, <3>1 DEF CreatePlans
  <2>6. UpdatePlans \subseteq Fine
    <3>1. ASSUME NEW x \in UpdatePlans PROVE x \in Fine
      <4>1. PICK p \in Plans, s \in {[price |-> 1], [price |-> 2], [gb |-> 2]} :
                x = [do |-> "update_plan", p |-> p, set |-> s]
        BY <3>1 DEF UpdatePlans
      <4> QED BY <2>2, <4>1
    <3> QED BY <3>1
  <2>7. EnablePlans \subseteq Fine
    BY <2>3 DEF EnablePlans
  <2>8. DeletePlans \subseteq Fine
    BY <2>4 DEF DeletePlans
  <2> QED BY <2>5, <2>6, <2>7, <2>8
<1>2. ReorderPlans \subseteq Fine
  <2>1. ASSUME NEW ids \in {<<2, 1>>, <<1, 2>>} PROVE [do |-> "reorder_plans", ids |-> ids] \in Fine
    BY DEF Command
  <2> HIDE DEF Fine
  <2> QED BY <2>1 DEF ReorderPlans
<1>3. ASSUME NEW do \in Edits, NEW set \in Settings PROVE [do |-> do, set |-> set] \in Fine
  BY DEF Command, Edits
<1>4. /\ Toggle("update_payment", "card") \subseteq Fine /\ Toggle("update_trial", "trial") \subseteq Fine
      /\ Toggle("update_shop_state", "closed") \subseteq Fine /\ Toggle("update_notifications", "events") \subseteq Fine
  <2>1. ASSUME NEW a \in {"card", "trial", "closed", "events"}, NEW do \in Edits
        PROVE  Toggle(do, a) \subseteq Fine
    <3>1. ASSUME NEW b \in BOOLEAN PROVE [x \in {a} |-> b] \in Settings
      <4>1. [x \in {a} |-> b] \in [{a} -> BOOLEAN]
        OBVIOUS
      <4>2. CASE a = "card"
        <5>1. [x \in {a} |-> b] = [card |-> b]
          BY <4>2
        <5> QED BY <5>1 DEF Settings
      <4>3. CASE a = "trial"
        <5>1. [x \in {a} |-> b] = [trial |-> b]
          BY <4>3
        <5> QED BY <5>1 DEF Settings
      <4>4. CASE a = "closed"
        <5>1. [x \in {a} |-> b] = [closed |-> b]
          BY <4>4
        <5> QED BY <5>1 DEF Settings
      <4>5. CASE a = "events"
        <5>1. [x \in {a} |-> b] = [events |-> b]
          BY <4>5
        <5> QED BY <5>1 DEF Settings
      <4> QED BY <4>2, <4>3, <4>4, <4>5
    <3> HIDE DEF Fine
    <3>2. \A b \in BOOLEAN : [do |-> do, set |-> [x \in {a} |-> b]] \in Fine
      BY <1>3, <3>1
    <3> QED BY <3>2 DEF Toggle
  <2> HIDE DEF Fine
  <2> QED BY <2>1 DEF Edits
<1>5. Numbers \subseteq Fine /\ Texts \subseteq Fine
  <2>1. ASSUME NEW n \in {None, "card"} PROVE [number |-> n] \in Settings
    BY DEF Settings
  <2>2. ASSUME NEW n \in {None, "text"} PROVE [text |-> n] \in Settings
    BY DEF Settings
  <2> HIDE DEF Fine
  <2> QED BY <1>3, <2>1, <2>2 DEF Numbers, Texts, Edits
<1>6. SaveChannels \subseteq Fine /\ EnableChannel \subseteq Fine
  <2>1. ASSUME NEW ch \in {"c1", "c2"} PROVE [do |-> "channel.save", channel |-> ch] \in Fine
    BY DEF Command
  <2>2. [do |-> "channel.enable", channel |-> None] \in Fine
    BY DEF Command
  <2> HIDE DEF Fine
  <2> QED BY <2>1, <2>2 DEF SaveChannels, EnableChannel
<1>7. /\ [do |-> "set_channel_required", set |-> [required |-> FALSE]] \in Fine
      /\ [do |-> "delete_channel"] \in Fine /\ [do |-> "archive_credit"] \in Fine
      /\ [do |-> "order.delete"] \in Fine
  BY DEF Command
<1>8. /\ Managers("add_manager") \subseteq Fine /\ Managers("remove_manager") \subseteq Fine
      /\ Bans \subseteq Fine /\ Adjusts \subseteq Fine
  <2>1. ASSUME NEW m \in Customers, NEW do \in {"add_manager", "remove_manager"} PROVE [do |-> do, m |-> m] \in Fine
    BY DEF Command
  <2>2. ASSUME NEW c \in Customers, NEW b \in BOOLEAN PROVE [do |-> "set_customer_banned", c |-> c, on |-> b] \in Fine
    BY DEF Command
  <2>3. ASSUME NEW c \in Customers, NEW n \in Int PROVE [do |-> "adjust_wallet", c |-> c, n |-> n] \in Fine
    BY DEF Command
  <2> HIDE DEF Fine
  <2>4. Managers("add_manager") \subseteq Fine /\ Managers("remove_manager") \subseteq Fine
    BY <2>1 DEF Managers
  <2>5. Bans \subseteq Fine
    BY <2>2 DEF Bans
  <2>6. Adjusts \subseteq Fine
    <3>1. {-2, 1} \subseteq Int
      OBVIOUS
    <3> QED BY <2>3, <3>1 DEF Adjusts
  <2> QED BY <2>4, <2>5, <2>6
<1>9. Confirms(0) \subseteq Decided /\ Confirms(1) \subseteq Decided /\ Rejects \subseteq Decided
  <2>1. ASSUME NEW t \in Requested, NEW yes \in BOOLEAN, NEW n \in Nat
        PROVE  [do |-> "set_topup_decision", t |-> t, yes |-> yes, n |-> n] \in Decided
    BY DEF Requested, Command
  <2>2. \A t \in Requested : db.topup[t].amount \in Nat
    BY DEF Requested, Typed, TypeOK, Database, Topup, SomeTopup
  <2>3. \A t \in Requested : db.topup[t].amount + 0 \in Nat /\ db.topup[t].amount + 1 \in Nat
    BY <2>2
  <2> HIDE DEF Decided
  <2> QED BY <2>1, <2>3 DEF Confirms, Rejects
<1>10. /\ \A b \in BOOLEAN : [do |-> "bulk_topup_decisions", yes |-> b] \in Fine
       /\ \A b \in BOOLEAN : [do |-> "order.set_enabled", on |-> b] \in Fine
       /\ CreateCredits \subseteq Fine /\ EnableCredits \subseteq Fine
       /\ \A s \in {[worth |-> 2], [on |-> TRUE]} : [do |-> "update_credit", set |-> s] \in Fine
  <2>1. ASSUME NEW b \in BOOLEAN
        PROVE  /\ [do |-> "bulk_topup_decisions", yes |-> b] \in Fine
               /\ [do |-> "order.set_enabled", on |-> b] \in Fine /\ [do |-> "set_credit_enabled", on |-> b] \in Fine
    BY DEF Command
  <2>2. ASSUME NEW g \in BOOLEAN PROVE [do |-> "create_credit", gift |-> g, worth |-> 1, cap |-> 1] \in Fine
    BY DEF Command
  <2>3. ASSUME NEW s \in {[worth |-> 2], [on |-> TRUE]} PROVE [do |-> "update_credit", set |-> s] \in Fine
    BY DEF Command
  <2> HIDE DEF Fine
  <2> QED BY <2>1, <2>2, <2>3 DEF CreateCredits, EnableCredits
<1> DEFINE Known == Fine \cup Decided
<1>11. \A C : C \subseteq Known => /\ \A x \in Portal(C) : x.via = "portal" /\ x.cmd \in Known
                                   /\ \A x \in Flow(C) : x.via = "flow" /\ x.cmd \in Known
                                   /\ \A x \in Button(C) : x.via = "button" /\ x.cmd \in Known
  BY DEF Portal, Flow, Button
<1>12. \A c \in Known : c \in Command /\ (c.do = "set_topup_decision" => db.topup[c.t] # None)
  OBVIOUS
<1> DEFINE Right == {x \in Offered : x.via \in {"portal", "flow", "button"} /\ x.cmd \in Known}
<1> HIDE DEF Fine, Decided
<1>13. /\ CreatePlans \cup UpdatePlans \cup EnablePlans \cup DeletePlans \cup ReorderPlans \subseteq Known
       /\ CreatePlans \subseteq Known /\ EnablePlans \cup DeletePlans \cup ReorderPlans \subseteq Known
       /\ UpdatePlans \subseteq Known
  BY <1>1, <1>2
<1>14. /\ Toggle("update_payment", "card") \subseteq Known /\ {c \in Numbers : c.set.number # None} \subseteq Known
       /\ Toggle("update_trial", "trial") \subseteq Known /\ Texts \subseteq Known
       /\ Toggle("update_shop_state", "closed") \cup Toggle("update_notifications", "events") \subseteq Known
       /\ Numbers \cup Texts \cup Toggle("update_payment", "card") \cup Toggle("update_trial", "trial")
           \cup Toggle("update_shop_state", "closed") \cup Toggle("update_notifications", "events") \subseteq Known
  BY <1>4, <1>5
<1>15. /\ SaveChannels \subseteq Known
       /\ EnableChannel \cup {[do |-> "set_channel_required", set |-> [required |-> FALSE]]} \subseteq Known
       /\ {[do |-> "delete_channel"]} \subseteq Known
       /\ SaveChannels \cup EnableChannel \cup {[do |-> "delete_channel"]}
                        \cup {[do |-> "set_channel_required", set |-> [required |-> FALSE]]} \subseteq Known
  BY <1>6, <1>7
<1>16. /\ Managers("add_manager") \subseteq Known /\ Managers("remove_manager") \subseteq Known
       /\ Managers("add_manager") \cup Managers("remove_manager") \subseteq Known
       /\ Bans \subseteq Known /\ Adjusts \subseteq Known
  BY <1>8
<1>17. /\ Confirms(0) \cup Rejects \subseteq Known /\ Confirms(1) \subseteq Known
       /\ Confirms(0) \cup Confirms(1) \cup Rejects \subseteq Known
       /\ {[do |-> "bulk_topup_decisions", yes |-> b] : b \in BOOLEAN} \subseteq Known
  BY <1>9, <1>10
<1>18. /\ CreateCredits \subseteq Known /\ EnableCredits \cup {[do |-> "archive_credit"]} \subseteq Known
       /\ CreateCredits \cup EnableCredits \cup {[do |-> "archive_credit"]}
           \cup {[do |-> "update_credit", set |-> s] : s \in {[worth |-> 2], [on |-> TRUE]}} \subseteq Known
       /\ {[do |-> "order.set_enabled", on |-> b] : b \in BOOLEAN} \cup {[do |-> "order.delete"]} \subseteq Known
  BY <1>7, <1>10
<1> HIDE DEF Known
<1>19. BotPlanAdd \cup BotPlanList \cup BotPlanEdit \cup PortalPlans \subseteq Right
  BY <1>11, <1>13 DEF Offered, BotPlanAdd, BotPlanList, BotPlanEdit, PortalPlans
<1>20. BotPayment \cup BotTrial \cup BotMessages \cup BotShopState \cup PortalSettings \subseteq Right
  BY <1>11, <1>14 DEF Offered, BotPayment, BotTrial, BotMessages, BotShopState, PortalSettings
<1>21. BotChannelSave \cup BotChannelToggle \cup BotChannelClear \cup PortalChannel \subseteq Right
  BY <1>11, <1>15 DEF Offered, BotChannelSave, BotChannelToggle, BotChannelClear, PortalChannel
<1>22. BotManagers \cup PortalManagers \cup BotBans \cup PortalBans \cup BotAdjusts \cup PortalAdjusts \subseteq Right
  BY <1>11, <1>16 DEF Offered, BotManagers, PortalManagers, BotBans, PortalBans, BotAdjusts, PortalAdjusts
<1>23. BotTopups \cup PortalTopups \subseteq Right
  BY <1>11, <1>17 DEF Offered, BotTopups, PortalTopups
<1>24. BotCreditAdd \cup BotCreditList \cup PortalCredits \cup PortalOrders \subseteq Right
  BY <1>11, <1>18 DEF Offered, BotCreditAdd, BotCreditList, PortalCredits, PortalOrders
<1>25. Offered \subseteq Right
  <2> HIDE DEF Right
  <2> QED BY <1>19, <1>20, <1>21, <1>22, <1>23, <1>24 DEF Offered
<1> QED BY <1>12, <1>25

\* A session that loaded what is still there makes of it what it wants.
LEMMA FlushLocked ==
    ASSUME NEW c \in Database, NEW to \in Database, to.order = c.order, to.cost = c.cost,
           \A i \in Customers : to.uses[i] >= c.uses[i]
    PROVE  Flush(c, c, to) = to
<1> DEFINE F == Flush(c, c, to)
<1>1. /\ F \in Database /\ F.order = c.order /\ F.cost = c.cost
      /\ F.shop = MergeRow(c.shop, c.shop, to.shop)
      /\ F.plan = MergeRows(c.plan, c.plan, to.plan)
      /\ F.cust = MergeRows(c.cust, c.cust, to.cust)
      /\ F.topup = MergeRows(c.topup, c.topup, to.topup)
      /\ F.code = MergeRow(c.code, c.code, to.code)
      /\ F.ledger = Inserted(c.ledger, c.ledger, to.ledger)
      /\ F.uses = Inserted(c.uses, c.uses, to.uses)
  BY FlushIs
<1> HIDE DEF F
<1> DEFINE Fits(now, wanted) ==
        {None, Gone} \cap {now, wanted} = {} => /\ DOMAIN now = DOMAIN wanted
                                                /\ wanted = [a \in DOMAIN wanted |-> wanted[a]]
<1>2. \A now, wanted : Fits(now, wanted) => MergeRow(now, now, wanted) = wanted
  BY MergeUntouched
<1>3. /\ \A a, b \in Shop : Fits(a, b)
      /\ \A a, b \in Customer : Fits(a, b)
  BY DEF Shop, Customer
<1>4. \A a, b \in Plan : Fits(a, b)
  BY DEF Plan, SomePlan
<1>5. \A a, b \in Topup : Fits(a, b)
  BY DEF Topup, SomeTopup
<1>6. \A a, b \in Code \cup {None} : Fits(a, b)
  BY DEF Code
<1> HIDE DEF Fits
<1>7. F.shop = to.shop /\ F.code = to.code
  BY <1>1, <1>2, <1>3, <1>6 DEF Database
<1>8. F.plan = to.plan
  <2>1. \A p \in Plans : MergeRow(c.plan[p], c.plan[p], to.plan[p]) = to.plan[p]
    BY <1>2, <1>4 DEF Database
  <2> QED BY <1>1, <2>1 DEF MergeRows, Database
<1>9. F.cust = to.cust
  <2>1. \A p \in Customers : MergeRow(c.cust[p], c.cust[p], to.cust[p]) = to.cust[p]
    BY <1>2, <1>3 DEF Database
  <2> QED BY <1>1, <2>1 DEF MergeRows, Database
<1>10. F.topup = to.topup
  <2>1. \A p \in Topups : MergeRow(c.topup[p], c.topup[p], to.topup[p]) = to.topup[p]
    BY <1>2, <1>5 DEF Database
  <2> QED BY <1>1, <2>1 DEF MergeRows, Database
<1>11. F.ledger = to.ledger /\ F.uses = to.uses
  <2>1. \A i \in Customers : /\ c.ledger[i] + to.ledger[i] - c.ledger[i] = to.ledger[i]
                             /\ c.uses[i] + to.uses[i] - c.uses[i] = to.uses[i]
    BY DEF Database
  <2>2. F.ledger = [i \in Customers |-> to.ledger[i]]
    BY <1>1, <2>1 DEF Inserted, Database
  <2>3. F.uses = [i \in Customers |-> to.uses[i]]
    BY <1>1, <2>1 DEF Inserted, Database
  <2> QED BY <2>2, <2>3 DEF Database
<1> QED BY <1>1, <1>7, <1>8, <1>9, <1>10, <1>11, SameDatabase DEF F

Base(r) == IF Locked(r.cmd) THEN db ELSE r.view
\* What a commit makes of the rows: what the command wants, merged into them, under the next version.
LEMMA CommitIs ==
    ASSUME Typed, NEW s \in Slots, Commit(s)
    PROVE  /\ req[s] # None /\ req[s].cmd \in Command /\ req[s].cmd.do \in Executed
           /\ db \in Database /\ req[s].view \in Database
           /\ \E to \in Outcomes(req[s].cmd, Base(req[s])) :
                LET F == Flush(db, Base(req[s]), to)
                IN /\ to \in Database /\ F \in Database
                   /\ Locked(req[s].cmd) => F = to
                   /\ F.shop = MergeRow(db.shop, Base(req[s]).shop, to.shop)
                   /\ F.plan = MergeRows(db.plan, Base(req[s]).plan, to.plan)
                   /\ F.cust = MergeRows(db.cust, Base(req[s]).cust, to.cust)
                   /\ F.code = MergeRow(db.code, Base(req[s]).code, to.code)
                   /\ F.ledger = Inserted(db.ledger, Base(req[s]).ledger, to.ledger)
                   /\ db' \in Database
                   /\ db'.shop = [F.shop EXCEPT !.version =
                                     IF OnVersion(req[s].cmd) THEN F.shop.version + 1 ELSE F.shop.version]
                   /\ db'.plan = F.plan /\ db'.cust = F.cust /\ db'.topup = F.topup /\ db'.code = F.code
                   /\ db'.ledger = F.ledger /\ db'.uses = F.uses
                   /\ db'.order = db.order /\ db'.cost = db.cost
                   /\ req[s].cmd.do # "set_topup_decision" => db'.topup = db.topup /\ db'.uses = db.uses
           /\ Grows(db')
<1> DEFINE r == req[s]
           base == Base(r)
<1>1. /\ r # None /\ r.cmd \in Command /\ r.cmd.do \in Executed /\ db \in Database /\ r.view \in Database
      /\ r.cmd.do = "set_topup_decision" => db.topup[r.cmd.t] # None
  BY SlotIs DEF Commit, Opened, Good, Wellformed, Typed, TypeOK
<1>2. base \in Database /\ (r.cmd.do = "set_topup_decision" => base = db)
  BY <1>1 DEF Base, Locked
<1>3. PICK to \in Outcomes(r.cmd, base) :
        db' = [Flush(db, base, to) EXCEPT !.shop.version = IF OnVersion(r.cmd) THEN @ + 1 ELSE @]
  BY DEF Commit, Base
<1> DEFINE F == Flush(db, base, to)
           S == [F.shop EXCEPT !.version = IF OnVersion(r.cmd) THEN F.shop.version + 1 ELSE F.shop.version]
<1>4. /\ to \in Database /\ to.order = base.order /\ to.cost = base.cost
      /\ r.cmd.do # "set_topup_decision" => to.uses = base.uses /\ to.topup = base.topup
      /\ \A t \in Topups : base.topup[t] # None => to.topup[t] # None
      /\ \A i \in Customers : to.uses[i] >= base.uses[i]
  BY <1>1, <1>2, OutcomesTyped
<1> HIDE DEF base, r
<1>5. /\ F \in Database /\ F.order = db.order /\ F.cost = db.cost
      /\ F.shop = MergeRow(db.shop, base.shop, to.shop)
      /\ F.plan = MergeRows(db.plan, base.plan, to.plan)
      /\ F.cust = MergeRows(db.cust, base.cust, to.cust)
      /\ F.topup = MergeRows(db.topup, base.topup, to.topup)
      /\ F.code = MergeRow(db.code, base.code, to.code)
      /\ F.ledger = Inserted(db.ledger, base.ledger, to.ledger)
      /\ F.uses = Inserted(db.uses, base.uses, to.uses)
  BY <1>1, <1>2, <1>4, FlushIs
<1>6. Locked(r.cmd) => F = to
  BY <1>1, <1>2, <1>4, FlushLocked DEF base, Base, r
<1>7. ASSUME r.cmd.do # "set_topup_decision" PROVE F.topup = db.topup /\ F.uses = db.uses
  <2>1. F.topup = db.topup
    <3>1. db.topup \in [Topups -> Topup]
      BY <1>1 DEF Database
    <3> QED BY <1>4, <1>5, <1>7, <3>1, RowsSame
  <2>2. F.uses = db.uses
    <3>1. db.uses \in [Customers -> Int] /\ base.uses \in [Customers -> Int]
      BY <1>1, <1>2 DEF Database
    <3> QED BY <1>4, <1>5, <1>7, <3>1, InsertedSame
  <2> QED BY <2>1, <2>2
<1>8. db' = [F EXCEPT !.shop = S]
  <2>1. F = Flush(db, base, to)
    OBVIOUS
  <2> HIDE DEF F
  <2> QED BY <1>3, <1>5, <2>1 DEF Database
<1> HIDE DEF F
<1>9. S \in Shop
  BY <1>5 DEF Database, Shop
<1> HIDE DEF S
<1>10. /\ db' \in Database /\ db'.shop = S
       /\ db'.plan = F.plan /\ db'.cust = F.cust /\ db'.topup = F.topup /\ db'.code = F.code
       /\ db'.ledger = F.ledger /\ db'.uses = F.uses
       /\ db'.order = F.order /\ db'.cost = F.cost
  BY <1>5, <1>8, <1>9 DEF Database
<1>11. \A t \in Topups : db.topup[t] # None => db'.topup[t] # None
  <2>1. CASE r.cmd.do # "set_topup_decision"
    BY <1>7, <1>10, <2>1
  <2>2. CASE r.cmd.do = "set_topup_decision"
    BY <1>2, <1>4, <1>6, <1>10, <2>2 DEF Locked
  <2> QED BY <2>1, <2>2
<1>12. Grows(db')
  BY <1>10, <1>11 DEF Grows
<1> QED BY <1>1, <1>4, <1>5, <1>6, <1>7, <1>10, <1>12 DEF r, base, F, S

\* Every step of the administrators, the sweeps and the world is one of these ways.
LEMMA AdminSteps == ASSUME Typed, Next PROVE AnyStep
<1>1. /\ sends \in 0..MaxSends /\ MaxSends \in Nat /\ world \in Worlds /\ db \in Database
      /\ asked \in Seq(Asked) /\ Len(asked) \in Nat /\ Len(asked) <= sends /\ sends <= MaxSends
      /\ Current \in Nat
  BY BoundsAssumption DEF Typed, TypeOK, Current, Database, Shop
<1>2. world.sends \in 0..MaxSends /\ world.by \subseteq Customers \cup {Owner}
  BY <1>1, WorldsAssumption
<1> DEFINE Rest == /\ AskedStep /\ CountsStep /\ sends' <= MaxSends /\ world' = world
<1>3. ASSUME UNCHANGED <<asked, sends, world, did, calls>> PROVE Rest
  BY <1>1, <1>3 DEF AskedStep, CountsStep
<1>4. ASSUME UNCHANGED sweep PROVE SweepOK'
  BY <1>4 DEF Typed, SweepOK
<1>5. ASSUME UNCHANGED keys PROVE KeysStep
  BY <1>5 DEF KeysStep
<1>6. ASSUME NEW n \in 1..MaxSends, NEW t \in Topups \cup {0} PROVE <<n, t>> \in Keys
  BY <1>6 DEF Keys
<1>7. ASSUME NEW s \in Slots, Ask(s) PROVE AnyStep
  <2>1. PICK o \in Offered, by \in world.by : \E seen \in Seen(o, by) :
            LET r == Sent(<<Len(asked) + 1, 0>>, o.cmd, by, o.via, seen)
            IN /\ req' = [req EXCEPT ![s] = r]
               /\ asked' = Append(asked, [cmd |-> r.cmd, by |-> by, via |-> o.via, seen |-> r.seen])
    BY <1>7 DEF Ask
  <2>2. PICK seen \in Seen(o, by) :
            LET r == Sent(<<Len(asked) + 1, 0>>, o.cmd, by, o.via, seen)
            IN /\ req' = [req EXCEPT ![s] = r]
               /\ asked' = Append(asked, [cmd |-> r.cmd, by |-> by, via |-> o.via, seen |-> r.seen])
    BY <2>1
  <2>3. seen \in Nat
    <3>1. \A i \in DOMAIN asked : asked[i].seen \in Nat
      <4>1. \A i \in DOMAIN asked : asked[i] \in Asked
        BY <1>1
      <4> QED BY <4>1 DEF Asked
    <3> QED BY <1>1, <2>2, <3>1 DEF Seen
  <2>4. /\ sends < world.sends /\ sends' = sends + 1 /\ UNCHANGED <<db, keys, sweep, world, history>>
    BY <1>7 DEF Ask
  <2>5. Len(asked) + 1 \in 1..MaxSends /\ sends' <= MaxSends
    BY <1>1, <1>2, <2>4
  <2>6. <<Len(asked) + 1, 0>> \in Keys /\ <<Len(asked) + 1, 0>> \in (1..MaxSends) \X {0}
    BY <2>5, <1>6
  <2>7. /\ o.cmd \in Command /\ o.via \in {"portal", "flow", "button"}
        /\ o.cmd.do = "set_topup_decision" => db.topup[o.cmd.t] # None
    BY OfferedIs
  <2> DEFINE r == Sent(<<Len(asked) + 1, 0>>, o.cmd, by, o.via, seen)
  <2>8. Good(r, db) /\ r.cmd = o.cmd /\ r.seen \in Nat
    <3>1. by \in Customers \cup {Owner, System}
      BY <1>2, <2>1
    <3> DEFINE cmd == o.cmd
               via == o.via
    <3>0. cmd \in Command /\ via \in {"portal", "flow", "button", "system"}
          /\ (cmd.do = "set_topup_decision" => db.topup[cmd.t] # None)
      BY <2>7
    <3> HIDE DEF cmd, via
    <3>2. \A key \in Keys \cap ((1..MaxSends) \X {0}) : Good(Sent(key, cmd, by, via, seen), db)
      BY <2>3, <3>0, <3>1, SentGood
    <3>3. Good(r, db)
      BY <2>6, <3>2 DEF cmd, via
    <3>4. /\ Sent(<<Len(asked) + 1, 0>>, cmd, by, via, seen).cmd = cmd
          /\ Sent(<<Len(asked) + 1, 0>>, cmd, by, via, seen).seen \in Nat
      BY <2>3, <2>6, <3>0, <3>1, SentIs
    <3> QED BY <3>3, <3>4 DEF cmd, via
  <2> DEFINE x == [cmd |-> r.cmd, by |-> by, via |-> o.via, seen |-> r.seen]
  <2>9. x \in Asked /\ x.cmd = o.cmd
    BY <1>2, <2>1, <2>7, <2>8 DEF Asked
  <2> HIDE DEF r, x
  <2>10. ReqStep
    BY <2>2, <2>8 DEF ReqStep, r
  <2>11. AskedStep
    BY <2>2, <2>4, <2>7, <2>9 DEF AskedStep, r, x
  <2> QED BY <1>4, <1>5, <2>4, <2>5, <2>10, <2>11, SameGrows DEF AnyStep, CountsStep, history
<1>8. ASSUME NEW s \in Slots, Again(s) PROVE AnyStep
  <2>1. PICK i \in DOMAIN asked :
            \E seen \in {asked[i].seen} \cup (IF asked[i].via = "button" THEN {Current} ELSE {}) :
                req' = [req EXCEPT ![s] = Sent(<<i, 0>>, asked[i].cmd, asked[i].by, asked[i].via, seen)]
    BY <1>8 DEF Again
  <2>2. PICK seen \in {asked[i].seen, Current} :
            req' = [req EXCEPT ![s] = Sent(<<i, 0>>, asked[i].cmd, asked[i].by, asked[i].via, seen)]
    BY <2>1
  <2>3. asked[i] \in Asked /\ i \in 1..MaxSends
    BY <1>1
  <2>4. /\ asked[i].cmd \in Command /\ asked[i].by \in Customers \cup {Owner} /\ asked[i].seen \in Nat
        /\ asked[i].via \in {"portal", "flow", "button"}
        /\ asked[i].cmd.do = "set_topup_decision" => db.topup[asked[i].cmd.t] # None
    BY <2>3 DEF Asked, Typed, AskedOK
  <2>5. <<i, 0>> \in Keys /\ <<i, 0>> \in (1..MaxSends) \X {0}
    BY <2>3, <1>6
  <2>6. seen \in Nat
    BY <1>1, <2>2, <2>4
  <2>7. Good(Sent(<<i, 0>>, asked[i].cmd, asked[i].by, asked[i].via, seen), db)
    BY <2>4, <2>5, <2>6, SentGood
  <2>8. /\ sends < world.sends /\ sends' = sends + 1 /\ UNCHANGED <<db, keys, asked, sweep, world, history>>
    BY <1>8 DEF Again
  <2>9. ReqStep
    BY <2>2, <2>7 DEF ReqStep
  <2> QED BY <1>1, <1>2, <1>4, <1>5, <2>8, <2>9, SameGrows DEF AnyStep, CountsStep, AskedStep, history
<1>9. ASSUME NEW s \in Slots, req[s] # None, NEW answer, Reply(s, answer),
             UNCHANGED <<db, keys, asked, sends, sweep, world, did, calls>>
      PROVE  AnyStep
  BY <1>3, <1>4, <1>5, <1>9, ReplySteps, SameGrows DEF AnyStep
<1>10. ASSUME NEW s \in Slots, Deny(s) \/ Replay(s) \/ TurnAway(s) PROVE AnyStep
  BY <1>9, <1>10 DEF Deny, Replay, TurnAway, Claims
<1>11. ASSUME NEW s \in Slots, req[s] # None,
              NEW status \in {"pending", "succeeded", "failed", "unknown"},
              NEW answer \in {None, "ok", "refused", "config_conflict", "unknown"}, NEW told1,
              Caches(s, status, answer), Reply(s, told1), Grows(db'),
              UNCHANGED <<asked, sends, sweep, world, calls>>,
              did' = did \/ did' = [did EXCEPT ![req[s].key] = did[req[s].key] + 1]
       PROVE  AnyStep
  BY <1>1, <1>4, <1>11, SlotIs, ReplySteps, CacheSteps DEF AnyStep, AskedStep, CountsStep
<1>12. ASSUME NEW s \in Slots, Expire(s) PROVE AnyStep
  BY <1>11, <1>12, SameGrows DEF Expire, Claims
<1>13. ASSUME NEW s \in Slots, req[s] # None, NEW r, Good(r, db), To(s, r),
              UNCHANGED <<db, asked, sends, sweep, world, did, calls>>, KeysStep
       PROVE  AnyStep
  BY <1>3, <1>4, <1>13, SameGrows DEF AnyStep, To, ReqStep
<1>15. ASSUME NEW s \in Slots, Begin(s) PROVE AnyStep
  <2>1. req[s] # None /\ req[s].step = "sent" /\ ~External(req[s].cmd) /\ req[s].cmd.do # "bulk_topup_decisions"
        /\ UNCHANGED <<db, asked, sends, sweep, world, did, calls>>
    BY <1>15 DEF Begin, Claims
  <2>2. CASE Caches(s, "failed", "refused") /\ Reply(s, "refused")
    BY <1>11, <2>1, <2>2, SameGrows
  <2>3. CASE To(s, [req[s] EXCEPT !.step = "open", !.view = db]) /\ UNCHANGED keys
    <3>1. req[s].cmd \in Command /\ req[s].cmd.do \in Executed
      BY <2>1, SlotIs, CommandFields DEF External
    <3> DEFINE q == [req[s] EXCEPT !.step = "open", !.view = db]
    <3>2. req[s] \in SomeRequest /\ Good(req[s], db)
      BY <2>1, SlotIs
    <3>3. q \in SomeRequest /\ q.key = req[s].key /\ q.cmd = req[s].cmd /\ q.step = "open" /\ q.view = db
          /\ q.left = req[s].left /\ q.parent = req[s].parent
      <4>1. [req[s] EXCEPT !.step = "open"] \in SomeRequest
        BY <3>2, RequestFields
      <4>2. [[req[s] EXCEPT !.step = "open"] EXCEPT !.view = db] \in SomeRequest
        BY <1>1, <4>1, RequestFields
      <4>3. DOMAIN req[s] = {"key", "cmd", "by", "via", "seen", "step", "view", "answer", "left", "parent", "token"}
        BY <3>2, RequestFields
      <4> QED BY <4>2, <4>3
    <3> HIDE DEF q
    <3>4. Good(q, db)
      BY <1>1, <3>1, <3>2, <3>3 DEF Good, Wellformed
    <3> QED BY <1>5, <1>13, <2>1, <2>3, <3>4 DEF q
  <2> QED BY <1>15, <2>2, <2>3 DEF Begin
<1>16. ASSUME NEW s \in Slots, Commit(s) PROVE AnyStep
  <2>1. Grows(db') /\ req[s] # None
    BY <1>16, CommitIs
  <2> QED BY <1>11, <1>16, <2>1 DEF Commit
<1>17. ASSUME NEW s \in Slots, Conflict(s) PROVE AnyStep
  BY <1>11, <1>17, SameGrows DEF Conflict, Opened
<1>18. ASSUME NEW s \in Slots, Rollback(s) PROVE AnyStep
  BY <1>9, <1>18 DEF Rollback, Opened
<1>19. ASSUME NEW s \in Slots, BeginExternal(s) PROVE AnyStep
  <2>1. /\ req[s] # None /\ req[s].step = "sent" /\ External(req[s].cmd)
        /\ UNCHANGED <<asked, sends, sweep, world, did, calls>>
    BY <1>19 DEF BeginExternal, Claims
  <2> DEFINE r == req[s]
             checked == r.cmd.do \in Channels
             channel == IF r.cmd.do = "channel.save" THEN r.cmd.channel ELSE db.shop.channel
  <2>2. CASE Caches(s, "failed", "config_conflict") /\ Reply(s, "config_conflict") /\ UNCHANGED db
    BY <1>11, <2>1, <2>2, SameGrows
  <2>3. CASE ChannelError /\ Caches(s, "failed", "refused") /\ Reply(s, "refused")
    BY <1>11, <2>1, <2>3, ErrorGrows
  <2>4. r \in SomeRequest /\ Good(r, db) /\ r.key \in Keys /\ r.cmd \in Command /\ Pending(r) \in Key
    BY <2>1, SlotIs, RowSteps
  <2>5. ASSUME keys' = [keys EXCEPT ![r.key] = Pending(r)] PROVE KeysStep
    BY <2>4, <2>5 DEF KeysStep
  <2>6. DOMAIN r = {"key", "cmd", "by", "via", "seen", "step", "view", "answer", "left", "parent", "token"}
    BY <2>4, RequestFields
  <2>7. CASE /\ checked /\ keys' = [keys EXCEPT ![r.key] = Pending(r)] /\ UNCHANGED db
             /\ To(s, [r EXCEPT !.step = "call", !.cmd.channel = channel, !.token = db.shop.token])
    <3> DEFINE cmd == [r.cmd EXCEPT !.channel = channel]
               q == [[[r EXCEPT !.step = "call"] EXCEPT !.cmd = cmd] EXCEPT !.token = db.shop.token]
    <3>1. channel \in {None, "c1", "c2"} /\ db.shop.token \in Nat
      BY <1>1, <2>4, CommandFields DEF Database, Shop, Channels
    <3>2. cmd \in Command /\ cmd.do = r.cmd.do
      BY <2>4, <2>7, <3>1 DEF Command, Channels
    <3>3. [r EXCEPT !.step = "call", !.cmd.channel = channel, !.token = db.shop.token] = q
      BY <2>6
    <3> HIDE DEF cmd
    <3>4. q \in SomeRequest /\ q.key = r.key /\ q.cmd = cmd /\ q.step = "call"
          /\ q.left = r.left /\ q.parent = r.parent
      <4>1. [r EXCEPT !.step = "call"] \in SomeRequest
        BY <2>4, RequestFields
      <4>2. [[r EXCEPT !.step = "call"] EXCEPT !.cmd = cmd] \in SomeRequest
        BY <3>2, <4>1, RequestFields
      <4>3. q \in SomeRequest
        BY <3>1, <4>2, RequestFields
      <4> QED BY <2>6, <4>3
    <3> HIDE DEF q
    <3>5. Good(q, db)
      BY <2>4, <2>7, <3>2, <3>4 DEF Good, Wellformed, External, Channels
    <3> QED BY <1>13, <2>1, <2>5, <2>7, <3>3, <3>5
  <2>8. CASE /\ ~checked /\ keys' = [keys EXCEPT ![r.key] = Pending(r)] /\ UNCHANGED db
             /\ To(s, [r EXCEPT !.step = "call"])
    <3> DEFINE q == [r EXCEPT !.step = "call"]
    <3>1. q \in SomeRequest /\ q.key = r.key /\ q.cmd = r.cmd /\ q.step = "call"
          /\ q.left = r.left /\ q.parent = r.parent
      BY <2>4, <2>6, RequestFields
    <3> HIDE DEF q
    <3>2. Good(q, db)
      BY <2>1, <2>4, <3>1 DEF Good, Wellformed
    <3> QED BY <1>13, <2>1, <2>5, <2>8, <3>2 DEF q
  <2> QED BY <1>19, <2>2, <2>3, <2>7, <2>8 DEF BeginExternal
<1>20. ASSUME NEW s \in Slots, NEW answer \in {"yes", "no", "unclear"}, Calling(s, answer), Grows(db'), db'.topup = db.topup
       PROVE  AnyStep
  <2>1. /\ req[s] # None /\ req[s].step = "call" /\ UNCHANGED <<keys, asked, sends, sweep, world, did>>
        /\ calls' = [calls EXCEPT ![req[s].key] = calls[req[s].key] + 1]
        /\ req' = [req EXCEPT ![s] = [req[s] EXCEPT !.step = "answer", !.answer = answer]]
    BY <1>20 DEF Calling, To
  <2> DEFINE r == req[s]
             q == [r EXCEPT !.step = "answer", !.answer = answer]
  <2>2. r \in SomeRequest /\ Good(r, db) /\ r.key \in Keys
    BY <2>1, SlotIs
  <2>3. q \in SomeRequest /\ q.key = r.key /\ q.cmd = r.cmd /\ q.step = "answer"
        /\ q.left = r.left /\ q.parent = r.parent
    <3>1. [r EXCEPT !.step = "answer"] \in SomeRequest
      BY <2>2, RequestFields
    <3>2. [[r EXCEPT !.step = "answer"] EXCEPT !.answer = answer] \in SomeRequest
      BY <3>1, RequestFields
    <3>3. DOMAIN r = {"key", "cmd", "by", "via", "seen", "step", "view", "answer", "left", "parent", "token"}
      BY <2>2, RequestFields
    <3> QED BY <3>2, <3>3
  <2> HIDE DEF q
  <2>4. Good(q, db)
    BY <2>1, <2>2, <2>3 DEF Good, Wellformed
  <2>5. ReqStep
    BY <2>1, <2>4 DEF ReqStep, q
  <2> QED BY <1>1, <1>4, <1>5, <1>20, <2>1, <2>2, <2>5 DEF AnyStep, AskedStep, CountsStep
<1>21. ASSUME NEW s \in Slots, CheckChannel(s) PROVE AnyStep
  BY <1>20, <1>21, SameGrows DEF CheckChannel
<1>22. ASSUME NEW s \in Slots, ChangeOrder(s) PROVE AnyStep
  <2>1. PICK answer \in {"yes", "no"} \cup ({"unclear"} \cap world.may) :
            /\ Calling(s, answer)
            /\ \/ \E o \in {"active", "disabled", "deleted"} : db' = [db EXCEPT !.order = o]
               \/ UNCHANGED db
    <3>1. \A c, b : (CASE c = "order.delete" -> "deleted"
                       [] c = "order.set_enabled" /\ b -> "active"
                       [] OTHER -> "disabled") \in {"active", "disabled", "deleted"}
      BY Zenon
    <3> QED BY <1>22, <3>1 DEF ChangeOrder
  <2>2. Grows(db') /\ db'.topup = db.topup
    BY <1>1, <2>1, SameGrows DEF Grows, Database
  <2> QED BY <1>20, <2>1, <2>2
<1>23. ASSUME NEW s \in Slots, FinishOrder(s) PROVE AnyStep
  <2>1. req[s] # None /\ UNCHANGED <<db, asked, sends, sweep, world, calls>>
    BY <1>23 DEF FinishOrder, Answered
  <2>2. CASE Caches(s, "succeeded", "ok") /\ Reply(s, "ok") /\ did' = [did EXCEPT ![req[s].key] = @ + 1]
    BY <1>11, <2>1, <2>2, SameGrows
  <2>3. CASE Caches(s, "failed", "refused") /\ Reply(s, "refused") /\ UNCHANGED did
    BY <1>11, <2>1, <2>3, SameGrows
  <2>4. CASE Caches(s, "unknown", "unknown") /\ Reply(s, "unknown") /\ UNCHANGED did
    BY <1>11, <2>1, <2>4, SameGrows
  <2> QED BY <1>23, <2>2, <2>3, <2>4 DEF FinishOrder
<1>24. ASSUME NEW s \in Slots, FinishDenied(s) PROVE AnyStep
  BY <1>9, <1>24 DEF FinishDenied, Answered
<1>25. ASSUME NEW s \in Slots, FinishUnknown(s) PROVE AnyStep
  BY <1>11, <1>25, ErrorGrows DEF FinishUnknown, Unsettled, Answered
<1>26. ASSUME NEW s \in Slots, FinishFailed(s) PROVE AnyStep
  <2>1. /\ req[s] # None /\ ChannelError /\ UNCHANGED <<asked, sends, sweep, world, did, calls>>
        /\ \E why \in {"config_conflict", "refused"} : Caches(s, "failed", why) /\ Reply(s, why)
    BY <1>26 DEF FinishFailed, Unsettled, Answered
  <2> QED BY <1>11, <2>1, ErrorGrows
<1>27. ASSUME NEW s \in Slots, FinishChannel(s) PROVE AnyStep
  <2>1. /\ req[s] # None /\ req[s].step = "answer" /\ req[s].cmd.do \in Channels
        /\ To(s, [req[s] EXCEPT !.step = "open", !.view = db])
        /\ UNCHANGED <<db, keys, asked, sends, sweep, world, did, calls>>
    BY <1>27 DEF FinishChannel, Unsettled, Answered
  <2> DEFINE q == [req[s] EXCEPT !.step = "open", !.view = db]
  <2>2. req[s] \in SomeRequest /\ Good(req[s], db)
    BY <2>1, SlotIs
  <2>3. q \in SomeRequest /\ q.key = req[s].key /\ q.cmd = req[s].cmd /\ q.step = "open" /\ q.view = db
        /\ q.left = req[s].left /\ q.parent = req[s].parent
    <3>1. [req[s] EXCEPT !.step = "open"] \in SomeRequest
      BY <2>2, RequestFields
    <3>2. [[req[s] EXCEPT !.step = "open"] EXCEPT !.view = db] \in SomeRequest
      BY <1>1, <3>1, RequestFields
    <3>3. DOMAIN req[s] = {"key", "cmd", "by", "via", "seen", "step", "view", "answer", "left", "parent", "token"}
      BY <2>2, RequestFields
    <3> QED BY <3>2, <3>3
  <2>4. req[s].cmd.do \in Executed
    BY <2>1 DEF Channels, Executed, ShopDos
  <2> HIDE DEF q
  <2>5. Good(q, db)
    BY <1>1, <2>1, <2>2, <2>3, <2>4 DEF Good, Wellformed
  <2> QED BY <1>5, <1>13, <2>1, <2>5 DEF q
<1>28. ASSUME NEW s \in Slots, BeginBulk(s) PROVE AnyStep
  <2>1. /\ req[s] # None /\ req[s].step = "sent" /\ req[s].cmd.do = "bulk_topup_decisions"
        /\ keys' = [keys EXCEPT ![req[s].key] = Pending(req[s])]
        /\ To(s, [req[s] EXCEPT !.step = "items", !.left = Requested])
        /\ UNCHANGED <<db, asked, sends, sweep, world, did, calls>>
    BY <1>28 DEF BeginBulk, Claims
  <2> DEFINE r == req[s]
             q == [r EXCEPT !.step = "items", !.left = Requested]
  <2>2. r \in SomeRequest /\ Good(r, db) /\ r.key \in Keys /\ Pending(r) \in Key
    BY <2>1, SlotIs, RowSteps
  <2>3. q \in SomeRequest /\ q.key = r.key /\ q.cmd = r.cmd /\ q.step = "items"
        /\ q.left = Requested /\ q.parent = r.parent
    <3>1. [r EXCEPT !.step = "items"] \in SomeRequest
      BY <2>2, RequestFields
    <3>2. Requested \in SUBSET Topups
      BY DEF Requested
    <3>3. [[r EXCEPT !.step = "items"] EXCEPT !.left = Requested] \in SomeRequest
      BY <3>1, <3>2, RequestFields
    <3>4. DOMAIN r = {"key", "cmd", "by", "via", "seen", "step", "view", "answer", "left", "parent", "token"}
      BY <2>2, RequestFields
    <3> QED BY <3>3, <3>4
  <2> HIDE DEF q
  <2>4. Good(q, db)
    BY <2>1, <2>2, <2>3 DEF Good, Wellformed, Requested
  <2>5. KeysStep
    BY <2>1, <2>2 DEF KeysStep
  <2> QED BY <1>13, <2>1, <2>4, <2>5 DEF q
<1>29. ASSUME NEW s \in Slots, NextItem(s) PROVE AnyStep
  <2> DEFINE r == req[s]
  <2>1. /\ r # None /\ r.step = "items" /\ r.left \subseteq Topups /\ r.by \in Customers \cup {Owner, System}
        /\ r.via \in {"portal", "flow", "button", "system"} /\ Good(r, db) /\ r \in SomeRequest /\ r.cmd \in Command
        /\ UNCHANGED <<db, keys, asked, sends, sweep, world, did, calls>>
    BY <1>29, SlotIs DEF NextItem, SomeRequest, Request, Part
  <2>2. r.cmd.do = "bulk_topup_decisions" /\ r.parent = None /\ r.key \in (1..MaxSends) \X {0}
        /\ r.cmd.yes \in BOOLEAN
    BY <2>1, CommandFields DEF Good, Wellformed
  <2> DEFINE item(t) == [do |-> "set_topup_decision", t |-> t, yes |-> r.cmd.yes,
                         n |-> IF r.cmd.yes THEN db.topup[t].amount ELSE 0]
             part(t) == Sent(<<r.key[1], t>>, item(t), r.by, r.via, 0)
             rest(t) == [r EXCEPT !.left = r.left \ {t}]
  <2>3. PICK t \in r.left : To(s, [part(t) EXCEPT !.parent = rest(t)])
    BY <1>29 DEF NextItem
  <2>4. t \in Topups /\ db.topup[t] # None
    BY <2>1 DEF Good, Wellformed
  <2>5. item(t) \in Command
    <3>1. db.topup[t].amount \in Nat
      BY <1>1, <2>4 DEF Database, Topup, SomeTopup
    <3> QED BY <2>2, <2>4, <3>1 DEF Command
  <2>6. <<r.key[1], t>> \in Keys
    BY <1>6, <2>2, <2>4
  <2>7. /\ part(t) \in Part
        /\ part(t).key = <<r.key[1], t>> /\ part(t).cmd = item(t) /\ part(t).step = "sent" /\ part(t).left = {}
    <3> DEFINE cmd == item(t)
               key == <<r.key[1], t>>
               by == r.by
               via == r.via
               seen == 0
               q == Sent(key, cmd, by, via, seen)
    <3>1. /\ cmd \in Command /\ key \in Keys /\ by \in Customers \cup {Owner, System}
          /\ via \in {"portal", "flow", "button", "system"} /\ seen \in Nat
      BY <2>1, <2>5, <2>6
    <3> HIDE DEF cmd, key, by, via, seen
    <3>2. q \in Part /\ q.key = key /\ q.cmd = cmd /\ q.step = "sent" /\ q.left = {}
      BY <3>1, SentIs
    <3> QED BY <3>2 DEF cmd, key, by, via, seen
  <2>8. rest(t) \in Part /\ rest(t).cmd = r.cmd /\ rest(t).step = "items" /\ rest(t).key = r.key
        /\ rest(t).left = r.left \ {t} /\ rest(t).parent = None
    <3>1. r \in Part
      BY <2>1, <2>2 DEF SomeRequest, Request, Part
    <3>2. r.left \ {t} \in SUBSET Topups
      BY <2>1
    <3> DEFINE left == r.left \ {t}
    <3> HIDE DEF left
    <3>3. [r EXCEPT !.left = left] \in Part
      BY <3>1, <3>2 DEF Request, Part, left
    <3>4. DOMAIN r = {"key", "cmd", "by", "via", "seen", "step", "view", "answer", "left", "parent", "token"}
      BY <2>1, RequestFields
    <3>5. /\ [r EXCEPT !.left = left].cmd = r.cmd /\ [r EXCEPT !.left = left].step = r.step
          /\ [r EXCEPT !.left = left].key = r.key /\ [r EXCEPT !.left = left].left = left
          /\ [r EXCEPT !.left = left].parent = r.parent
      BY <3>4
    <3> QED BY <2>1, <2>2, <3>3, <3>5 DEF left
  <2>9. item(t).do = "set_topup_decision" /\ item(t).t = t
    OBVIOUS
  <2> DEFINE q == [part(t) EXCEPT !.parent = rest(t)]
  <2> HIDE DEF part, rest, item
  <2>10. q \in SomeRequest /\ q.parent = rest(t) /\ q.key = <<r.key[1], t>> /\ q.cmd = item(t) /\ q.step = "sent"
         /\ q.left = {}
    BY <2>7, <2>8 DEF Request, Part, SomeRequest
  <2>11. Wellformed(rest(t), db)
    BY <2>1, <2>2, <2>8 DEF Good, Wellformed
  <2>12. Good(q, db)
    BY <2>4, <2>8, <2>9, <2>10, <2>11 DEF Good, Wellformed
  <2> QED BY <1>5, <1>13, <2>1, <2>3, <2>12
<1>30. ASSUME NEW s \in Slots, EndItems(s) PROVE AnyStep
  BY <1>11, <1>30, SameGrows DEF EndItems
<1>31. ASSUME NEW s \in Slots, NEW key \in Keys, NEW cmd \in Command, cmd.do \in Executed \ {"set_topup_decision"},
              req' = [req EXCEPT ![s] = Sent(key, cmd, System, "system", Current)]
       PROVE  ReqStep
  <2>1. Good(Sent(key, cmd, System, "system", Current), db)
    BY <1>1, <1>31, SentGood DEF Executed, PlanDos, ShopDos, RowDos, CodeDos, Edits
  <2> QED BY <1>31, <2>1 DEF ReqStep
<1>32. ASSUME NEW s \in Slots, TrialSweep(s) PROVE AnyStep
  <2>1. TrialKey \in Keys /\ [do |-> "reset_free_trials"] \in Command
    BY DEF TrialKey, Keys, Command
  <2>2. req' = [req EXCEPT ![s] = Sent(TrialKey, [do |-> "reset_free_trials"], System, "system", Current)]
    BY <1>32 DEF TrialSweep
  <2>3. ReqStep
    BY <1>31, <2>1, <2>2 DEF Executed
  <2> QED BY <1>1, <1>4, <1>5, <1>32, <2>3, SameGrows DEF TrialSweep, AnyStep, AskedStep, CountsStep, history
<1>33. ASSUME UNCHANGED <<db, keys, asked, sends, world, history>>, ReqStep, SweepOK' PROVE AnyStep
  BY <1>1, <1>5, <1>33, SameGrows DEF AnyStep, AskedStep, CountsStep, history
<1>34. ASSUME UNCHANGED req PROVE ReqStep
  BY <1>34 DEF ReqStep
<1>35. ASSUME BelowScan PROVE AnyStep
  <2> DEFINE low == {p \in OnSale(db) : BelowCost(db, db.plan[p].gb, db.plan[p].price)}
  <2>1. sweep' = [left |-> low, will |-> low = OnSale(db) /\ ~db.shop.closed, sent |-> None, close |-> FALSE]
    BY <1>35 DEF BelowScan
  <2>2. low \subseteq Plans
    BY DEF OnSale, Listed
  <2> HIDE DEF low
  <2>3. SweepOK'
    BY <2>1, <2>2 DEF SweepOK
  <2> QED BY <1>33, <1>34, <1>35, <2>3 DEF BelowScan
<1>36. ASSUME NEW s \in Slots, BelowPlan(s) PROVE AnyStep
  <2>1. PICK p \in sweep.left :
            /\ req' = [req EXCEPT ![s] = Sent(SweepKey(p), [do |-> "set_plan_enabled", p |-> p, on |-> FALSE],
                                              System, "system", Current)]
            /\ sweep' = [sweep EXCEPT !.left = @ \ {p}, !.sent = SweepKey(p)]
    BY <1>36 DEF BelowPlan, Sweep
  <2>2. sweep # None /\ sweep.left \subseteq Plans
    BY <1>36 DEF BelowPlan, Through, Sweeping, Typed, SweepOK
  <2>3. SweepKey(p) \in Keys /\ [do |-> "set_plan_enabled", p |-> p, on |-> FALSE] \in Command
    BY <2>1, <2>2 DEF SweepKey, Keys, Command
  <2>4. ReqStep
    BY <1>31, <2>1, <2>3 DEF Executed, PlanDos
  <2>5. SweepOK'
    <3>1. p \in Plans
      BY <2>1, <2>2
    <3>2. CASE sweep' = None
      BY <3>2 DEF SweepOK
    <3>3. sweep'.left \subseteq Plans /\ (sweep'.sent # None => sweep'.sent = SweepKey(p))
      BY <2>1, <2>2
    <3> QED BY <3>1, <3>3 DEF SweepOK
  <2> QED BY <1>33, <1>36, <2>4, <2>5 DEF BelowPlan
<1>37. ASSUME BelowCheck PROVE AnyStep
  <2>1. CASE sweep' = None
    BY <1>33, <1>34, <1>37, <2>1 DEF BelowCheck, SweepOK
  <2>2. CASE sweep' = [sweep EXCEPT !.close = TRUE, !.sent = None]
    <3>1. sweep # None /\ sweep.left \subseteq Plans
      BY <1>37 DEF BelowCheck, Through, Sweeping, Typed, SweepOK
    <3>2. SweepOK'
      BY <2>2, <3>1 DEF SweepOK
    <3> QED BY <1>33, <1>34, <1>37, <3>2 DEF BelowCheck
  <2> QED BY <1>37, <2>1, <2>2 DEF BelowCheck
<1>38. ASSUME NEW s \in Slots, BelowClose(s) PROVE AnyStep
  <2>1. ClosingKey \in Keys
    BY DEF ClosingKey, Keys
  <2>2. [do |-> "update_shop_state", set |-> [closed |-> TRUE]] \in Command
    <3>1. [closed |-> TRUE] \in Settings
      BY DEF Settings
    <3> QED BY <3>1 DEF Command
  <2>3. ReqStep
    BY <1>31, <1>38, <2>1, <2>2 DEF BelowClose, Sweep, Executed, ShopDos, Edits
  <2> QED BY <1>33, <1>38, <2>3 DEF BelowClose, SweepOK
<1>39. ASSUME BelowStops PROVE AnyStep
  BY <1>33, <1>34, <1>39 DEF BelowStops, SweepOK
<1>40. ASSUME NEW s \in Slots, Crash(s) PROVE AnyStep
  <2>1. ReqStep
    BY <1>40 DEF Crash, ReqStep
  <2>2. SweepOK'
    BY <1>40 DEF Crash, Typed, SweepOK
  <2> QED BY <1>33, <1>40, <2>1, <2>2 DEF Crash
<1>41. ASSUME Grows(db'), UNCHANGED <<keys, req, asked, sends, sweep, world, history>> PROVE AnyStep
  BY <1>1, <1>4, <1>5, <1>34, <1>41 DEF AnyStep, AskedStep, CountsStep, history
<1>42. ASSUME CostMoves PROVE AnyStep
  <2>1. Grows(db')
    BY <1>1, <1>42 DEF CostMoves, Grows, Database
  <2> QED BY <1>41, <1>42, <2>1 DEF CostMoves
<1>43. ASSUME ReplaceToken PROVE AnyStep
  <2>1. db' = [db EXCEPT !.shop = [db.shop EXCEPT !.token = 1]]
    BY <1>1, <1>43 DEF ReplaceToken, Database
  <2>2. [db.shop EXCEPT !.token = 1] \in Shop
    BY <1>1 DEF Database, Shop
  <2>3. Grows(db')
    BY <1>1, <2>1, <2>2 DEF Grows, Database
  <2> QED BY <1>41, <1>43, <2>3 DEF ReplaceToken
<1>44. ASSUME NEW k \in Keys, NEW row \in Key, keys' = [keys EXCEPT ![k] = row],
              UNCHANGED <<db, req, asked, sends, sweep, world, history>>
       PROVE  AnyStep
  BY <1>1, <1>4, <1>34, <1>44, SameGrows DEF AnyStep, AskedStep, CountsStep, history, KeysStep
<1>45. \A k \in Keys : keys[k] # None => keys[k] \in Key
  BY DEF Typed, TypeOK
<1>46. ASSUME NEW k \in Keys, LeaseOver(k) PROVE AnyStep
  <2>1. keys' = [keys EXCEPT ![k] = [keys[k] EXCEPT !.lease = FALSE]]
    BY <1>46 DEF LeaseOver, Typed, TypeOK
  <2>2. [keys[k] EXCEPT !.lease = FALSE] \in Key
    BY <1>45, <1>46 DEF LeaseOver, Key
  <2> QED BY <1>44, <1>46, <2>1, <2>2 DEF LeaseOver
<1>47. ASSUME NEW k \in Keys, Reap(k) PROVE AnyStep
  <2>1. keys[k] # None /\ keys \in [Keys -> Key \cup {None}]
    BY <1>47 DEF Reap, Typed, TypeOK
  <2> DEFINE row == [[keys[k] EXCEPT !.status = "unknown"] EXCEPT !.answer = "unknown"]
  <2>2. keys' = [keys EXCEPT ![k] = row]
    BY <1>45, <1>47, <2>1 DEF Reap, Key
  <2>3. row \in Key
    BY <1>45, <2>1 DEF Key
  <2> QED BY <1>44, <1>47, <2>2, <2>3 DEF Reap
<1> HIDE DEF Rest
<1> QED
  BY <1>7, <1>8, <1>10, <1>12, <1>15, <1>16, <1>17, <1>18, <1>19, <1>21, <1>22, <1>23, <1>24, <1>25, <1>26,
     <1>27, <1>28, <1>29, <1>30, <1>32, <1>35, <1>36, <1>37, <1>38, <1>39, <1>40, <1>42, <1>43, <1>46, <1>47
  DEF Next

-----------------------------------------------------------------------------
(* What a commit does to money, trials and the code.                       *)

\* An attribute that was not wanted otherwise stays as it is.
LEMMA CustomerKeeps ==
    ASSUME NEW now \in [Customers -> Customer], NEW loaded \in [Customers -> Customer],
           NEW wanted \in [Customers -> Customer], NEW i \in Customers
    PROVE  /\ wanted[i].bal = loaded[i].bal => MergeRows(now, loaded, wanted)[i].bal = now[i].bal
           /\ wanted[i].trial = loaded[i].trial => MergeRows(now, loaded, wanted)[i].trial = now[i].trial
<1> DEFINE m == MergeRow(now[i], loaded[i], wanted[i])
<1>1. MergeRows(now, loaded, wanted)[i] = m
  BY DEF MergeRows
<1>2. CASE wanted[i] = loaded[i]
  BY <1>1, <1>2, MergeSame
<1>3. CASE wanted[i] # loaded[i]
  <2>1. now[i] \in Customer /\ loaded[i] \in Customer /\ wanted[i] \in Customer
    OBVIOUS
  <2>2. {None, Gone} \cap {now[i], loaded[i], wanted[i]} = {}
    BY <2>1, NoneShopAssumption
  <2>3. m = [a \in DOMAIN now[i] |-> IF wanted[i][a] = loaded[i][a] THEN now[i][a] ELSE wanted[i][a]]
    BY <1>3, <2>2, MergeAttributes
  <2>4. DOMAIN now[i] = {"banned", "trial", "bal"}
    BY <2>1 DEF Customer
  <2> HIDE DEF m
  <2> QED BY <1>1, <2>3, <2>4
<1> QED BY <1>2, <1>3

LEMMA ShopKeeps ==
    ASSUME NEW now \in Shop, NEW loaded \in Shop, NEW wanted \in Shop
    PROVE  /\ MergeRow(now, loaded, wanted) \in Shop
           /\ \A a \in Attributes \cup {"error", "token"} :
                /\ wanted[a] = loaded[a] => MergeRow(now, loaded, wanted)[a] = now[a]
                /\ wanted[a] # loaded[a] => MergeRow(now, loaded, wanted)[a] = wanted[a]
<1>0. MergeRow(now, loaded, wanted) \in Shop
  BY MergeTypes
<1>1. CASE wanted = loaded
  BY <1>0, <1>1, MergeSame
<1>2. CASE wanted # loaded
  <2>1. {None, Gone} \cap {now, loaded, wanted} = {}
    BY NoneShopAssumption
  <2>2. MergeRow(now, loaded, wanted) =
            [a \in DOMAIN now |-> IF wanted[a] = loaded[a] THEN now[a] ELSE wanted[a]]
    BY <1>2, <2>1, MergeAttributes
  <2> QED BY <1>0, <2>2, ShopDomain
<1> QED BY <1>1, <1>2

\* Editing a code leaves its redemptions and its cap alone.
LEMMA CodeKeeps ==
    ASSUME NEW now \in Code, NEW loaded \in Code, NEW wanted \in Code,
           wanted.used = loaded.used, wanted.cap = loaded.cap
    PROVE  LET m == MergeRow(now, loaded, wanted)
           IN m \in Code /\ m # None /\ m.used = now.used /\ m.cap = now.cap
<1>0. None \notin Code
  BY NoneShopAssumption
<1>1. CASE wanted = loaded
  BY <1>0, <1>1, MergeSame
<1>2. CASE wanted # loaded
  <2> DEFINE m == [a \in DOMAIN now |-> IF wanted[a] = loaded[a] THEN now[a] ELSE wanted[a]]
  <2>1. {None, Gone} \cap {now, loaded, wanted} = {}
    BY NoneShopAssumption
  <2>2. MergeRow(now, loaded, wanted) = m
    BY <1>2, <2>1, MergeAttributes
  <2>3. DOMAIN now = {"on", "archived", "gift", "worth", "cap", "used"}
    BY DEF Code
  <2>4. m \in Code
    <3>1. MergeRow(now, loaded, wanted) \in Code \cup {None}
      BY MergeTypes
    <3>2. DOMAIN m = DOMAIN now /\ \A a \in DOMAIN now : m[a] \in {now[a], wanted[a]}
      OBVIOUS
    <3> QED BY <2>3 DEF Code
  <2>5. m.used = now.used /\ m.cap = now.cap
    BY <2>3
  <2> QED BY <1>0, <2>2, <2>4, <2>5
<1> QED BY <1>1, <1>2

\* What of the shop's rows decides about money, and about trials.
SameMoney(d) ==
    /\ \A i \in Customers : d.cust[i].bal = db.cust[i].bal
    /\ d.ledger = db.ledger /\ d.topup = db.topup /\ d.uses = db.uses
SameFlags(d) == d.shop.period = db.shop.period /\ \A i \in Customers : d.cust[i].trial = db.cust[i].trial
SameCode(d) ==
    \/ d.code = db.code
    \/ db.code = None /\ d.code \in Code /\ d.code # None /\ d.code.used = 0
    \/ /\ db.code # None /\ d.code # None /\ d.code \in Code
       /\ d.code.used = db.code.used /\ d.code.cap = db.code.cap
\* The code that a session loaded is never deleted.
CodeStays == \A s \in Slots : req[s] # None /\ req[s].step = "open" /\ req[s].view.code # None => db.code # None

LEMMA DecisionFlags ==
    ASSUME db \in Database, NEW cmd \in Command, cmd.do = "set_topup_decision", NEW to \in Outcomes(cmd, db),
           db.topup[cmd.t] # None
    PROVE  SameFlags(to) /\ (db.code # None => to.code # None)
<1> DEFINE i == Buyer[cmd.t]
           T == [db.topup EXCEPT ![cmd.t] = [db.topup[cmd.t] EXCEPT !.status = "rejected"]]
           m == Moves(db, i, cmd.n)
           U == [db.topup EXCEPT ![cmd.t] = [[db.topup[cmd.t] EXCEPT !.status = "confirmed"] EXCEPT !.amount = cmd.n]]
<1>1. cmd.n \in Nat /\ i \in Customers
  BY DecisionOutcomes
<1>2. CASE to = db
  BY <1>2 DEF SameFlags
<1>3. CASE to = [db EXCEPT !.topup = T]
  <2> HIDE DEF T
  <2>1. to.cust = db.cust /\ to.shop = db.shop /\ to.code = db.code
    BY <1>3 DEF Database
  <2> QED BY <2>1 DEF SameFlags
<1>4. ASSUME NEW paid \in Database, paid = [m EXCEPT !.topup = U],
             to = paid \/ (Redeemable(db, i, cmd.n) /\ to = Redeem(paid, i))
      PROVE  SameFlags(to) /\ (db.code # None => to.code # None)
  <2>1. db.cust[i].bal + cmd.n >= 0 /\ cmd.n \in Int
    BY <1>1 DEF Database, Customer
  <2>2. /\ m \in Database /\ m.shop = db.shop /\ m.code = db.code
        /\ \A j \in Customers : m.cust[j].trial = db.cust[j].trial
    BY <1>1, <2>1, MovesIs
  <2> HIDE DEF U, m
  <2>3. paid.cust = m.cust /\ paid.shop = m.shop /\ paid.code = m.code
    BY <1>4, <2>2 DEF Database
  <2>4. CASE to = paid
    BY <2>2, <2>3, <2>4 DEF SameFlags
  <2>5. CASE Redeemable(db, i, cmd.n) /\ to = Redeem(paid, i)
    <3>1. paid.code # None
      BY <2>2, <2>3, <2>5 DEF Redeemable
    <3>2. paid.code \in Code /\ to.shop = paid.shop /\ to.cust = Moves(paid, i, paid.code.worth).cust /\ to.code # None
      BY <1>1, <2>5, <3>1, RedeemIs
    <3>3. paid.code.worth \in Int /\ paid.cust[i].bal + paid.code.worth >= 0
      BY <1>1, <3>2 DEF Code, Database, Customer
    <3>4. \A j \in Customers : Moves(paid, i, paid.code.worth).cust[j].trial = paid.cust[j].trial
      BY <1>1, <3>3, MovesIs
    <3> QED BY <2>2, <2>3, <3>2, <3>4 DEF SameFlags
  <2> QED BY <1>4, <2>4, <2>5
<1>5. \/ to = db \/ to = [db EXCEPT !.topup = T]
      \/ \E paid \in Database :
            /\ paid = [m EXCEPT !.topup = U]
            /\ to = paid \/ (Redeemable(db, i, cmd.n) /\ to = Redeem(paid, i))
  BY DecisionOutcomes
<1> HIDE DEF T, U, m
<1> QED BY <1>2, <1>3, <1>4, <1>5

LEMMA CommitEffects ==
    ASSUME Typed, NEW s \in Slots, Commit(s)
    PROVE  /\ req[s] # None /\ req[s].cmd \in Command /\ db \in Database /\ db' \in Database
           /\ SameFlags(db') \/ (db.shop.period = None /\ db'.shop.period # None)
           /\ req[s].cmd.do \in {"adjust_wallet", "set_topup_decision"} => db' \in Outcomes(req[s].cmd, db)
           /\ req[s].cmd.do = "set_topup_decision" => db.topup[req[s].cmd.t] # None
           /\ req[s].cmd.do \notin {"adjust_wallet", "set_topup_decision"} =>
                SameMoney(db') /\ (CodeStays => SameCode(db'))
           /\ db.code # None => db'.code # None
<1> DEFINE cmd == req[s].cmd
           view == req[s].view
<1>1. /\ req[s] # None /\ cmd \in Command /\ cmd.do \in Executed
      /\ db \in Database /\ view \in Database
  BY CommitIs
<1>2. PICK to \in Outcomes(cmd, Base(req[s])) :
         LET F == Flush(db, Base(req[s]), to)
         IN /\ to \in Database /\ F \in Database
            /\ Locked(cmd) => F = to
            /\ F.shop = MergeRow(db.shop, Base(req[s]).shop, to.shop)
            /\ F.plan = MergeRows(db.plan, Base(req[s]).plan, to.plan)
            /\ F.cust = MergeRows(db.cust, Base(req[s]).cust, to.cust)
            /\ F.code = MergeRow(db.code, Base(req[s]).code, to.code)
            /\ F.ledger = Inserted(db.ledger, Base(req[s]).ledger, to.ledger)
            /\ db' \in Database
            /\ db'.shop = [F.shop EXCEPT !.version =
                              IF OnVersion(cmd) THEN F.shop.version + 1 ELSE F.shop.version]
            /\ db'.plan = F.plan /\ db'.cust = F.cust /\ db'.topup = F.topup /\ db'.code = F.code
            /\ db'.ledger = F.ledger /\ db'.uses = F.uses
            /\ db'.order = db.order /\ db'.cost = db.cost
            /\ cmd.do # "set_topup_decision" => db'.topup = db.topup /\ db'.uses = db.uses
  BY CommitIs
<1> DEFINE F == Flush(db, Base(req[s]), to)
<1>3. F \in Database /\ to \in Database /\ db' \in Database
  BY <1>2
<1>4. db'.shop.period = F.shop.period
  <2>1. F.shop \in Shop
    BY <1>3 DEF Database
  <2>2. "period" \in DOMAIN F.shop
    BY <2>1 DEF Shop
  <2> QED BY <1>2, <2>2
<1>5. cmd.do = "set_topup_decision" => db.topup[cmd.t] # None
  BY <1>1, SlotIs DEF Good, Wellformed
<1>6. /\ db.cust \in [Customers -> Customer] /\ view.cust \in [Customers -> Customer]
      /\ to.cust \in [Customers -> Customer] /\ db.shop \in Shop /\ view.shop \in Shop /\ to.shop \in Shop
      /\ db.ledger \in [Customers -> Int] /\ view.ledger \in [Customers -> Int]
      /\ db.code \in Code \cup {None} /\ view.code \in Code \cup {None}
  BY <1>1, <1>3 DEF Database
<1> DEFINE Goal == /\ SameFlags(db') \/ (db.shop.period = None /\ db'.shop.period # None)
                   /\ cmd.do \in {"adjust_wallet", "set_topup_decision"} => db' \in Outcomes(cmd, db)
                   /\ cmd.do \notin {"adjust_wallet", "set_topup_decision"} =>
                          SameMoney(db') /\ (CodeStays => SameCode(db'))
                   /\ db.code # None => db'.code # None
<1>7. ASSUME Base(req[s]) = view, to.cust = view.cust, to.shop = view.shop \/ to.code = view.code,
             to.shop.period = view.shop.period, to.ledger = view.ledger,
             cmd.do \notin {"adjust_wallet", "set_topup_decision"}
      PROVE  /\ SameMoney(db') /\ SameFlags(db')
             /\ to.code = view.code => db'.code = db.code
  <2>1. F.cust = db.cust
    <3>1. MergeRows(db.cust, view.cust, view.cust) = db.cust
      BY <1>6, RowsSame
    <3> QED BY <1>2, <1>7, <3>1
  <2>2. F.ledger = db.ledger
    BY <1>2, <1>6, <1>7, InsertedSame
  <2>3. F.shop.period = db.shop.period
    <3>1. MergeRow(db.shop, view.shop, to.shop).period = db.shop.period
      BY <1>6, <1>7, ShopKeeps DEF Attributes
    <3> QED BY <1>2, <1>7, <3>1
  <2>4. to.code = view.code => F.code = db.code
    BY <1>2, <1>7, MergeSame
  <2> HIDE DEF F
  <2> QED BY <1>2, <1>4, <1>7, <2>1, <2>2, <2>3, <2>4 DEF SameMoney, SameFlags, F
<1>8. CASE cmd.do \in PlanDos
  <2>1. Base(req[s]) = view
    BY <1>8 DEF Base, Locked, PlanDos
  <2>2. PICK P \in [Plans -> Plan] : to = [view EXCEPT !.plan = P]
    BY <1>1, <1>2, <1>8, <2>1, PlanOutcomes
  <2>3. to.cust = view.cust /\ to.shop = view.shop /\ to.code = view.code /\ to.ledger = view.ledger
    BY <1>1, <2>2 DEF Database
  <2>4. cmd.do \notin {"adjust_wallet", "set_topup_decision"}
    BY <1>8 DEF PlanDos
  <2>5. SameMoney(db') /\ SameFlags(db') /\ db'.code = db.code
    BY <1>7, <2>1, <2>3, <2>4
  <2> QED BY <1>1, <1>3, <1>5, <2>4, <2>5 DEF SameCode
<1>9. CASE cmd.do \in ShopDos
  <2>1. Base(req[s]) = view
    BY <1>9 DEF Base, Locked, ShopDos, Edits
  <2>2. PICK S \in Shop : to = [view EXCEPT !.shop = S] /\ S.period = view.shop.period
    BY <1>1, <1>2, <1>9, <2>1, ShopOutcomes
  <2>3. to.cust = view.cust /\ to.shop = S /\ to.code = view.code /\ to.ledger = view.ledger
    BY <1>1, <2>2 DEF Database
  <2>4. cmd.do \notin {"adjust_wallet", "set_topup_decision"}
    BY <1>9 DEF ShopDos, Edits
  <2>5. SameMoney(db') /\ SameFlags(db') /\ db'.code = db.code
    BY <1>7, <2>1, <2>2, <2>3, <2>4
  <2> QED BY <1>1, <1>3, <1>5, <2>4, <2>5 DEF SameCode
<1>10. CASE cmd.do = "set_customer_banned"
  <2>1. Base(req[s]) = view
    BY <1>10 DEF Base, Locked
  <2>2. PICK C \in [Customers -> Customer] :
            /\ to = [view EXCEPT !.cust = C]
            /\ \A i \in Customers : C[i].trial = view.cust[i].trial /\ C[i].bal = view.cust[i].bal
    BY <1>1, <1>2, <1>10, <2>1, BanOutcomes
  <2>3. to.cust = C /\ to.shop = view.shop /\ to.code = view.code /\ to.ledger = view.ledger
    BY <1>1, <2>2 DEF Database
  <2>4. \A i \in Customers : F.cust[i].bal = db.cust[i].bal /\ F.cust[i].trial = db.cust[i].trial
    BY <1>2, <1>6, <2>1, <2>2, <2>3, CustomerKeeps
  <2>5. F.ledger = db.ledger /\ F.code = db.code /\ F.shop.period = db.shop.period
    BY <1>2, <1>6, <2>1, <2>3, InsertedSame, MergeSame
  <2> HIDE DEF F
  <2>6. SameMoney(db') /\ SameFlags(db') /\ db'.code = db.code
    BY <1>2, <1>4, <1>10, <2>4, <2>5 DEF SameMoney, SameFlags, F
  <2> QED BY <1>1, <1>3, <1>5, <1>10, <2>6 DEF SameCode
<1>11. CASE cmd.do \in CodeDos
  <2>1. Base(req[s]) = view
    BY <1>11 DEF Base, Locked, CodeDos
  <2>2. PICK K \in Code :
            /\ to = [view EXCEPT !.code = K]
            /\ cmd.do = "create_credit" => view.code = None /\ K.used = 0
            /\ cmd.do # "create_credit" => view.code # None /\ K.used = view.code.used /\ K.cap = view.code.cap
    BY <1>1, <1>2, <1>11, <2>1, CodeOutcomes
  <2>3. to.cust = view.cust /\ to.shop = view.shop /\ to.code = K /\ to.ledger = view.ledger
    BY <1>1, <2>2 DEF Database
  <2>4. cmd.do \notin {"adjust_wallet", "set_topup_decision"}
    BY <1>11 DEF CodeDos
  <2>5. SameMoney(db') /\ SameFlags(db')
    BY <1>6, <1>7, <2>1, <2>3, <2>4
  <2>6. db'.code = MergeRow(db.code, view.code, K)
    BY <1>2, <2>1, <2>3
  <2>7. K # None
    BY NoneShopAssumption
  <2>8. CASE cmd.do = "create_credit"
    <3>1. db.code = None
      BY <2>8 DEF Commit, Clash
    <3>2. db'.code = K
      <4>1. {None, Gone} \cap {db.code, view.code, K} # {} /\ K # view.code
        BY <2>2, <2>7, <2>8, <3>1
      <4>2. MergeRow(db.code, view.code, K) = K
        BY <4>1, MergeNone
      <4> QED BY <2>6, <4>2
    <3> QED BY <1>1, <1>3, <1>5, <2>2, <2>4, <2>5, <2>7, <2>8, <3>1, <3>2 DEF SameCode
  <2>9. CASE cmd.do # "create_credit"
    <3>1. CodeStays => db.code # None
      BY <1>1, <2>2, <2>9 DEF CodeStays, Commit, Opened
    <3>2. ASSUME db.code # None PROVE /\ db'.code \in Code /\ db'.code # None
                                      /\ db'.code.used = db.code.used /\ db'.code.cap = db.code.cap
      BY <1>6, <2>2, <2>6, <2>9, <3>2, CodeKeeps
    <3> QED BY <1>1, <1>3, <1>5, <2>4, <2>5, <3>1, <3>2 DEF SameCode
  <2> QED BY <2>8, <2>9
<1>12. CASE Locked(cmd)
  <2>1. Base(req[s]) = db /\ F = to
    BY <1>2, <1>12 DEF Base
  <2>2. CASE cmd.do = "reset_free_trials"
    <3>1. db.shop.period = None
      BY <1>1, <1>2, <2>1, <2>2, ResetOutcomes
    <3> DEFINE C == [i \in Customers |-> [db.cust[i] EXCEPT !.trial = FALSE]]
    <3>2. to = [[db EXCEPT !.shop = [db.shop EXCEPT !.period = "now"]] EXCEPT !.cust = C]
      <4>1. to \in Outcomes(cmd, db)
        BY <1>2, <2>1
      <4> QED BY <1>1, <2>2, <4>1, ResetOutcomes
    <3>3. \A i \in Customers : C[i].bal = db.cust[i].bal
      BY <1>6 DEF Customer
    <3> HIDE DEF C
    <3>4. to.cust = C /\ to.code = db.code /\ to.ledger = db.ledger /\ to.shop = [db.shop EXCEPT !.period = "now"]
      BY <1>1, <3>2 DEF Database
    <3>5. to.shop.period # None
      <4>1. "period" \in DOMAIN db.shop
        BY <1>6 DEF Shop
      <4>2. to.shop.period = "now"
        BY <3>4, <4>1
      <4> QED BY <4>2, NoneShopAssumption
    <3>6. SameMoney(db') /\ db'.code = db.code
      BY <1>2, <2>1, <2>2, <3>3, <3>4 DEF SameMoney
    <3> QED BY <1>1, <1>2, <1>3, <1>4, <2>1, <2>2, <3>1, <3>5, <3>6 DEF SameCode
  <2>3. CASE cmd.do \in {"adjust_wallet", "set_topup_decision"}
    <3>1. ~OnVersion(cmd)
      BY <2>3 DEF OnVersion, Entities
    <3>2. db'.shop = to.shop
      <4>1. db'.shop = [F.shop EXCEPT !.version = F.shop.version]
        BY <1>2, <3>1
      <4> QED BY <1>6, <2>1, <4>1 DEF Shop
    <3>3. db' = to
      <4>1. to.order = db.order /\ to.cost = db.cost
        BY <1>1, <1>2, <1>5, <2>1, OutcomesTyped
      <4> QED BY <1>2, <1>3, <2>1, <3>2, <4>1, SameDatabase
    <3>4. to \in Outcomes(cmd, db)
      BY <1>2, <2>1
    <3>5. CASE cmd.do = "adjust_wallet"
      <4>1. PICK n \in Int :
                /\ cmd.c \in Customers /\ db.cust[cmd.c].bal + n >= 0
                /\ to = [Moves(db, cmd.c, n) EXCEPT !.ledger = [db.ledger EXCEPT ![cmd.c] = db.ledger[cmd.c] + n]]
        BY <1>1, <3>4, <3>5, AdjustOutcomes
      <4>2. LET m == Moves(db, cmd.c, n)
            IN /\ m \in Database /\ m.shop = db.shop /\ m.code = db.code
               /\ \A j \in Customers : m.cust[j].trial = db.cust[j].trial
        BY <1>1, <4>1, MovesIs
      <4> DEFINE m == Moves(db, cmd.c, n)
      <4>3. to.cust = m.cust /\ to.shop = m.shop /\ to.code = m.code
        BY <4>1, <4>2 DEF Database
      <4> QED BY <1>1, <1>3, <1>5, <3>3, <3>4, <3>5, <4>2, <4>3 DEF SameFlags
    <3>6. CASE cmd.do = "set_topup_decision"
      <4>1. SameFlags(to) /\ (db.code # None => to.code # None)
        BY <1>1, <1>5, <3>4, <3>6, DecisionFlags
      <4> QED BY <1>1, <1>3, <1>5, <3>3, <3>4, <3>6, <4>1
    <3> QED BY <2>3, <3>5, <3>6
  <2> QED BY <1>12, <2>2, <2>3 DEF Locked
<1> QED
  <2>1. cmd.do \in PlanDos \cup ShopDos \cup CodeDos \cup {"set_customer_banned"} \/ Locked(cmd)
    BY <1>1 DEF Executed, RowDos, Locked
  <2>2. Goal
    BY <1>8, <1>9, <1>10, <1>11, <1>12, <2>1
  <2> QED BY <1>1, <1>3, <1>5, <2>2

\* Every other step of an administrator or a sweep leaves the shop's configuration, its
\* customers, top-ups and code alone.
Minor == /\ db'.plan = db.plan /\ db'.cust = db.cust /\ db'.topup = db.topup /\ db'.code = db.code
         /\ db'.ledger = db.ledger /\ db'.uses = db.uses /\ Alike(db'.shop, db.shop)
LEMMA OtherSteps ==
    ASSUME Typed, Next, \A s \in Slots : ~Commit(s)
    PROVE  Minor
<1>0. db \in Database /\ db.shop \in Shop
  BY DEF Typed, TypeOK, Database
<1>1. ASSUME UNCHANGED db PROVE Minor
  BY <1>1 DEF Minor, Alike
<1>2. ASSUME NEW a \in {"error", "token"}, NEW x, db' = [db EXCEPT !.shop = [db.shop EXCEPT ![a] = x]] PROVE Minor
  <2> DEFINE S == [db.shop EXCEPT ![a] = x]
  <2>1. Alike(S, db.shop)
    BY <1>0, <1>2, ShopDomain DEF Alike, Attributes
  <2> HIDE DEF S
  <2>2. db' = [db EXCEPT !.shop = S]
    BY <1>2 DEF S
  <2> QED BY <1>0, <2>1, <2>2 DEF Minor, Database
<1>3. ASSUME ChannelError PROVE Minor
  <2>1. db' = [db EXCEPT !.shop = [db.shop EXCEPT !["error"] = TRUE]]
    BY <1>0, <1>3 DEF ChannelError, Database
  <2> QED BY <1>2, <2>1
<1>4. ASSUME NEW x, db' = [db EXCEPT !.order = x] PROVE Minor
  BY <1>0, <1>4 DEF Minor, Alike, Database
<1>5. ASSUME CostMoves PROVE Minor
  BY <1>0, <1>5 DEF CostMoves, Minor, Alike, Database
<1>6. ASSUME ReplaceToken PROVE Minor
  <2>1. db' = [db EXCEPT !.shop = [db.shop EXCEPT !["token"] = 1]]
    BY <1>0, <1>6 DEF ReplaceToken, Database
  <2> QED BY <1>2, <2>1
<1>7. ASSUME NEW s \in Slots, ChangeOrder(s) PROVE Minor
  <2>1. UNCHANGED db \/ \E x : db' = [db EXCEPT !.order = x]
    BY <1>7, Zenon DEF ChangeOrder
  <2> QED BY <1>1, <1>4, <2>1
<1>8. ASSUME NEW s \in Slots, BeginExternal(s) \/ FinishUnknown(s) \/ FinishFailed(s) PROVE Minor
  BY <1>1, <1>3, <1>8 DEF BeginExternal, FinishUnknown, FinishFailed
<1>9. ASSUME NEW s \in Slots,
             \/ Ask(s) \/ Again(s) \/ Deny(s) \/ Replay(s) \/ TurnAway(s) \/ Expire(s)
             \/ Begin(s) \/ Conflict(s) \/ Rollback(s) \/ CheckChannel(s) \/ FinishOrder(s)
             \/ FinishDenied(s) \/ FinishChannel(s) \/ BeginBulk(s) \/ NextItem(s) \/ EndItems(s)
             \/ TrialSweep(s) \/ BelowPlan(s) \/ BelowClose(s) \/ Crash(s)
      PROVE  Minor
  <2>1. UNCHANGED db
    BY <1>9
    DEF Ask, Again, Deny, Replay, TurnAway, Expire, Begin, Conflict, Rollback, CheckChannel, FinishOrder,
        FinishDenied, FinishChannel, BeginBulk, NextItem, EndItems, TrialSweep, BelowPlan, BelowClose, Crash
  <2> QED BY <1>1, <2>1
<1>10. ASSUME BelowScan \/ BelowCheck \/ BelowStops \/ \E k \in Keys : LeaseOver(k) \/ Reap(k) PROVE Minor
  <2>1. UNCHANGED db
    BY <1>10 DEF BelowScan, BelowCheck, BelowStops, LeaseOver, Reap
  <2> QED BY <1>1, <2>1
<1> QED BY <1>5, <1>6, <1>7, <1>8, <1>9, <1>10, Zenon DEF Next

-----------------------------------------------------------------------------
(* Requests: what a slot holds after a step.                               *)

\* The same request, perhaps further on, with another channel or fewer parts.
Same(q, r) == /\ q.key = r.key /\ q.cmd.do = r.cmd.do /\ q.by = r.by /\ q.via = r.via
              /\ q.seen = r.seen /\ q.parent = r.parent
Holds(s, q) == req' = [req EXCEPT ![s] = q]
\* A request for key and cmd that was just sent.
Fresh(q, key, cmd) == /\ q.key = key /\ q.cmd = cmd /\ q.step = "sent" /\ q.parent = None
                      /\ OnVersion(cmd) \/ q.seen = 0
Opens(s, q) == /\ req[s] # None /\ Allowed(req[s])
               /\ Same(q, req[s]) /\ q.cmd = req[s].cmd /\ q.step = "open" /\ q.view = db

LEMMA StepOn ==
    ASSUME Typed, NEW s \in Slots, req[s] # None, NEW x \in {"open", "call", "answer", "items"}
    PROVE  LET q == [req[s] EXCEPT !.step = x]
           IN q \in SomeRequest /\ Same(q, req[s]) /\ q.cmd = req[s].cmd /\ q.step = x
<1>1. req[s] \in SomeRequest
  BY SlotIs
<1>2. [req[s] EXCEPT !.step = x] \in SomeRequest
  BY <1>1, RequestFields
<1>3. DOMAIN req[s] = {"key", "cmd", "by", "via", "seen", "step", "view", "answer", "left", "parent", "token"}
  BY <1>1, RequestFields
<1> QED BY <1>2, <1>3 DEF Same

LEMMA OpensIs ==
    ASSUME Typed, NEW s \in Slots, req[s] # None, Allowed(req[s]), To(s, [req[s] EXCEPT !.step = "open", !.view = db])
    PROVE  \E q : Holds(s, q) /\ Opens(s, q)
<1> DEFINE p == [req[s] EXCEPT !.step = "open"]
           q == [p EXCEPT !.view = db]
<1>1. p \in SomeRequest /\ Same(p, req[s]) /\ p.cmd = req[s].cmd /\ p.step = "open"
  BY StepOn
<1>2. [req[s] EXCEPT !.step = "open", !.view = db] = q
  BY SlotIs, RequestFields
<1>3. db \in Database
  BY DEF Typed, TypeOK
<1> HIDE DEF p
<1>4. q \in SomeRequest /\ DOMAIN p = {"key", "cmd", "by", "via", "seen", "step", "view", "answer", "left", "parent", "token"}
  BY <1>1, <1>3, RequestFields
<1>5. Same(q, req[s]) /\ q.cmd = req[s].cmd /\ q.step = "open" /\ q.view = db
  BY <1>1, <1>4 DEF Same
<1>6. Holds(s, q)
  BY <1>2 DEF To, Holds
<1> HIDE DEF q
<1>7. Opens(s, q)
  BY <1>5 DEF Opens
<1> QED BY <1>6, <1>7

LEMMA CallsIs ==
    ASSUME Typed, NEW s \in Slots, BeginExternal(s)
    PROVE  /\ req[s] # None /\ req[s].step = "sent" /\ External(req[s].cmd) /\ Claim(req[s]) = "claimed"
           /\ UNCHANGED <<asked, did, calls>>
           /\ \/ \E why \in {"config_conflict", "refused"} : Caches(s, "failed", why) /\ Reply(s, why)
              \/ /\ keys' = [keys EXCEPT ![req[s].key] = Pending(req[s])] /\ told' = told /\ db' = db
                 /\ \E q : Holds(s, q) /\ Same(q, req[s]) /\ q.step = "call"
<1>1. /\ req[s] # None /\ req[s].step = "sent" /\ External(req[s].cmd) /\ Claim(req[s]) = "claimed"
      /\ UNCHANGED <<asked, did, calls>>
  BY DEF BeginExternal, Claims
<1> DEFINE r == req[s]
           channel == IF r.cmd.do = "channel.save" THEN r.cmd.channel ELSE db.shop.channel
           p == [r EXCEPT !.step = "call"]
<1>2. r \in SomeRequest /\ r.cmd \in Command /\ db \in Database
      /\ DOMAIN r = {"key", "cmd", "by", "via", "seen", "step", "view", "answer", "left", "parent", "token"}
  BY <1>1, SlotIs, RequestFields DEF Typed, TypeOK
<1>3. p \in SomeRequest /\ Same(p, r) /\ p.cmd = r.cmd /\ p.step = "call"
  BY <1>1, StepOn
<1>4. CASE \E why \in {"config_conflict", "refused"} : Caches(s, "failed", why) /\ Reply(s, why)
  BY <1>1, <1>4
<1>5. CASE /\ r.cmd.do \in Channels /\ keys' = [keys EXCEPT ![r.key] = Pending(r)] /\ UNCHANGED db
           /\ To(s, [r EXCEPT !.step = "call", !.cmd.channel = channel, !.token = db.shop.token])
  <2> DEFINE cmd == [r.cmd EXCEPT !.channel = channel]
             p2 == [p EXCEPT !.cmd = cmd]
             q == [p2 EXCEPT !.token = db.shop.token]
  <2>1. channel \in {None, "c1", "c2"} /\ db.shop.token \in Nat
    BY <1>2, <1>5, CommandFields DEF Database, Shop, Channels
  <2>2. cmd \in Command /\ cmd.do = r.cmd.do
    BY <1>2, <1>5, <2>1 DEF Command, Channels
  <2>3. [r EXCEPT !.step = "call", !.cmd.channel = channel, !.token = db.shop.token] = q
    BY <1>2
  <2>4. Holds(s, q) /\ told' = told
    BY <1>5, <2>3 DEF To, Holds
  <2> HIDE DEF cmd, p
  <2>5. p2 \in SomeRequest /\ Same(p2, r) /\ p2.step = "call"
    <3>1. DOMAIN p = {"key", "cmd", "by", "via", "seen", "step", "view", "answer", "left", "parent", "token"}
      BY <1>3, RequestFields
    <3>2. p2 \in SomeRequest
      BY <1>3, <2>2, RequestFields
    <3> QED BY <1>3, <2>2, <3>1, <3>2 DEF Same
  <2> HIDE DEF p2
  <2>6. Same(q, r) /\ q.step = "call"
    <3>1. DOMAIN p2 = {"key", "cmd", "by", "via", "seen", "step", "view", "answer", "left", "parent", "token"}
      BY <2>5, RequestFields
    <3> QED BY <2>5, <3>1 DEF Same
  <2> HIDE DEF q
  <2> QED BY <1>1, <1>5, <2>4, <2>6
<1>6. CASE /\ keys' = [keys EXCEPT ![r.key] = Pending(r)] /\ UNCHANGED db
           /\ To(s, [r EXCEPT !.step = "call"])
  <2>1. Holds(s, p) /\ told' = told
    BY <1>6 DEF To, Holds
  <2> HIDE DEF p
  <2> QED BY <1>1, <1>3, <1>6, <2>1
<1> QED BY <1>4, <1>5, <1>6 DEF BeginExternal

LEMMA AnswersIs ==
    ASSUME Typed, NEW s \in Slots, NEW answer, Calling(s, answer)
    PROVE  /\ req[s] # None /\ req[s].step = "call" /\ UNCHANGED <<keys, asked, did, told>>
           /\ calls' = [calls EXCEPT ![req[s].key] = calls[req[s].key] + 1]
           /\ \E q : Holds(s, q) /\ Same(q, req[s]) /\ q.step = "answer"
<1>1. /\ req[s] # None /\ req[s].step = "call" /\ UNCHANGED <<keys, asked, did, told>>
      /\ calls' = [calls EXCEPT ![req[s].key] = calls[req[s].key] + 1]
      /\ req' = [req EXCEPT ![s] = [req[s] EXCEPT !.step = "answer", !.answer = answer]]
  BY DEF Calling, To
<1> DEFINE p == [req[s] EXCEPT !.step = "answer"]
           q == [p EXCEPT !.answer = answer]
<1>2. p \in SomeRequest /\ Same(p, req[s]) /\ p.cmd = req[s].cmd /\ p.step = "answer"
  BY <1>1, StepOn
<1>3. Holds(s, q)
  BY <1>1, SlotIs, RequestFields DEF Holds
<1> HIDE DEF p
<1>4. DOMAIN p = {"key", "cmd", "by", "via", "seen", "step", "view", "answer", "left", "parent", "token"}
  BY <1>2, RequestFields
<1>5. Same(q, req[s]) /\ q.step = "answer"
  BY <1>2, <1>4 DEF Same
<1> HIDE DEF q
<1> QED BY <1>1, <1>3, <1>5

LEMMA BulkIs ==
    ASSUME Typed, NEW s \in Slots, BeginBulk(s)
    PROVE  /\ req[s] # None /\ req[s].step = "sent" /\ req[s].cmd.do = "bulk_topup_decisions"
           /\ Claim(req[s]) = "claimed" /\ UNCHANGED <<db, asked, did, calls, told>>
           /\ keys' = [keys EXCEPT ![req[s].key] = Pending(req[s])]
           /\ \E q : Holds(s, q) /\ Same(q, req[s]) /\ q.step = "items"
<1>1. /\ req[s] # None /\ req[s].step = "sent" /\ req[s].cmd.do = "bulk_topup_decisions"
      /\ Claim(req[s]) = "claimed" /\ UNCHANGED <<db, asked, did, calls, told>>
      /\ keys' = [keys EXCEPT ![req[s].key] = Pending(req[s])]
      /\ req' = [req EXCEPT ![s] = [req[s] EXCEPT !.step = "items", !.left = Requested]]
  BY DEF BeginBulk, Claims, To
<1> DEFINE p == [req[s] EXCEPT !.step = "items"]
           q == [p EXCEPT !.left = Requested]
<1>2. p \in SomeRequest /\ Same(p, req[s]) /\ p.cmd = req[s].cmd /\ p.step = "items"
  BY <1>1, StepOn
<1>3. Holds(s, q)
  BY <1>1, SlotIs, RequestFields DEF Holds
<1> HIDE DEF p
<1>4. DOMAIN p = {"key", "cmd", "by", "via", "seen", "step", "view", "answer", "left", "parent", "token"}
  BY <1>2, RequestFields
<1>5. Same(q, req[s]) /\ q.step = "items"
  BY <1>2, <1>4 DEF Same
<1> HIDE DEF q
<1> QED BY <1>1, <1>3, <1>5

LEMMA ItemIs ==
    ASSUME Typed, NEW s \in Slots, NextItem(s)
    PROVE  /\ req[s] # None /\ req[s].step = "items" /\ UNCHANGED <<db, keys, asked, did, calls, told>>
           /\ \E q : \E t \in Topups :
                /\ Holds(s, q) /\ q.key = <<req[s].key[1], t>> /\ q.cmd.do = "set_topup_decision" /\ q.step = "sent"
                /\ q.seen = 0 /\ q.parent # None /\ Same(q.parent, req[s]) /\ q.parent.step = "items"
<1> DEFINE r == req[s]
           item(t) == [do |-> "set_topup_decision", t |-> t, yes |-> r.cmd.yes,
                       n |-> IF r.cmd.yes THEN db.topup[t].amount ELSE 0]
           part(t) == Sent(<<r.key[1], t>>, item(t), r.by, r.via, 0)
           rest(t) == [r EXCEPT !.left = r.left \ {t}]
           q(t) == [part(t) EXCEPT !.parent = rest(t)]
<1>1. r # None /\ r.step = "items" /\ UNCHANGED <<db, keys, asked, did, calls, told>>
  BY DEF NextItem, To
<1>2. /\ r \in SomeRequest /\ Good(r, db)
      /\ DOMAIN r = {"key", "cmd", "by", "via", "seen", "step", "view", "answer", "left", "parent", "token"}
  BY <1>1, SlotIs, RequestFields
<1>3. PICK t \in r.left : Holds(s, q(t))
  BY DEF NextItem, To, Holds
<1>4. t \in Topups /\ r.left \ {t} \in SUBSET Topups
  BY <1>1, <1>3, SlotIs
<1>5. rest(t) \in SomeRequest /\ Same(rest(t), r) /\ rest(t).step = "items"
  <2>1. rest(t) \in SomeRequest
    BY <1>2, <1>4, RequestFields
  <2> QED BY <1>1, <1>2, <2>1 DEF Same
<1>6. /\ DOMAIN part(t) = {"key", "cmd", "by", "via", "seen", "step", "view", "answer", "left", "parent", "token"}
      /\ part(t).key = <<r.key[1], t>> /\ part(t).cmd = item(t) /\ part(t).step = "sent"
      /\ part(t).seen = IF OnVersion(item(t)) THEN 0 ELSE 0
  BY DEF Sent
<1>7. item(t).do = "set_topup_decision"
  OBVIOUS
<1>8. rest(t) # None
  <2>1. r.parent = None
    BY <1>1, <1>2 DEF Good, Wellformed
  <2>2. \A x \in SomeRequest : x.parent = None => x \in Part
    BY DEF SomeRequest, Request, Part
  <2> HIDE DEF rest
  <2>3. rest(t) \in Part
    BY <1>5, <2>1, <2>2 DEF Same
  <2> QED BY <2>3, NoneShopAssumption DEF Part
<1> HIDE DEF part, rest, item
<1>9. /\ q(t).key = <<r.key[1], t>> /\ q(t).cmd.do = "set_topup_decision" /\ q(t).step = "sent"
      /\ q(t).seen = 0 /\ q(t).parent = rest(t)
  BY <1>6, <1>7
<1> HIDE DEF q
<1> QED BY <1>1, <1>3, <1>4, <1>5, <1>8, <1>9

\* A version that an administrator may have seen, or none.
Known(n) == n = 0 \/ n = Current \/ \E i \in DOMAIN asked : n = asked[i].seen

LEMMA AskIs ==
    ASSUME Typed, NEW s \in Slots, Ask(s)
    PROVE  /\ req[s] = None /\ UNCHANGED <<db, keys, told, did, calls>>
           /\ \E cmd \in Command : \E q, x :
                /\ Holds(s, q) /\ Fresh(q, <<Len(asked) + 1, 0>>, cmd) /\ Known(q.seen)
                /\ asked' = Append(asked, x) /\ x.cmd = cmd /\ x.seen = q.seen
<1>1. PICK o \in Offered, by \in world.by : \E seen \in Seen(o, by) :
            LET r == Sent(<<Len(asked) + 1, 0>>, o.cmd, by, o.via, seen)
            IN /\ req' = [req EXCEPT ![s] = r]
               /\ asked' = Append(asked, [cmd |-> r.cmd, by |-> by, via |-> o.via, seen |-> r.seen])
  BY DEF Ask
<1>2. PICK seen \in Seen(o, by) :
            LET r == Sent(<<Len(asked) + 1, 0>>, o.cmd, by, o.via, seen)
            IN /\ req' = [req EXCEPT ![s] = r]
               /\ asked' = Append(asked, [cmd |-> r.cmd, by |-> by, via |-> o.via, seen |-> r.seen])
  BY <1>1
<1>3. Known(seen)
  BY <1>2 DEF Seen, Known
<1>4. o.cmd \in Command
  BY OfferedIs
<1> DEFINE q == Sent(<<Len(asked) + 1, 0>>, o.cmd, by, o.via, seen)
           x == [cmd |-> q.cmd, by |-> by, via |-> o.via, seen |-> q.seen]
<1>5. Fresh(q, <<Len(asked) + 1, 0>>, o.cmd) /\ q.cmd = o.cmd /\ Known(q.seen)
  BY <1>3 DEF Sent, Fresh, Known
<1>6. Holds(s, q) /\ asked' = Append(asked, x) /\ x.cmd = q.cmd /\ x.seen = q.seen
  BY <1>2 DEF Holds
<1> HIDE DEF q, x
<1>7. req[s] = None /\ UNCHANGED <<db, keys, told, did, calls>>
  BY DEF Ask, history
<1> QED BY <1>4, <1>5, <1>6, <1>7

LEMMA AgainIs ==
    ASSUME Typed, NEW s \in Slots, Again(s)
    PROVE  /\ req[s] = None /\ UNCHANGED <<db, keys, asked, told, did, calls>>
           /\ \E i \in DOMAIN asked : \E q : Holds(s, q) /\ Fresh(q, <<i, 0>>, asked[i].cmd) /\ Known(q.seen)
<1>1. PICK i \in DOMAIN asked :
          \E seen \in {asked[i].seen} \cup (IF asked[i].via = "button" THEN {Current} ELSE {}) :
              req' = [req EXCEPT ![s] = Sent(<<i, 0>>, asked[i].cmd, asked[i].by, asked[i].via, seen)]
  BY DEF Again
<1>2. PICK seen \in {asked[i].seen, Current} :
          req' = [req EXCEPT ![s] = Sent(<<i, 0>>, asked[i].cmd, asked[i].by, asked[i].via, seen)]
  BY <1>1
<1>3. Known(seen)
  BY <1>2 DEF Known
<1> DEFINE q == Sent(<<i, 0>>, asked[i].cmd, asked[i].by, asked[i].via, seen)
<1>4. Fresh(q, <<i, 0>>, asked[i].cmd) /\ Known(q.seen)
  BY <1>3 DEF Sent, Fresh, Known
<1>5. Holds(s, q)
  BY <1>2 DEF Holds
<1> HIDE DEF q
<1>6. req[s] = None /\ UNCHANGED <<db, keys, asked, told, did, calls>>
  BY DEF Again, history
<1> QED BY <1>4, <1>5, <1>6

SweepKeys == {TrialKey, ClosingKey} \cup {SweepKey(p) : p \in Plans}
LEMMA SweepIs ==
    ASSUME Typed, NEW s \in Slots, TrialSweep(s) \/ BelowPlan(s) \/ BelowClose(s)
    PROVE  /\ req[s] = None /\ UNCHANGED <<db, keys, asked, told, did, calls>>
           /\ \E key \in SweepKeys : \E cmd, q :
                /\ Holds(s, q) /\ Fresh(q, key, cmd) /\ Known(q.seen)
                /\ cmd.do \in {"reset_free_trials", "set_plan_enabled", "update_shop_state"}
<1> DEFINE q(key, cmd) == Sent(key, cmd, System, "system", Current)
<1>1. \A key, cmd : Fresh(q(key, cmd), key, cmd) /\ Known(q(key, cmd).seen)
  BY DEF Sent, Fresh, Known
<1>2. req[s] = None /\ UNCHANGED <<db, keys, asked, told, did, calls>>
  BY DEF TrialSweep, BelowPlan, BelowClose, history
<1>3. \/ Holds(s, q(TrialKey, [do |-> "reset_free_trials"]))
      \/ \E p \in sweep.left : Holds(s, q(SweepKey(p), [do |-> "set_plan_enabled", p |-> p, on |-> FALSE]))
      \/ Holds(s, q(ClosingKey, [do |-> "update_shop_state", set |-> [closed |-> TRUE]]))
  BY DEF TrialSweep, BelowPlan, BelowClose, Sweep, Holds
<1>4. BelowPlan(s) => sweep.left \subseteq Plans
  BY DEF BelowPlan, Through, Sweeping, Typed, SweepOK
<1>5. ASSUME NEW key \in SweepKeys, NEW cmd, Holds(s, q(key, cmd)),
             cmd.do \in {"reset_free_trials", "set_plan_enabled", "update_shop_state"}
      PROVE  \E k \in SweepKeys : \E c, x :
                /\ Holds(s, x) /\ Fresh(x, k, c) /\ Known(x.seen)
                /\ c.do \in {"reset_free_trials", "set_plan_enabled", "update_shop_state"}
  BY <1>1, <1>5
<1> HIDE DEF q
<1>6. CASE TrialSweep(s)
  <2>1. Holds(s, q(TrialKey, [do |-> "reset_free_trials"]))
    BY <1>6 DEF TrialSweep, Holds, q
  <2> QED BY <1>2, <1>5, <2>1 DEF SweepKeys
<1>7. CASE BelowPlan(s)
  <2>1. PICK p \in sweep.left : Holds(s, q(SweepKey(p), [do |-> "set_plan_enabled", p |-> p, on |-> FALSE]))
    BY <1>7 DEF BelowPlan, Sweep, Holds, q
  <2>2. SweepKey(p) \in SweepKeys
    BY <1>4, <1>7, <2>1 DEF SweepKeys
  <2> DEFINE cmd == [do |-> "set_plan_enabled", p |-> p, on |-> FALSE]
  <2>3. Holds(s, q(SweepKey(p), cmd)) /\ cmd.do = "set_plan_enabled"
    BY <2>1
  <2> HIDE DEF cmd
  <2> QED BY <1>2, <1>5, <2>2, <2>3
<1>8. CASE BelowClose(s)
  <2> DEFINE cmd == [do |-> "update_shop_state", set |-> [closed |-> TRUE]]
  <2>1. Holds(s, q(ClosingKey, cmd)) /\ cmd.do = "update_shop_state"
    BY <1>8 DEF BelowClose, Sweep, Holds, q
  <2> HIDE DEF cmd
  <2> QED BY <1>2, <1>5, <2>1 DEF SweepKeys
<1> QED BY <1>6, <1>7, <1>8

\* What a slot holds after a step that changes it, and what the administrators sent first.
Turn(s, q) ==
    \/ q = None
    \/ req[s] # None /\ req[s].parent # None /\ q = req[s].parent
    \/ q.step = "sent" /\ q.parent = None /\ Known(q.seen)
    \/ /\ req[s] # None /\ q.step = "sent" /\ q.seen = 0
       /\ q.parent # None /\ Same(q.parent, req[s]) /\ q.parent.step = "items"
    \/ Opens(s, q) /\ db' = db
    \/ req[s] # None /\ Same(q, req[s]) /\ q.step \in {"call", "answer", "items"}
Turns1 == req' = req \/ \E s \in Slots : \E q : Holds(s, q) /\ Turn(s, q)
AskedKnown == asked' = asked \/ \E x : Known(x.seen) /\ asked' = Append(asked, x)
LEMMA SlotSteps ==
    ASSUME Typed, Next
    PROVE  Turns1 /\ AskedKnown
<1>1. ASSUME NEW s \in Slots, NEW answer, Reply(s, answer), req[s] # None PROVE Turns1
  <2>1. Holds(s, req[s].parent)
    BY <1>1 DEF Reply, Holds
  <2>2. Turn(s, req[s].parent)
    BY <1>1 DEF Turn
  <2> QED BY <2>1, <2>2 DEF Turns1
<1>2. ASSUME NEW s \in Slots, NEW q, Holds(s, q), Turn(s, q) PROVE Turns1
  BY <1>2 DEF Turns1
<1>3. ASSUME UNCHANGED asked PROVE AskedKnown
  BY <1>3 DEF AskedKnown
<1>4. ASSUME NEW s \in Slots, Ask(s) PROVE Turns1 /\ AskedKnown
  <2>1. PICK cmd, q, x : /\ Holds(s, q) /\ Fresh(q, <<Len(asked) + 1, 0>>, cmd) /\ Known(q.seen)
                         /\ asked' = Append(asked, x) /\ x.cmd = cmd /\ x.seen = q.seen
    BY <1>4, AskIs
  <2>2. Turn(s, q)
    BY <2>1 DEF Turn, Fresh
  <2> QED BY <1>2, <2>1, <2>2 DEF AskedKnown
<1>5. ASSUME NEW s \in Slots, Again(s) PROVE Turns1 /\ AskedKnown
  <2>1. PICK i \in DOMAIN asked : \E q : Holds(s, q) /\ Fresh(q, <<i, 0>>, asked[i].cmd) /\ Known(q.seen)
    BY <1>5, AgainIs
  <2>2. PICK q : Holds(s, q) /\ Fresh(q, <<i, 0>>, asked[i].cmd) /\ Known(q.seen)
    BY <2>1
  <2>3. Turn(s, q)
    BY <2>2 DEF Turn, Fresh
  <2> QED BY <1>2, <1>3, <1>5, <2>2, <2>3, AgainIs
<1>6. ASSUME NEW s \in Slots, TrialSweep(s) \/ BelowPlan(s) \/ BelowClose(s) PROVE Turns1 /\ AskedKnown
  <2>1. PICK key \in SweepKeys : \E cmd, q : Holds(s, q) /\ Fresh(q, key, cmd) /\ Known(q.seen)
    BY <1>6, SweepIs
  <2>2. PICK cmd, q : Holds(s, q) /\ Fresh(q, key, cmd) /\ Known(q.seen)
    BY <2>1
  <2>3. Turn(s, q)
    BY <2>2 DEF Turn, Fresh
  <2> QED BY <1>2, <1>3, <1>6, <2>2, <2>3, SweepIs
<1>7. ASSUME NEW s \in Slots, req[s] # None, Allowed(req[s]), db' = db,
             To(s, [req[s] EXCEPT !.step = "open", !.view = db])
      PROVE  Turns1
  <2>1. PICK q : Holds(s, q) /\ Opens(s, q)
    BY <1>7, OpensIs
  <2> QED BY <1>2, <1>7, <2>1 DEF Turn
<1>8. ASSUME NEW s \in Slots, Begin(s) PROVE Turns1 /\ AskedKnown
  <2>1. req[s] # None /\ Allowed(req[s]) /\ db' = db /\ UNCHANGED asked
    BY <1>8 DEF Begin, Claims
  <2> QED BY <1>1, <1>3, <1>7, <1>8, <2>1 DEF Begin
<1>9. ASSUME NEW s \in Slots, FinishChannel(s) PROVE Turns1 /\ AskedKnown
  <2>1. req[s] # None /\ Allowed(req[s]) /\ db' = db /\ UNCHANGED asked
    BY <1>9 DEF FinishChannel, Unsettled, Answered
  <2> QED BY <1>3, <1>7, <1>9, <2>1 DEF FinishChannel
<1>10. ASSUME NEW s \in Slots, BeginExternal(s) PROVE Turns1 /\ AskedKnown
  <2>1. req[s] # None /\ UNCHANGED asked
    BY <1>10, CallsIs
  <2>2. CASE \E why : Reply(s, why)
    BY <1>1, <1>3, <2>1, <2>2
  <2>3. CASE ~\E why : Reply(s, why)
    <3>1. PICK q : Holds(s, q) /\ Same(q, req[s]) /\ q.step = "call"
      BY <1>10, <2>3, CallsIs
    <3> QED BY <1>2, <1>3, <2>1, <3>1 DEF Turn
  <2> QED BY <2>2, <2>3
<1>11. ASSUME NEW s \in Slots, CheckChannel(s) \/ ChangeOrder(s) PROVE Turns1 /\ AskedKnown
  <2>1. PICK answer : Calling(s, answer)
    BY <1>11, Zenon DEF CheckChannel, ChangeOrder
  <2>2. PICK q : Holds(s, q) /\ Same(q, req[s]) /\ q.step = "answer"
    BY <2>1, AnswersIs
  <2> QED BY <1>2, <1>3, <2>1, <2>2, AnswersIs DEF Turn
<1>12. ASSUME NEW s \in Slots, BeginBulk(s) PROVE Turns1 /\ AskedKnown
  <2>1. PICK q : Holds(s, q) /\ Same(q, req[s]) /\ q.step = "items"
    BY <1>12, BulkIs
  <2> QED BY <1>2, <1>3, <1>12, <2>1, BulkIs DEF Turn
<1>13. ASSUME NEW s \in Slots, NextItem(s) PROVE Turns1 /\ AskedKnown
  <2>1. PICK q : /\ Holds(s, q) /\ q.step = "sent" /\ q.seen = 0
                 /\ q.parent # None /\ Same(q.parent, req[s]) /\ q.parent.step = "items"
    BY <1>13, ItemIs
  <2> QED BY <1>2, <1>3, <1>13, <2>1, ItemIs DEF Turn
<1>14. ASSUME NEW s \in Slots, Crash(s) PROVE Turns1 /\ AskedKnown
  <2>1. Holds(s, None) /\ UNCHANGED asked
    BY <1>14 DEF Crash, Holds
  <2> QED BY <1>2, <1>3, <2>1 DEF Turn
<1>15. ASSUME NEW s \in Slots,
              \/ Deny(s) \/ Replay(s) \/ TurnAway(s) \/ Expire(s) \/ Commit(s) \/ Conflict(s) \/ Rollback(s)
              \/ FinishOrder(s) \/ FinishDenied(s) \/ FinishUnknown(s) \/ FinishFailed(s) \/ EndItems(s)
       PROVE  Turns1 /\ AskedKnown
  <2>1. /\ req[s] # None /\ UNCHANGED asked
    BY <1>15 DEF Deny, Replay, TurnAway, Expire, Commit, Conflict, Rollback, FinishOrder, FinishDenied,
                 FinishUnknown, FinishFailed, EndItems, Claims, Opened, Answered, Unsettled
  <2>2. \E answer : Reply(s, answer)
    BY <1>15, Zenon DEF Deny, Replay, TurnAway, Expire, Commit, Conflict, Rollback, FinishOrder, FinishDenied,
                 FinishUnknown, FinishFailed, EndItems
  <2> QED BY <1>1, <1>3, <2>1, <2>2
<1>16. ASSUME \/ BelowScan \/ BelowCheck \/ BelowStops \/ CostMoves \/ ReplaceToken
              \/ \E k \in Keys : LeaseOver(k) \/ Reap(k)
       PROVE  Turns1 /\ AskedKnown
  <2>1. UNCHANGED <<req, asked>>
    BY <1>16 DEF BelowScan, BelowCheck, BelowStops, CostMoves, ReplaceToken, LeaseOver, Reap
  <2> QED BY <1>3, <2>1 DEF Turns1
<1> QED
  BY <1>4, <1>5, <1>6, <1>8, <1>9, <1>10, <1>11, <1>12, <1>13, <1>14, <1>15, <1>16, Zenon DEF Next

-----------------------------------------------------------------------------
(* Idempotency keys.  What a key's row says, how often its command took    *)
(* effect and was called, and what was answered, agree; and only one       *)
(* request at a time works on a key.                                       *)

Kind(do) == IF do \in Channels \cup Orders THEN "external"
            ELSE IF do = "bulk_topup_decisions" THEN "bulk" ELSE "plain"
\* The kind of the command that a key was sent with first.
KindOf(k, sent) == IF k[2] = 0 /\ k[1] \in DOMAIN sent THEN Kind(sent[k[1]].cmd.do) ELSE "plain"
Truths == {"ok", "refused", "config_conflict"}
\* What a key's row says of its n effects, its m calls and the last answer.
Fits(kind, row, n, m, last) ==
    /\ row = None => n = 0 /\ m = 0 /\ last \notin Truths
    /\ row # None =>
         /\ Kind(row.intent.cmd.do) = kind
         /\ row.status = "succeeded" => row.answer = "ok" /\ (kind = "bulk" \/ n = 1)
         /\ row.status = "failed" => row.answer \in {"refused", "config_conflict"} /\ n = 0 /\ kind # "bulk"
         /\ row.status \in {"pending", "unknown"} => n = 0 /\ kind # "plain"
         /\ row.status = "unknown" => kind = "external"
         /\ last = "ok" => row.status = "succeeded"
         /\ last \in {"refused", "config_conflict"} => row.status = "failed"
    /\ kind = "bulk" => n = 0
    /\ kind # "external" => m = 0
    /\ n \in 0..1 /\ m \in 0..1
AtWork(r) == r.step \in {"open", "call", "answer"}
\* A request that works on its key found no row there, or made it if it is called outside.
Keyed(r, rows, times, sent) ==
    /\ Kind(r.cmd.do) = KindOf(r.key, sent) /\ r.key[1] <= Len(sent)
    /\ r.step = "open" => KindOf(r.key, sent) # "bulk"
    /\ AtWork(r) => IF KindOf(r.key, sent) = "external"
                    THEN rows[r.key] # None /\ rows[r.key].status \in {"pending", "unknown"}
                    ELSE rows[r.key] = None
    /\ r.step = "call" => times[r.key] = 0
    /\ r.step = "items" => rows[r.key] # None
KeyOK(k) == /\ Fits(KindOf(k, asked), keys[k], did[k], calls[k], told[k])
            /\ k[1] > Len(asked) => keys[k] = None
RequestOK(r) == /\ Keyed(r, keys, calls, asked)
                /\ r.parent # None => Keyed(r.parent, keys, calls, asked)
OneAtWork == \A s, o \in Slots : s # o /\ req[s] # None /\ req[o] # None /\ AtWork(req[s]) /\ AtWork(req[o])
                                    => req[s].key # req[o].key
KeysOK ==
    /\ DOMAIN told = Keys
    /\ \A k \in Keys : KeyOK(k)
    /\ \A s \in Slots : req[s] # None => RequestOK(req[s])
    /\ OneAtWork

LEMMA KeyParts == \A k \in Keys : k[1] \in Int /\ k[2] \in Nat /\ k = <<k[1], k[2]>>
BY IdsAssumption, BoundsAssumption DEF Keys, ClosingKey

\* What follows of a request from the types.
LEMMA SlotTyped ==
    ASSUME Typed, NEW s \in Slots, req[s] # None
    PROVE  /\ req[s].key \in Keys /\ keys[req[s].key] \in Key \cup {None}
           /\ did[req[s].key] \in Nat /\ calls[req[s].key] \in Nat
           /\ req[s].step \in {"call", "answer"} => External(req[s].cmd)
           /\ req[s].parent # None => /\ req[s].parent \in Part /\ req[s].parent.key \in Keys
                                      /\ req[s].parent.step = "items" /\ req[s].parent.parent = None
<1>1. Good(req[s], db) /\ req[s].key \in Keys
  BY SlotIs
<1>2. keys \in [Keys -> Key \cup {None}] /\ did \in [Keys -> Nat] /\ calls \in [Keys -> Nat]
  BY DEF Typed, TypeOK
<1>3. \A p \in Part : p.key \in Keys /\ p.parent = None
  BY DEF Part, Request
<1> QED BY <1>1, <1>2, <1>3 DEF Good, Wellformed

\* What each outcome of claiming a key says of its row.
LEMMA ClaimIs ==
    ASSUME NEW r
    PROVE  /\ Claim(r) = "claimed" => \/ keys[r.key] = None
                                      \/ keys[r.key] # None /\ keys[r.key].status \notin {"succeeded", "failed", "unknown"}
                                            /\ ~(keys[r.key].status = "pending" /\ External(r.cmd))
           /\ Claim(r) = "replay" => keys[r.key] # None /\ keys[r.key].status \in {"succeeded", "failed"}
           /\ Claim(r) = "expired" => keys[r.key] # None /\ keys[r.key].status = "pending" /\ External(r.cmd)
<1> DEFINE row == keys[r.key]
<1>1. CASE row = None
  BY <1>1, Zenon DEF Claim
<1>2. CASE row # None /\ row.intent # Intent(r)
  BY <1>2, Zenon DEF Claim
<1>3. CASE row # None /\ row.intent = Intent(r)
  <2>1. Claim(r) = CASE row.status \in {"succeeded", "failed"} -> "replay"
                     [] row.status = "unknown" -> "unknown"
                     [] row.status = "pending" /\ row.lease -> "in_flight"
                     [] row.status = "pending" /\ ~row.lease /\ External(r.cmd) -> "expired"
                     [] OTHER -> "claimed"
    BY <1>3, Zenon DEF Claim
  <2> DEFINE a == row.status \in {"succeeded", "failed"}
             b == row.status = "unknown"
             c == row.status = "pending" /\ row.lease
             d == row.status = "pending" /\ ~row.lease /\ External(r.cmd)
  <2>2. CASE a
    <3>1. Claim(r) = "replay"
      BY <2>1, <2>2, Zenon
    <3> QED BY <1>3, <2>2, <3>1
  <2>3. CASE b
    <3>1. Claim(r) = "unknown"
      BY <2>1, <2>3, Zenon
    <3> QED BY <3>1
  <2>4. CASE c
    <3>1. Claim(r) = "in_flight"
      BY <2>1, <2>4, Zenon
    <3> QED BY <3>1
  <2>5. CASE d
    <3>1. Claim(r) = "expired"
      BY <2>1, <2>5, Zenon
    <3> QED BY <1>3, <2>5, <3>1
  <2>6. CASE ~a /\ ~b /\ ~c /\ ~d
    <3>1. Claim(r) = "claimed"
      BY <2>1, <2>6, Zenon
    <3>2. row.status \notin {"succeeded", "failed", "unknown"} /\ ~(row.status = "pending" /\ External(r.cmd))
      BY <2>6
    <3> QED BY <1>3, <3>1, <3>2
  <2> QED BY <2>2, <2>3, <2>4, <2>5, <2>6
<1> QED BY <1>1, <1>2, <1>3

LEMMA ClaimedIs ==
    ASSUME Typed, KeysOK, NEW s \in Slots, req[s] # None, Claim(req[s]) = "claimed",
           req[s].cmd.do # "bulk_topup_decisions"
    PROVE  keys[req[s].key] = None
<1> DEFINE k == req[s].key
<1>1. k \in Keys /\ keys[k] \in Key \cup {None}
  BY SlotTyped
<1>2. \/ keys[k] = None
      \/ keys[k] # None /\ keys[k].status \notin {"succeeded", "failed", "unknown"}
            /\ ~(keys[k].status = "pending" /\ External(req[s].cmd))
  BY ClaimIs
<1>3. Kind(req[s].cmd.do) = KindOf(k, asked)
  BY DEF KeysOK, RequestOK, Keyed
<1>4. ASSUME keys[k] # None PROVE FALSE
  <2>1. keys[k].status = "pending"
    BY <1>1, <1>2, <1>4 DEF Key
  <2>2. ~External(req[s].cmd)
    BY <1>2, <1>4, <2>1
  <2>3. KindOf(k, asked) = "plain"
    BY <1>3, <2>2 DEF Kind, External
  <2>4. Fits(KindOf(k, asked), keys[k], did[k], calls[k], told[k])
    BY <1>1 DEF KeysOK, KeyOK
  <2> QED BY <1>4, <2>1, <2>3, <2>4 DEF Fits
<1> QED BY <1>4

\* Nobody else works on the key of slot s.
Alone(s) == \A o \in Slots \ {s} : req[o] # None /\ AtWork(req[o]) => req[o].key # req[s].key

\* A request keeps its key when the key's row and calls stay, or when it has no work there.
LEMMA KeyedStays ==
    ASSUME NEW r, NEW rows, NEW times, NEW sent, Keyed(r, rows, times, sent), NEW rows2, NEW times2,
           rows[r.key] # None => rows2[r.key] # None,
           AtWork(r) => /\ times2[r.key] = times[r.key]
                        /\ \/ rows2[r.key] = rows[r.key]
                           \/ /\ rows2[r.key] # None /\ rows2[r.key].status \in {"pending", "unknown"}
                              /\ KindOf(r.key, sent) = "external"
    PROVE  Keyed(r, rows2, times2, sent)
<1>1. r.step = "call" => AtWork(r)
  BY DEF AtWork
<1> QED BY <1>1 DEF Keyed

\* What is kept under key k becomes v, and nothing else changes.
Only(f, g, k, v) == DOMAIN g = Keys /\ g[k] = v /\ \A j \in Keys \ {k} : g[j] = f[j]
LEMMA OnlyIs ==
    ASSUME NEW f, DOMAIN f = Keys, NEW k \in Keys
    PROVE  Only(f, f, k, f[k]) /\ \A v : Only(f, [f EXCEPT ![k] = v], k, v)
BY DEF Only

\* The step of slot s, which goes on with q, changes at most what is kept under its key.
LEMMA OneKey ==
    ASSUME Typed, KeysOK, NEW s \in Slots, req[s] # None, NEW k, k = req[s].key,
           NEW q, Holds(s, q), asked' = asked,
           NEW row, NEW n, NEW m, NEW last,
           Only(keys, keys', k, row), Only(did, did', k, n), Only(calls, calls', k, m), Only(told, told', k, last),
           keys[k] # None => row # None,
           Fits(KindOf(k, asked), row, n, m, last),
           \/ Alone(s)
           \/ m = calls[k] /\ row = keys[k]
           \/ m = calls[k] /\ row # None /\ row.status \in {"pending", "unknown"} /\ KindOf(k, asked) = "external",
           q # None => /\ Keyed(q, keys', calls', asked)
                       /\ q.parent # None => Keyed(q.parent, keys', calls', asked)
                       /\ AtWork(q) => Alone(s) /\ q.key = k
    PROVE  KeysOK'
<1>0. /\ DOMAIN req = Slots /\ DOMAIN keys = Keys /\ DOMAIN did = Keys /\ DOMAIN calls = Keys /\ DOMAIN told = Keys
      /\ k \in Keys
  BY SlotTyped DEF Typed, TypeOK, KeysOK
<1>1. DOMAIN told' = Keys
  BY DEF Only
<1>2. keys'[k] = row /\ did'[k] = n /\ calls'[k] = m /\ told'[k] = last
  BY DEF Only
<1>3. \A j \in Keys \ {k} : keys'[j] = keys[j] /\ did'[j] = did[j] /\ calls'[j] = calls[j] /\ told'[j] = told[j]
  BY DEF Only
<1>4. req'[s] = q /\ \A o \in Slots \ {s} : req'[o] = req[o]
  BY <1>0 DEF Holds
<1>5. k[1] <= Len(asked) /\ k[1] \in Int /\ Len(asked) \in Int
  BY <1>0, KeyParts DEF KeysOK, RequestOK, Keyed, Typed, TypeOK
<1>6. ASSUME NEW j \in Keys PROVE KeyOK(j)'
  <2>1. CASE j = k
    BY <1>2, <1>5, <2>1 DEF KeyOK
  <2>2. CASE j # k
    <3>1. KeyOK(j)
      BY DEF KeysOK
    <3> QED BY <1>3, <2>2, <3>1 DEF KeyOK
  <2> QED BY <2>1, <2>2
<1>7. ASSUME NEW o \in Slots \ {s}, NEW r, r.key \in Keys, Keyed(r, keys, calls, asked),
             AtWork(r) => r = req[o] /\ req[o] # None
      PROVE  Keyed(r, keys', calls', asked)
  <2>1. CASE r.key # k
    <3>1. keys'[r.key] = keys[r.key] /\ calls'[r.key] = calls[r.key]
      BY <1>3, <1>7, <2>1
    <3> QED BY <1>7, <3>1, KeyedStays
  <2>2. CASE r.key = k
    <3>1. keys[r.key] # None => keys'[r.key] # None
      BY <1>2, <2>2
    <3>2. ASSUME AtWork(r)
          PROVE  /\ calls'[r.key] = calls[r.key]
                 /\ \/ keys'[r.key] = keys[r.key]
                    \/ /\ keys'[r.key] # None /\ keys'[r.key].status \in {"pending", "unknown"}
                       /\ KindOf(r.key, asked) = "external"
      BY <1>2, <1>7, <2>2, <3>2 DEF Alone
    <3> QED BY <1>7, <3>1, <3>2, KeyedStays
  <2> QED BY <2>1, <2>2
<1>8. ASSUME NEW o \in Slots, req'[o] # None PROVE RequestOK(req[o])'
  <2>1. CASE o = s
    BY <1>4, <1>8, <2>1 DEF RequestOK
  <2>2. CASE o # s
    <3>1. req'[o] = req[o] /\ req[o] # None /\ RequestOK(req[o])
      BY <1>4, <1>8, <2>2 DEF KeysOK
    <3>2. /\ req[o].key \in Keys
          /\ req[o].parent # None => req[o].parent.key \in Keys /\ ~AtWork(req[o].parent)
      BY <3>1, SlotTyped DEF AtWork
    <3>3. Keyed(req[o], keys', calls', asked)
      BY <1>7, <2>2, <3>1, <3>2 DEF RequestOK
    <3>4. req[o].parent # None => Keyed(req[o].parent, keys', calls', asked)
      BY <1>7, <2>2, <3>1, <3>2 DEF RequestOK
    <3> QED BY <3>1, <3>3, <3>4 DEF RequestOK
  <2> QED BY <2>1, <2>2
<1>9. OneAtWork'
  <2>1. ASSUME NEW o \in Slots \ {s}, q # None, AtWork(q), req[o] # None, AtWork(req[o]) PROVE q.key # req[o].key
    BY <2>1 DEF Alone
  <2>2. ASSUME NEW o \in Slots, NEW p \in Slots, o # p, req'[o] # None, req'[p] # None,
               AtWork(req'[o]), AtWork(req'[p])
        PROVE  req'[o].key # req'[p].key
    <3>1. CASE o = s
      BY <1>4, <2>1, <2>2, <3>1
    <3>2. CASE p = s
      BY <1>4, <2>1, <2>2, <3>2
    <3>3. CASE o # s /\ p # s
      BY <1>4, <2>2, <3>3 DEF KeysOK, OneAtWork
    <3> QED BY <3>1, <3>2, <3>3
  <2> QED BY <2>2 DEF OneAtWork, AtWork
<1> QED BY <1>1, <1>6, <1>8, <1>9 DEF KeysOK

\* An answer, which may be lost: what is cached with it is the truth, or nothing is.
LEMMA Replies ==
    ASSUME Typed, KeysOK, NEW s \in Slots, req[s] # None, NEW k, k = req[s].key,
           NEW answer, Reply(s, answer), UNCHANGED <<asked, calls>>,
           NEW row, (row = keys[k] /\ keys' = keys) \/ (row # None /\ keys' = [keys EXCEPT ![k] = row]),
           NEW n, (n = did[k] /\ did' = did) \/ (n = did[k] + 1 /\ did' = [did EXCEPT ![k] = did[k] + 1]),
           Fits(KindOf(k, asked), row, n, calls[k], told[k]),
           Fits(KindOf(k, asked), row, n, calls[k], answer),
           \/ Alone(s) \/ row = keys[k]
           \/ row # None /\ row.status \in {"pending", "unknown"} /\ KindOf(k, asked) = "external"
    PROVE  KeysOK'
<1>0. DOMAIN keys = Keys /\ DOMAIN did = Keys /\ DOMAIN calls = Keys /\ DOMAIN told = Keys /\ k \in Keys
  BY SlotTyped DEF Typed, TypeOK, KeysOK
<1>1. Only(keys, keys', k, row)
  BY <1>0, OnlyIs
<1>2. Only(did, did', k, n)
  BY <1>0, OnlyIs
<1>3. Only(calls, calls', k, calls[k])
  BY <1>0, OnlyIs
<1>4. PICK last : Only(told, told', k, last) /\ last \in {told[k], answer}
  <2>1. told' = told \/ told' = [told EXCEPT ![k] = answer]
    BY DEF Reply
  <2>2. CASE told' = told
    BY <1>0, <2>2, OnlyIs
  <2>3. CASE told' = [told EXCEPT ![k] = answer]
    BY <1>0, <2>3, OnlyIs
  <2> QED BY <2>1, <2>2, <2>3
<1>5. PICK q : q = req[s].parent /\ Holds(s, q)
  BY DEF Reply, Holds
<1>6. keys[k] # None => row # None
  OBVIOUS
<1>7. ASSUME q # None PROVE /\ Keyed(q, keys', calls', asked) /\ q.parent = None /\ ~AtWork(q)
  <2>1. Keyed(q, keys, calls, asked)
    BY <1>5, <1>7 DEF KeysOK, RequestOK
  <2>2. q.parent = None /\ ~AtWork(q) /\ q.key \in Keys
    BY <1>5, <1>7, SlotTyped DEF AtWork
  <2>3. keys[q.key] # None => keys'[q.key] # None
    BY <1>1, <1>6, <2>2 DEF Only
  <2>4. Keyed(q, keys', calls', asked)
    BY <2>1, <2>2, <2>3, KeyedStays
  <2> QED BY <2>2, <2>4
<1>8. Fits(KindOf(k, asked), row, n, calls[k], last)
  BY <1>4
<1>9. asked' = asked
  OBVIOUS
<1>10. PICK m : m = calls[k]
  OBVIOUS
<1>11. Only(calls, calls', k, m) /\ Only(told, told', k, last) /\ Fits(KindOf(k, asked), row, n, m, last)
  BY <1>3, <1>4, <1>8, <1>10
<1>12. \/ Alone(s)
       \/ m = calls[k] /\ row = keys[k]
       \/ m = calls[k] /\ row # None /\ row.status \in {"pending", "unknown"} /\ KindOf(k, asked) = "external"
  BY <1>10
<1>13. q # None => /\ Keyed(q, keys', calls', asked)
                   /\ q.parent # None => Keyed(q.parent, keys', calls', asked)
                   /\ AtWork(q) => Alone(s) /\ q.key = k
  BY <1>7
<1>14. Holds(s, q)
  BY <1>5
<1> QED BY <1>1, <1>2, <1>6, <1>9, <1>11, <1>12, <1>13, <1>14, OneKey

\* The row that a request caches.
LEMMA CachedIs ==
    ASSUME NEW r, NEW status, NEW answer
    PROVE  LET row == Row(r, status, answer)
           IN /\ row.status = status /\ row.answer = answer /\ row.intent.cmd.do = r.cmd.do
              /\ Pending(r).status = "pending" /\ Pending(r).intent.cmd.do = r.cmd.do
BY DEF Row, Pending, Intent

LEMMA RowNotNone ==
    ASSUME Typed, NEW s \in Slots, req[s] # None,
           NEW status \in {"pending", "succeeded", "failed", "unknown"},
           NEW answer \in {None, "ok", "refused", "config_conflict", "unknown"}
    PROVE  Row(req[s], status, answer) # None /\ Pending(req[s]) # None
<1>1. Row(req[s], status, answer) \in Key /\ Pending(req[s]) \in Key
  BY RowSteps
<1> QED BY <1>1, NoneShopAssumption

\* A request at work: nobody else is, and its command has had no effect yet.
LEMMA WorkIs ==
    ASSUME Typed, KeysOK, NEW s \in Slots, req[s] # None, NEW k, k = req[s].key
    PROVE  /\ k \in Keys /\ Kind(req[s].cmd.do) = KindOf(k, asked)
           /\ Fits(KindOf(k, asked), keys[k], did[k], calls[k], told[k])
           /\ AtWork(req[s]) => Alone(s) /\ did[k] = 0 /\ told[k] \notin Truths
           /\ req[s].step = "open" => KindOf(k, asked) # "bulk"
           /\ req[s].step \in {"call", "answer"} => KindOf(k, asked) = "external"
           /\ req[s].step = "call" => calls[k] = 0
           /\ None \notin Truths
<1>1. k \in Keys /\ (req[s].step \in {"call", "answer"} => External(req[s].cmd))
  BY SlotTyped
<1>2. Keyed(req[s], keys, calls, asked)
  BY DEF KeysOK, RequestOK
<1>3. Fits(KindOf(k, asked), keys[k], did[k], calls[k], told[k])
  BY <1>1 DEF KeysOK, KeyOK
<1>4. req[s].step \in {"call", "answer"} => KindOf(k, asked) = "external"
  BY <1>1, <1>2 DEF Keyed, Kind, External
<1>5. None \notin Truths
  BY NoneShopAssumption DEF Truths
<1>6. AtWork(req[s]) => Alone(s)
  BY DEF KeysOK, OneAtWork, Alone
<1>7. ASSUME AtWork(req[s]) PROVE did[k] = 0 /\ told[k] \notin Truths
  <2>1. CASE keys[k] = None
    BY <1>3, <2>1 DEF Fits
  <2>2. CASE keys[k] # None
    <3>1. keys[k].status \in {"pending", "unknown"}
      BY <1>2, <1>7, <2>2 DEF Keyed
    <3> QED BY <1>3, <2>2, <3>1 DEF Fits, Truths
  <2> QED BY <2>1, <2>2
<1> QED BY <1>1, <1>2, <1>3, <1>4, <1>5, <1>6, <1>7 DEF Keyed

\* What a request at work caches is the first and last word on its command.
LEMMA LastWord ==
    ASSUME Typed, KeysOK, NEW s \in Slots, req[s] # None, NEW k, k = req[s].key, NEW row, row # None,
           AtWork(req[s]) \/ keys[k] = None \/ (keys[k] # None /\ keys[k].status = "pending"),
           row.intent.cmd.do = req[s].cmd.do, NEW n, NEW answer,
           \/ row.status = "succeeded" /\ row.answer = "ok" /\ n = 1 /\ answer = "ok" /\ KindOf(k, asked) # "bulk"
           \/ /\ row.status = "failed" /\ row.answer \in {"refused", "config_conflict"} /\ n = 0
              /\ answer = row.answer /\ KindOf(k, asked) # "bulk"
           \/ row.status = "unknown" /\ n = 0 /\ answer = "unknown" /\ KindOf(k, asked) = "external"
    PROVE  /\ Fits(KindOf(k, asked), row, n, calls[k], told[k])
           /\ Fits(KindOf(k, asked), row, n, calls[k], answer)
<1>1. /\ Kind(req[s].cmd.do) = KindOf(k, asked)
      /\ Fits(KindOf(k, asked), keys[k], did[k], calls[k], told[k])
      /\ told[k] \notin Truths
  <2>1. Fits(KindOf(k, asked), keys[k], did[k], calls[k], told[k]) /\ (AtWork(req[s]) => told[k] \notin Truths)
    BY WorkIs
  <2>2. keys[k] = None \/ (keys[k] # None /\ keys[k].status = "pending") => told[k] \notin Truths
    BY <2>1 DEF Fits, Truths
  <2> QED BY <2>1, <2>2, WorkIs
<1>2. calls[k] \in 0..1 /\ (KindOf(k, asked) # "external" => calls[k] = 0)
  BY <1>1 DEF Fits
<1>3. Kind(row.intent.cmd.do) = KindOf(k, asked)
  BY <1>1
<1> QED BY <1>1, <1>2, <1>3 DEF Fits, Truths

LEMMA AloneIf ==
    ASSUME Typed, KeysOK, NEW s \in Slots, req[s] # None, NEW k, k = req[s].key,
           \/ AtWork(req[s])
           \/ KindOf(k, asked) = "bulk"
           \/ KindOf(k, asked) = "external" /\ keys[k] = None
           \/ KindOf(k, asked) = "plain" /\ ~Busy(s)
    PROVE  Alone(s)
<1> SUFFICES ASSUME NEW o \in Slots \ {s}, req[o] # None, AtWork(req[o]), req[o].key = k PROVE FALSE
  BY DEF Alone
<1>1. /\ Kind(req[o].cmd.do) = KindOf(k, asked)
      /\ Alone(o)
      /\ req[o].step = "open" => KindOf(k, asked) # "bulk"
      /\ req[o].step \in {"call", "answer"} => KindOf(k, asked) = "external"
  BY WorkIs
<1>2. ~AtWork(req[s])
  BY <1>1 DEF Alone
<1>3. KindOf(k, asked) = "external" => keys[k] # None
  BY DEF KeysOK, RequestOK, Keyed
<1>4. KindOf(k, asked) = "plain" /\ ~Busy(s)
  BY <1>1, <1>2, <1>3 DEF AtWork
<1>5. req[o].step = "open" /\ ~External(req[o].cmd)
  BY <1>1, <1>4 DEF AtWork, Kind, External
<1> QED BY <1>4, <1>5 DEF Busy

\* An answer alone.
LEMMA AnswersOnly ==
    ASSUME Typed, KeysOK, NEW s \in Slots, req[s] # None, NEW answer, Reply(s, answer),
           UNCHANGED <<asked, calls, did, keys>>,
           \/ answer \notin Truths
           \/ keys[req[s].key] # None /\ keys[req[s].key].status \in {"succeeded", "failed"} /\ answer = keys[req[s].key].answer
    PROVE  KeysOK'
<1>1. PICK k : k = req[s].key
  OBVIOUS
<1>2. Fits(KindOf(k, asked), keys[k], did[k], calls[k], told[k])
  BY <1>1, WorkIs
<1>3. Fits(KindOf(k, asked), keys[k], did[k], calls[k], answer)
  <2>1. CASE answer \notin Truths
    BY <1>2, <2>1 DEF Fits, Truths
  <2>2. CASE keys[k] # None /\ keys[k].status \in {"succeeded", "failed"} /\ answer = keys[k].answer
    BY <1>2, <2>2 DEF Fits, Truths
  <2> QED BY <1>1, <2>1, <2>2
<1> QED BY <1>1, <1>2, <1>3, Replies

\* An answer with the row that is cached under its key.
LEMMA AnswersCached ==
    ASSUME Typed, KeysOK, NEW s \in Slots, req[s] # None, NEW k, k = req[s].key, UNCHANGED <<asked, calls>>,
           AtWork(req[s]) \/ keys[k] = None \/ (keys[k] # None /\ keys[k].status = "pending"),
           NEW status \in {"succeeded", "failed", "unknown"}, NEW answer \in {"ok", "refused", "config_conflict", "unknown"},
           Alone(s) \/ status = "unknown",
           Caches(s, status, answer), Reply(s, answer),
           \/ /\ status = "succeeded" /\ answer = "ok" /\ KindOf(k, asked) # "bulk"
              /\ AtWork(req[s]) /\ did' = [did EXCEPT ![k] = did[k] + 1]
           \/ status = "failed" /\ answer \in {"refused", "config_conflict"} /\ did' = did /\ KindOf(k, asked) # "bulk"
           \/ status = "unknown" /\ answer = "unknown" /\ did' = did /\ KindOf(k, asked) = "external"
    PROVE  KeysOK'
<1>1. PICK row : row = Row(req[s], status, answer)
  OBVIOUS
<1>2. row # None /\ keys' = [keys EXCEPT ![k] = row]
  BY <1>1, RowNotNone DEF Caches
<1>3. row.status = status /\ row.answer = answer /\ row.intent.cmd.do = req[s].cmd.do
  BY <1>1, CachedIs
<1>4. did[k] = 0
  <2>1. Fits(KindOf(k, asked), keys[k], did[k], calls[k], told[k]) /\ (AtWork(req[s]) => did[k] = 0)
    BY WorkIs
  <2> QED BY <2>1 DEF Fits
<1>5. CASE status = "succeeded" /\ answer = "ok"
  <2>1. KindOf(k, asked) # "bulk" /\ Alone(s) /\ did' = [did EXCEPT ![k] = did[k] + 1]
    BY <1>5
  <2>2. PICK n : n = did[k] + 1 /\ n = 1
    BY <1>4
  <2>3. /\ Fits(KindOf(k, asked), row, n, calls[k], told[k])
        /\ Fits(KindOf(k, asked), row, n, calls[k], answer)
    BY <1>2, <1>3, <1>5, <2>1, <2>2, LastWord
  <2> QED BY <1>2, <2>1, <2>2, <2>3, Replies
<1>6. CASE ~(status = "succeeded" /\ answer = "ok")
  <2>1. PICK n : n = did[k] /\ n = 0 /\ did' = did
    BY <1>4, <1>6
  <2>2. /\ Fits(KindOf(k, asked), row, n, calls[k], told[k])
        /\ Fits(KindOf(k, asked), row, n, calls[k], answer)
    BY <1>2, <1>3, <1>6, <2>1, LastWord
  <2>3. \/ Alone(s)
        \/ row # None /\ row.status \in {"pending", "unknown"} /\ KindOf(k, asked) = "external"
    BY <1>2, <1>3
  <2> QED BY <1>2, <2>1, <2>2, <2>3, Replies
<1> QED BY <1>5, <1>6

\* A request goes on with the work on its key.
LEMMA GoesOn ==
    ASSUME Typed, KeysOK, NEW s \in Slots, req[s] # None, NEW k, k = req[s].key, NEW q, Holds(s, q), Same(q, req[s]),
           UNCHANGED <<asked, did, told>>, NEW row, NEW m,
           (row = keys[k] /\ keys' = keys) \/ (row # None /\ keys' = [keys EXCEPT ![k] = row]),
           (m = calls[k] /\ calls' = calls) \/ calls' = [calls EXCEPT ![k] = m],
           Alone(s), Fits(KindOf(k, asked), row, did[k], m, told[k]),
           q.step = "open" => KindOf(k, asked) # "bulk",
           AtWork(q) => IF KindOf(k, asked) = "external" THEN row # None /\ row.status \in {"pending", "unknown"}
                        ELSE row = None,
           q.step = "call" => m = 0,
           q.step = "items" => row # None
    PROVE  KeysOK'
<1>0. DOMAIN keys = Keys /\ DOMAIN did = Keys /\ DOMAIN calls = Keys /\ DOMAIN told = Keys /\ k \in Keys
  BY SlotTyped DEF Typed, TypeOK, KeysOK
<1>1. Only(keys, keys', k, row) /\ Only(did, did', k, did[k])
  BY <1>0, OnlyIs
<1>2. Only(calls, calls', k, m) /\ Only(told, told', k, told[k])
  BY <1>0, OnlyIs
<1>3. PICK n : n = did[k]
  OBVIOUS
<1>4. PICK last : last = told[k]
  OBVIOUS
<1>5. q.key = k /\ q.cmd.do = req[s].cmd.do /\ q.parent = req[s].parent
  BY DEF Same
<1>6. Keyed(req[s], keys, calls, asked) /\ (req[s].parent # None => Keyed(req[s].parent, keys, calls, asked))
  BY DEF KeysOK, RequestOK
<1>7. keys'[k] = row /\ calls'[k] = m /\ \A j \in Keys : keys[j] # None => j = k \/ keys'[j] # None
  BY <1>1, <1>2 DEF Only
<1>8. Keyed(q, keys', calls', asked)
  <2>1. Kind(q.cmd.do) = KindOf(k, asked) /\ k[1] <= Len(asked)
    BY <1>5, <1>6 DEF Keyed
  <2> QED BY <1>5, <1>7, <2>1 DEF Keyed
<1>9. ASSUME q.parent # None PROVE Keyed(q.parent, keys', calls', asked)
  <2>1. /\ Keyed(q.parent, keys, calls, asked) /\ q.parent.key \in Keys /\ ~AtWork(q.parent)
    BY <1>5, <1>6, <1>9, SlotTyped DEF AtWork
  <2>2. keys[q.parent.key] # None => keys'[q.parent.key] # None
    BY <1>7, <2>1
  <2> QED BY <2>1, <2>2, KeyedStays
<1>10. Fits(KindOf(k, asked), row, n, m, last) /\ Only(did, did', k, n) /\ Only(told, told', k, last)
  BY <1>1, <1>2, <1>3, <1>4
<1>11. q # None => /\ Keyed(q, keys', calls', asked)
                   /\ q.parent # None => Keyed(q.parent, keys', calls', asked)
                   /\ AtWork(q) => Alone(s) /\ q.key = k
  BY <1>5, <1>8, <1>9
<1>12. keys[k] # None => row # None
  OBVIOUS
<1>13. asked' = asked
  OBVIOUS
<1> QED BY <1>1, <1>2, <1>10, <1>11, <1>12, <1>13, OneKey

\* The steps of a request keep the keys.
LEMMA TurnedAwayKeys ==
    ASSUME Typed, KeysOK, NEW s \in Slots, Deny(s) \/ Replay(s) \/ TurnAway(s) \/ Rollback(s) \/ FinishDenied(s)
    PROVE  KeysOK'
<1>0. req[s] # None /\ UNCHANGED <<asked, calls, did, keys>>
  BY DEF Deny, Replay, TurnAway, Rollback, FinishDenied, Claims, Opened, Answered
<1>1. ASSUME NEW x \in {"denied", "idempotency_conflict", "in_flight", "unknown", "error"}, Reply(s, x) PROVE KeysOK'
  BY <1>0, <1>1, AnswersOnly DEF Truths
<1>2. CASE Replay(s)
  <2>1. PICK x : x = keys[req[s].key].answer
    OBVIOUS
  <2>2. Reply(s, x) /\ Claim(req[s]) = "replay"
    BY <1>2, <2>1 DEF Replay, Claims
  <2>3. keys[req[s].key] # None /\ keys[req[s].key].status \in {"succeeded", "failed"}
    BY <2>2, ClaimIs
  <2> QED BY <1>0, <2>1, <2>2, <2>3, AnswersOnly
<1>3. CASE Deny(s) \/ TurnAway(s) \/ Rollback(s) \/ FinishDenied(s)
  <2>1. Reply(s, "denied") \/ Reply(s, "idempotency_conflict") \/ Reply(s, "in_flight") \/ Reply(s, "unknown")
        \/ Reply(s, "error")
    BY <1>3 DEF Deny, TurnAway, Rollback, FinishDenied
  <2> QED BY <1>1, <2>1
<1> QED BY <1>2, <1>3

LEMMA ExpireKeys == ASSUME Typed, KeysOK, NEW s \in Slots, Expire(s) PROVE KeysOK'
<1>1. /\ req[s] # None /\ Claim(req[s]) = "expired" /\ Caches(s, "unknown", "unknown") /\ Reply(s, "unknown")
      /\ UNCHANGED <<asked, did, calls>>
  BY DEF Expire, Claims
<1>2. PICK k : k = req[s].key
  OBVIOUS
<1>3. keys[k] # None /\ keys[k].status = "pending" /\ External(req[s].cmd)
  BY <1>1, <1>2, ClaimIs
<1>4. Kind(req[s].cmd.do) = KindOf(k, asked)
  BY <1>1, <1>2, WorkIs
<1>5. KindOf(k, asked) = "external"
  BY <1>3, <1>4 DEF Kind, External
<1> QED BY <1>1, <1>2, <1>3, <1>5, AnswersCached

LEMMA BeginKeys == ASSUME Typed, KeysOK, NEW s \in Slots, Begin(s) PROVE KeysOK'
<1>1. /\ req[s] # None /\ Claim(req[s]) = "claimed" /\ ~Busy(s) /\ Allowed(req[s]) /\ req[s].step = "sent"
      /\ ~External(req[s].cmd) /\ req[s].cmd.do # "bulk_topup_decisions"
      /\ UNCHANGED <<asked, did, calls>>
  BY DEF Begin, Claims
<1>2. PICK k : k = req[s].key
  OBVIOUS
<1>3. keys[k] = None
  BY <1>1, <1>2, ClaimedIs
<1>4. /\ Kind(req[s].cmd.do) = KindOf(k, asked)
      /\ Fits(KindOf(k, asked), keys[k], did[k], calls[k], told[k])
  BY <1>1, <1>2, WorkIs
<1>5. KindOf(k, asked) = "plain"
  BY <1>1, <1>4 DEF Kind, External
<1>6. Alone(s)
  BY <1>1, <1>2, <1>5, AloneIf
<1>7. CASE Caches(s, "failed", "refused") /\ Reply(s, "refused")
  BY <1>1, <1>2, <1>3, <1>5, <1>6, <1>7, AnswersCached
<1>8. CASE To(s, [req[s] EXCEPT !.step = "open", !.view = db]) /\ UNCHANGED keys
  <2>1. PICK q : Holds(s, q) /\ Opens(s, q)
    BY <1>1, <1>8, OpensIs
  <2>2. Same(q, req[s]) /\ q.step = "open" /\ told' = told
    BY <1>8, <2>1 DEF Opens, To
  <2>3. PICK row : row = keys[k]
    OBVIOUS
  <2>4. PICK m : m = calls[k]
    OBVIOUS
  <2>5. Fits(KindOf(k, asked), row, did[k], m, told[k])
    BY <1>4, <2>3, <2>4
  <2>6. AtWork(q) => IF KindOf(k, asked) = "external" THEN row # None /\ row.status \in {"pending", "unknown"}
                     ELSE row = None
    BY <1>3, <1>5, <2>3
  <2>7. KindOf(k, asked) # "bulk" /\ q.step # "call" /\ q.step # "items"
    BY <1>5, <2>2
  <2> QED BY <1>1, <1>2, <1>6, <1>8, <2>1, <2>2, <2>3, <2>4, <2>5, <2>6, <2>7, GoesOn
<1> QED BY <1>7, <1>8 DEF Begin

LEMMA CommitKeys == ASSUME Typed, KeysOK, NEW s \in Slots, Commit(s) PROVE KeysOK'
<1>1. /\ req[s] # None /\ req[s].step = "open" /\ UNCHANGED <<asked, calls>>
      /\ Caches(s, "succeeded", "ok") /\ Reply(s, "ok") /\ did' = [did EXCEPT ![req[s].key] = did[req[s].key] + 1]
  BY DEF Commit, Opened
<1>2. PICK k : k = req[s].key
  OBVIOUS
<1>3. AtWork(req[s]) /\ KindOf(k, asked) # "bulk"
  BY <1>1, <1>2, WorkIs DEF AtWork
<1>4. Alone(s)
  BY <1>1, <1>2, <1>3, AloneIf
<1> QED BY <1>1, <1>2, <1>3, <1>4, AnswersCached

LEMMA ConflictKeys == ASSUME Typed, KeysOK, NEW s \in Slots, Conflict(s) PROVE KeysOK'
<1>1. /\ req[s] # None /\ req[s].step = "open" /\ UNCHANGED <<asked, calls, did>>
      /\ Caches(s, "failed", "config_conflict") /\ Reply(s, "config_conflict")
  BY DEF Conflict, Opened
<1>2. PICK k : k = req[s].key
  OBVIOUS
<1>3. AtWork(req[s]) /\ KindOf(k, asked) # "bulk"
  BY <1>1, <1>2, WorkIs DEF AtWork
<1>4. Alone(s)
  BY <1>1, <1>2, <1>3, AloneIf
<1> QED BY <1>1, <1>2, <1>3, <1>4, AnswersCached

LEMMA BeginExternalKeys == ASSUME Typed, KeysOK, NEW s \in Slots, BeginExternal(s) PROVE KeysOK'
<1>1. /\ req[s] # None /\ Claim(req[s]) = "claimed" /\ External(req[s].cmd) /\ UNCHANGED <<asked, did, calls>>
  BY CallsIs
<1>2. PICK k : k = req[s].key
  OBVIOUS
<1>3. req[s].cmd.do # "bulk_topup_decisions"
  BY <1>1 DEF External, Channels, Orders
<1>4. keys[k] = None
  BY <1>1, <1>2, <1>3, ClaimedIs
<1>5. /\ Kind(req[s].cmd.do) = KindOf(k, asked)
      /\ Fits(KindOf(k, asked), keys[k], did[k], calls[k], told[k])
  BY <1>1, <1>2, WorkIs
<1>6. KindOf(k, asked) = "external"
  BY <1>1, <1>5 DEF Kind, External
<1>7. Alone(s)
  BY <1>1, <1>2, <1>4, <1>6, AloneIf
<1>8. ASSUME NEW why \in {"config_conflict", "refused"}, Caches(s, "failed", why), Reply(s, why) PROVE KeysOK'
  BY <1>1, <1>2, <1>4, <1>6, <1>7, <1>8, AnswersCached
<1>9. ASSUME keys' = [keys EXCEPT ![k] = Pending(req[s])], told' = told, NEW q, Holds(s, q), Same(q, req[s]), q.step = "call"
      PROVE  KeysOK'
  <2>1. PICK row : row = Pending(req[s])
    OBVIOUS
  <2>2. row # None /\ row.status = "pending" /\ row.intent.cmd.do = req[s].cmd.do
    BY <1>1, <2>1, RowNotNone, CachedIs
  <2>3. PICK m : m = calls[k]
    OBVIOUS
  <2>4. m = 0 /\ did[k] = 0 /\ told[k] \notin Truths
    BY <1>4, <1>5, <2>3 DEF Fits
  <2>5. Fits(KindOf(k, asked), row, did[k], m, told[k])
    BY <1>5, <1>6, <2>2, <2>4 DEF Fits, Truths
  <2>6. AtWork(q) => IF KindOf(k, asked) = "external" THEN row # None /\ row.status \in {"pending", "unknown"}
                     ELSE row = None
    BY <1>6, <2>2
  <2>7. keys' = [keys EXCEPT ![k] = row] /\ calls' = calls /\ q.step # "open" /\ q.step # "items"
    BY <1>1, <1>9, <2>1
  <2> QED BY <1>1, <1>2, <1>7, <1>9, <2>2, <2>3, <2>4, <2>5, <2>6, <2>7, GoesOn
<1>10. \/ \E why \in {"config_conflict", "refused"} : Caches(s, "failed", why) /\ Reply(s, why)
       \/ /\ keys' = [keys EXCEPT ![k] = Pending(req[s])] /\ told' = told
          /\ \E q : Holds(s, q) /\ Same(q, req[s]) /\ q.step = "call"
  BY <1>2, CallsIs
<1> QED BY <1>8, <1>9, <1>10

LEMMA CallingKeys == ASSUME Typed, KeysOK, NEW s \in Slots, NEW answer, Calling(s, answer) PROVE KeysOK'
<1>1. /\ req[s] # None /\ req[s].step = "call" /\ UNCHANGED <<keys, asked, did, told>>
      /\ calls' = [calls EXCEPT ![req[s].key] = calls[req[s].key] + 1]
  BY AnswersIs
<1>2. PICK q : Holds(s, q) /\ Same(q, req[s]) /\ q.step = "answer"
  BY AnswersIs
<1>3. PICK k : k = req[s].key
  OBVIOUS
<1>4. AtWork(req[s])
  BY <1>1 DEF AtWork
<1>5. /\ Fits(KindOf(k, asked), keys[k], did[k], calls[k], told[k])
      /\ KindOf(k, asked) = "external" /\ calls[k] = 0
  BY <1>1, <1>3, WorkIs
<1>6. Alone(s)
  BY <1>1, <1>3, <1>4, AloneIf
<1>7. PICK row : row = keys[k]
  OBVIOUS
<1>8. PICK m : m = calls[k] + 1 /\ m = 1
  BY <1>5
<1>9. row # None /\ row.status \in {"pending", "unknown"}
  BY <1>1, <1>3, <1>4, <1>5, <1>7 DEF KeysOK, RequestOK, Keyed
<1>10. Fits(KindOf(k, asked), row, did[k], m, told[k])
  BY <1>5, <1>7, <1>8, <1>9 DEF Fits
<1>11. calls' = [calls EXCEPT ![k] = m] /\ q.step # "open" /\ q.step # "call" /\ q.step # "items"
  BY <1>1, <1>2, <1>3, <1>8
<1> QED BY <1>1, <1>2, <1>3, <1>5, <1>6, <1>7, <1>9, <1>10, <1>11, GoesOn

LEMMA FinishKeys ==
    ASSUME Typed, KeysOK, NEW s \in Slots, FinishOrder(s) \/ FinishUnknown(s) \/ FinishFailed(s)
    PROVE  KeysOK'
<1>1. req[s] # None /\ req[s].step = "answer" /\ UNCHANGED <<asked, calls>>
  BY DEF FinishOrder, FinishUnknown, FinishFailed, Unsettled, Answered
<1>2. PICK k : k = req[s].key
  OBVIOUS
<1>3. AtWork(req[s]) /\ KindOf(k, asked) = "external"
  BY <1>1, <1>2, WorkIs DEF AtWork
<1>4. Alone(s)
  BY <1>1, <1>2, <1>3, AloneIf
<1>5. CASE Caches(s, "succeeded", "ok") /\ Reply(s, "ok") /\ did' = [did EXCEPT ![k] = did[k] + 1]
  BY <1>1, <1>2, <1>3, <1>4, <1>5, AnswersCached
<1>6. CASE Caches(s, "unknown", "unknown") /\ Reply(s, "unknown") /\ did' = did
  BY <1>1, <1>2, <1>3, <1>4, <1>6, AnswersCached
<1>7. ASSUME NEW why \in {"config_conflict", "refused"}, Caches(s, "failed", why), Reply(s, why), did' = did PROVE KeysOK'
  BY <1>1, <1>2, <1>3, <1>4, <1>7, AnswersCached
<1>8. CASE FinishOrder(s)
  BY <1>2, <1>5, <1>6, <1>7, <1>8 DEF FinishOrder
<1>9. CASE FinishUnknown(s)
  BY <1>6, <1>9 DEF FinishUnknown
<1>10. CASE FinishFailed(s)
  BY <1>7, <1>10 DEF FinishFailed
<1> QED BY <1>8, <1>9, <1>10

LEMMA FinishChannelKeys == ASSUME Typed, KeysOK, NEW s \in Slots, FinishChannel(s) PROVE KeysOK'
<1>1. /\ req[s] # None /\ req[s].step = "answer" /\ Allowed(req[s]) /\ UNCHANGED <<asked, calls, did, keys>>
      /\ To(s, [req[s] EXCEPT !.step = "open", !.view = db])
  BY DEF FinishChannel, Unsettled, Answered
<1>2. PICK k : k = req[s].key
  OBVIOUS
<1>3. /\ AtWork(req[s]) /\ KindOf(k, asked) = "external"
      /\ Fits(KindOf(k, asked), keys[k], did[k], calls[k], told[k])
  BY <1>1, <1>2, WorkIs DEF AtWork
<1>4. Alone(s)
  BY <1>1, <1>2, <1>3, AloneIf
<1>5. PICK q : Holds(s, q) /\ Opens(s, q)
  BY <1>1, OpensIs
<1>6. Same(q, req[s]) /\ q.step = "open" /\ told' = told
  BY <1>1, <1>5 DEF Opens, To
<1>7. PICK row : row = keys[k]
  OBVIOUS
<1>8. PICK m : m = calls[k]
  OBVIOUS
<1>9. row # None /\ row.status \in {"pending", "unknown"}
  BY <1>1, <1>2, <1>3, <1>7 DEF KeysOK, RequestOK, Keyed
<1>10. Fits(KindOf(k, asked), row, did[k], m, told[k]) /\ q.step # "call" /\ q.step # "items"
  BY <1>3, <1>6, <1>7, <1>8
<1> QED BY <1>1, <1>2, <1>3, <1>4, <1>5, <1>6, <1>7, <1>8, <1>9, <1>10, GoesOn

LEMMA BulkKeys == ASSUME Typed, KeysOK, NEW s \in Slots, BeginBulk(s) PROVE KeysOK'
<1>1. /\ req[s] # None /\ req[s].cmd.do = "bulk_topup_decisions"
      /\ Claim(req[s]) = "claimed" /\ UNCHANGED <<asked, did, calls, told>>
      /\ keys' = [keys EXCEPT ![req[s].key] = Pending(req[s])]
  BY BulkIs
<1>2. PICK q : Holds(s, q) /\ Same(q, req[s]) /\ q.step = "items"
  BY BulkIs
<1>3. PICK k : k = req[s].key
  OBVIOUS
<1>4. /\ Kind(req[s].cmd.do) = KindOf(k, asked)
      /\ Fits(KindOf(k, asked), keys[k], did[k], calls[k], told[k])
  BY <1>1, <1>3, WorkIs
<1>5. KindOf(k, asked) = "bulk"
  BY <1>1, <1>4 DEF Kind, Channels, Orders
<1>6. Alone(s)
  BY <1>1, <1>3, <1>5, AloneIf
<1>7. PICK row : row = Pending(req[s])
  OBVIOUS
<1>8. row # None /\ row.status = "pending" /\ row.intent.cmd.do = req[s].cmd.do
  BY <1>1, <1>7, RowNotNone, CachedIs
<1>9. PICK m : m = calls[k]
  OBVIOUS
<1>10. keys[k] = None \/ (keys[k] # None /\ keys[k].status \notin {"succeeded", "failed", "unknown"})
  BY <1>1, <1>3, ClaimIs
<1>11. Fits(KindOf(k, asked), row, did[k], m, told[k])
  BY <1>4, <1>5, <1>8, <1>9, <1>10 DEF Fits, Truths
<1>12. ~AtWork(q) /\ q.step # "open" /\ q.step # "call" /\ calls' = calls /\ keys' = [keys EXCEPT ![k] = row]
  BY <1>1, <1>2, <1>3, <1>7 DEF AtWork
<1> QED BY <1>1, <1>2, <1>3, <1>6, <1>8, <1>9, <1>11, <1>12, GoesOn

LEMMA EndItemsKeys == ASSUME Typed, KeysOK, NEW s \in Slots, EndItems(s) PROVE KeysOK'
<1>1. /\ req[s] # None /\ req[s].step = "items" /\ Caches(s, "succeeded", "ok") /\ Reply(s, "ok")
      /\ UNCHANGED <<asked, did, calls>>
  BY DEF EndItems
<1>2. PICK k : k = req[s].key
  OBVIOUS
<1>3. /\ Kind(req[s].cmd.do) = KindOf(k, asked)
      /\ Fits(KindOf(k, asked), keys[k], did[k], calls[k], told[k])
  BY <1>1, <1>2, WorkIs
<1>4. req[s].cmd.do = "bulk_topup_decisions"
  BY <1>1, SlotIs DEF Good, Wellformed
<1>5. KindOf(k, asked) = "bulk"
  BY <1>3, <1>4 DEF Kind, Channels, Orders
<1>6. Alone(s)
  BY <1>1, <1>2, <1>5, AloneIf
<1>7. PICK row : row = Row(req[s], "succeeded", "ok")
  OBVIOUS
<1>8. row # None /\ keys' = [keys EXCEPT ![k] = row]
  BY <1>1, <1>2, <1>7, RowNotNone DEF Caches
<1>9. row.status = "succeeded" /\ row.answer = "ok" /\ row.intent.cmd.do = req[s].cmd.do
  BY <1>7, CachedIs
<1>10. PICK n : n = did[k]
  OBVIOUS
<1>11. told[k] \notin {"refused", "config_conflict"}
  BY <1>3, <1>5 DEF Fits, Truths
<1>12. Fits(KindOf(k, asked), row, n, calls[k], told[k]) /\ Fits(KindOf(k, asked), row, n, calls[k], "ok")
  BY <1>3, <1>5, <1>8, <1>9, <1>10, <1>11 DEF Fits, Truths
<1> QED BY <1>1, <1>2, <1>6, <1>8, <1>10, <1>12, Replies

LEMMA NextItemKeys == ASSUME Typed, KeysOK, NEW s \in Slots, NextItem(s) PROVE KeysOK'
<1>1. req[s] # None /\ req[s].step = "items" /\ UNCHANGED <<keys, asked, did, calls, told>>
  BY ItemIs
<1>2. PICK q : \E t \in Topups :
                /\ Holds(s, q) /\ q.key = <<req[s].key[1], t>> /\ q.cmd.do = "set_topup_decision" /\ q.step = "sent"
                /\ q.parent # None /\ Same(q.parent, req[s]) /\ q.parent.step = "items"
  BY ItemIs
<1>3. PICK t \in Topups :
                /\ Holds(s, q) /\ q.key = <<req[s].key[1], t>> /\ q.cmd.do = "set_topup_decision" /\ q.step = "sent"
                /\ q.parent # None /\ Same(q.parent, req[s]) /\ q.parent.step = "items"
  BY <1>2
<1>4. PICK k : k = req[s].key
  OBVIOUS
<1>5. Keyed(req[s], keys, calls, asked) /\ Fits(KindOf(k, asked), keys[k], did[k], calls[k], told[k])
  BY <1>1, <1>4, WorkIs DEF KeysOK, RequestOK
<1>6. /\ Kind(req[s].cmd.do) = KindOf(k, asked) /\ k[1] <= Len(asked) /\ keys[k] # None
  BY <1>1, <1>4, <1>5 DEF Keyed
<1>7. Keyed(q.parent, keys', calls', asked)
  BY <1>1, <1>3, <1>4, <1>6 DEF Keyed, Same, AtWork
<1>8. KindOf(q.key, asked) = "plain" /\ Kind(q.cmd.do) = "plain" /\ q.key[1] = k[1]
  <2>1. t # 0
    BY IdsAssumption
  <2> QED BY <1>3, <1>4, <2>1 DEF KindOf, Kind, Channels, Orders
<1>9. Keyed(q, keys', calls', asked)
  BY <1>3, <1>6, <1>8 DEF Keyed, AtWork
<1>10. PICK row : row = keys[k]
  OBVIOUS
<1>11. PICK n : n = did[k]
  OBVIOUS
<1>12. PICK m : m = calls[k]
  OBVIOUS
<1>13. PICK last : last = told[k]
  OBVIOUS
<1>14. DOMAIN keys = Keys /\ DOMAIN did = Keys /\ DOMAIN calls = Keys /\ DOMAIN told = Keys /\ k \in Keys
  BY <1>1, <1>4, SlotTyped DEF Typed, TypeOK, KeysOK
<1>15. Only(keys, keys', k, row) /\ Only(did, did', k, n) /\ Only(calls, calls', k, m) /\ Only(told, told', k, last)
  BY <1>1, <1>10, <1>11, <1>12, <1>13, <1>14, OnlyIs
<1>16. Fits(KindOf(k, asked), row, n, m, last)
  BY <1>5, <1>10, <1>11, <1>12, <1>13
<1>17. q # None => /\ Keyed(q, keys', calls', asked)
                   /\ q.parent # None => Keyed(q.parent, keys', calls', asked)
                   /\ AtWork(q) => Alone(s) /\ q.key = k
  BY <1>3, <1>7, <1>9 DEF AtWork
<1>18. Holds(s, q) /\ asked' = asked /\ (keys[k] # None => row # None) /\ m = calls[k] /\ row = keys[k]
  BY <1>1, <1>3, <1>10, <1>12
<1> QED BY <1>1, <1>4, <1>15, <1>16, <1>17, <1>18, OneKey

LEMMA CrashKeys == ASSUME Typed, KeysOK, NEW s \in Slots, Crash(s) PROVE KeysOK'
<1>1. req[s] # None /\ Holds(s, None) /\ UNCHANGED <<keys, asked, did, calls, told>>
  BY DEF Crash, Holds, history
<1>2. DOMAIN req = Slots
  BY DEF Typed, TypeOK
<1>3. \A o \in Slots : req'[o] = None \/ req'[o] = req[o]
  BY <1>1, <1>2 DEF Holds
<1>4. \A k \in Keys : KeyOK(k)'
  BY <1>1 DEF KeysOK, KeyOK
<1>5. ASSUME NEW o \in Slots, req'[o] # None PROVE RequestOK(req[o])'
  BY <1>1, <1>3, <1>5 DEF KeysOK, RequestOK
<1>6. OneAtWork'
  BY <1>3 DEF KeysOK, OneAtWork
<1> QED BY <1>1, <1>4, <1>5, <1>6 DEF KeysOK

\* What a key was sent with first stays.
LEMMA KindStays ==
    ASSUME Typed, asked' = asked \/ \E x : asked' = Append(asked, x), NEW k, k[1] <= Len(asked), k[1] \in Int
    PROVE  KindOf(k, asked') = KindOf(k, asked) /\ k[1] <= Len(asked')
<1>0. asked \in Seq(Asked)
  BY DEF Typed, TypeOK
<1>1. CASE asked' = asked
  BY <1>1
<1>2. ASSUME NEW x, asked' = Append(asked, x)
      PROVE  KindOf(k, asked') = KindOf(k, asked) /\ k[1] <= Len(asked')
  <2>1. Len(asked') = Len(asked) + 1 /\ DOMAIN asked' = 1..(Len(asked) + 1) /\ DOMAIN asked = 1..Len(asked) /\ Len(asked) \in Nat
    BY <1>0, <1>2
  <2>2. \A i \in 1..Len(asked) : asked'[i] = asked[i]
    BY <1>0, <1>2
  <2>3. k[1] \in DOMAIN asked' <=> k[1] \in DOMAIN asked
    BY <2>1
  <2> QED BY <2>1, <2>2, <2>3 DEF KindOf
<1> QED BY <1>1, <1>2

\* A request that is sent, or sent again.
LEMMA SendKeys ==
    ASSUME Typed, KeysOK, NEW s \in Slots, req[s] = None, UNCHANGED <<keys, told, did, calls>>,
           NEW q, Holds(s, q), q.step = "sent", q.parent = None,
           asked' = asked \/ \E x : asked' = Append(asked, x),
           Kind(q.cmd.do) = KindOf(q.key, asked'), q.key[1] <= Len(asked')
    PROVE  KeysOK'
<1>0. DOMAIN req = Slots /\ asked \in Seq(Asked) /\ Len(asked) \in Nat
  BY DEF Typed, TypeOK
<1>1. req'[s] = q /\ \A o \in Slots \ {s} : req'[o] = req[o]
  BY <1>0 DEF Holds
<1>2. ASSUME NEW k \in Keys PROVE KeyOK(k)'
  <2>1. KeyOK(k) /\ k[1] \in Int
    BY KeyParts DEF KeysOK
  <2>2. CASE k[1] <= Len(asked)
    <3>1. KindOf(k, asked') = KindOf(k, asked) /\ k[1] <= Len(asked')
      BY <2>1, <2>2, KindStays
    <3>2. Len(asked') \in Nat
      BY <1>0
    <3> QED BY <2>1, <3>1, <3>2 DEF KeyOK
  <2>3. CASE k[1] > Len(asked)
    <3>1. keys[k] = None /\ did[k] = 0 /\ calls[k] = 0 /\ told[k] \notin Truths
      BY <2>1, <2>3 DEF KeyOK, Fits
    <3> QED BY <3>1 DEF KeyOK, Fits
  <2> QED BY <1>0, <2>1, <2>2, <2>3
<1>3. ASSUME NEW r, r.key \in Keys, Keyed(r, keys, calls, asked) PROVE Keyed(r, keys', calls', asked')
  <2>1. r.key[1] \in Int /\ r.key[1] <= Len(asked)
    BY <1>3, KeyParts DEF Keyed
  <2>2. PICK k : k = r.key
    OBVIOUS
  <2>3. KindOf(k, asked') = KindOf(k, asked) /\ k[1] <= Len(asked')
    BY <2>1, <2>2, KindStays
  <2> QED BY <1>3, <2>2, <2>3 DEF Keyed
<1>4. ASSUME NEW o \in Slots, req'[o] # None PROVE RequestOK(req[o])'
  <2>1. CASE o = s
    <3>1. Keyed(q, keys', calls', asked')
      BY DEF Keyed, AtWork
    <3> QED BY <1>1, <2>1, <3>1 DEF RequestOK
  <2>2. CASE o # s
    <3>1. req'[o] = req[o] /\ req[o] # None /\ RequestOK(req[o])
      BY <1>1, <1>4, <2>2 DEF KeysOK
    <3>2. req[o].key \in Keys /\ (req[o].parent # None => req[o].parent.key \in Keys)
      BY <3>1, SlotTyped
    <3> QED BY <1>3, <3>1, <3>2 DEF RequestOK
  <2> QED BY <2>1, <2>2
<1>5. OneAtWork'
  <2>1. ~AtWork(q)
    BY DEF AtWork
  <2>2. \A o \in Slots : req'[o] # None /\ AtWork(req'[o]) => o # s /\ req'[o] = req[o]
    BY <1>1, <2>1
  <2> QED BY <2>2 DEF KeysOK, OneAtWork, AtWork
<1>6. DOMAIN told' = Keys
  BY DEF KeysOK
<1> QED BY <1>2, <1>4, <1>5, <1>6 DEF KeysOK

LEMMA SentKeys ==
    ASSUME Typed, KeysOK, NEW s \in Slots, \/ Ask(s) \/ Again(s) \/ TrialSweep(s) \/ BelowPlan(s) \/ BelowClose(s)
    PROVE  KeysOK'
<1>0. asked \in Seq(Asked) /\ Len(asked) \in Nat /\ DOMAIN asked = 1..Len(asked)
  BY DEF Typed, TypeOK
<1>1. CASE Ask(s)
  <2>0. PICK cmd \in Command :
           \E q, x : /\ Holds(s, q) /\ Fresh(q, <<Len(asked) + 1, 0>>, cmd) /\ Known(q.seen)
                     /\ asked' = Append(asked, x) /\ x.cmd = cmd /\ x.seen = q.seen
    BY <1>1, AskIs
  <2>1. PICK q, x : /\ Holds(s, q) /\ Fresh(q, <<Len(asked) + 1, 0>>, cmd) /\ Known(q.seen)
                    /\ asked' = Append(asked, x) /\ x.cmd = cmd /\ x.seen = q.seen
    BY <2>0
  <2>2. req[s] = None /\ UNCHANGED <<keys, told, did, calls>>
    BY <1>1, AskIs
  <2>3. Len(asked') = Len(asked) + 1 /\ DOMAIN asked' = 1..(Len(asked) + 1) /\ asked'[Len(asked) + 1] = x
    BY <1>0, <2>1
  <2>4. KindOf(<<Len(asked) + 1, 0>>, asked') = Kind(cmd.do)
    BY <1>0, <2>1, <2>3 DEF KindOf
  <2>5. q.step = "sent" /\ q.parent = None /\ Kind(q.cmd.do) = KindOf(q.key, asked') /\ q.key[1] <= Len(asked')
    BY <1>0, <2>1, <2>3, <2>4 DEF Fresh
  <2> QED BY <2>1, <2>2, <2>5, SendKeys
<1>2. CASE Again(s)
  <2>1. PICK i \in DOMAIN asked : \E q : Holds(s, q) /\ Fresh(q, <<i, 0>>, asked[i].cmd) /\ Known(q.seen)
    BY <1>2, AgainIs
  <2>2. PICK q : Holds(s, q) /\ Fresh(q, <<i, 0>>, asked[i].cmd)
    BY <2>1
  <2>3. req[s] = None /\ UNCHANGED <<keys, asked, told, did, calls>>
    BY <1>2, AgainIs
  <2>4. KindOf(<<i, 0>>, asked) = Kind(asked[i].cmd.do)
    BY DEF KindOf
  <2>5. q.step = "sent" /\ q.parent = None /\ Kind(q.cmd.do) = KindOf(q.key, asked') /\ q.key[1] <= Len(asked')
    BY <1>0, <2>2, <2>3, <2>4 DEF Fresh
  <2> QED BY <2>2, <2>3, <2>5, SendKeys
<1>3. CASE TrialSweep(s) \/ BelowPlan(s) \/ BelowClose(s)
  <2>1. PICK key \in SweepKeys : \E cmd, q :
                /\ Holds(s, q) /\ Fresh(q, key, cmd)
                /\ cmd.do \in {"reset_free_trials", "set_plan_enabled", "update_shop_state"}
    BY <1>3, SweepIs
  <2>2. PICK cmd, q :
                /\ Holds(s, q) /\ Fresh(q, key, cmd)
                /\ cmd.do \in {"reset_free_trials", "set_plan_enabled", "update_shop_state"}
    BY <2>1
  <2>3. req[s] = None /\ UNCHANGED <<keys, asked, told, did, calls>>
    BY <1>3, SweepIs
  <2>4. key[1] \in {0, -1}
    BY DEF SweepKeys, TrialKey, ClosingKey, SweepKey
  <2>5. KindOf(key, asked) = "plain" /\ key[1] <= Len(asked)
    BY <1>0, <2>4 DEF KindOf
  <2>6. Kind(cmd.do) = "plain"
    BY <2>2 DEF Kind, Channels, Orders
  <2>7. q.step = "sent" /\ q.parent = None /\ Kind(q.cmd.do) = KindOf(q.key, asked') /\ q.key[1] <= Len(asked')
    BY <2>2, <2>3, <2>5, <2>6 DEF Fresh
  <2> QED BY <2>2, <2>3, <2>7, SendKeys
<1> QED BY <1>1, <1>2, <1>3

\* A row whose lease is over, or which is reaped.
LEMMA RowKeys == ASSUME Typed, KeysOK, NEW k \in Keys, LeaseOver(k) \/ Reap(k) PROVE KeysOK'
<1>1. keys \in [Keys -> Key \cup {None}] /\ keys[k] # None /\ UNCHANGED <<req, asked, did, calls, told>>
  BY DEF LeaseOver, Reap, Typed, TypeOK, history
<1>2. keys[k] \in Key /\ KeyOK(k)
  BY <1>1 DEF KeysOK
<1>3. PICK row : /\ keys' = [keys EXCEPT ![k] = row] /\ row \in Key /\ row.intent = keys[k].intent
                 /\ \/ row.status = keys[k].status /\ row.answer = keys[k].answer
                    \/ /\ row.status = "unknown" /\ keys[k].status = "pending" /\ KindOf(k, asked) = "external"
  <2>1. CASE LeaseOver(k)
    <3> DEFINE row == [keys[k] EXCEPT !.lease = FALSE]
    <3>1. keys' = [keys EXCEPT ![k] = row]
      BY <1>1, <2>1 DEF LeaseOver
    <3>2. row \in Key /\ row.intent = keys[k].intent /\ row.status = keys[k].status /\ row.answer = keys[k].answer
      BY <1>2 DEF Key
    <3> QED BY <3>1, <3>2
  <2>2. CASE Reap(k)
    <3> DEFINE late == [keys[k] EXCEPT !.status = "unknown"]
               row == [late EXCEPT !.answer = "unknown"]
    <3>1. keys' = [keys EXCEPT ![k] = row]
      BY <1>1, <1>2, <2>2 DEF Reap, Key
    <3>2. row \in Key /\ row.intent = keys[k].intent /\ row.status = "unknown"
      BY <1>2 DEF Key
    <3>3. keys[k].status = "pending" /\ KindOf(k, asked) = "external"
      BY <1>1, <1>2, <2>2 DEF Reap, KeyOK, Fits, Kind, External
    <3> QED BY <3>1, <3>2, <3>3
  <2> QED BY <2>1, <2>2
<1>4. row # None
  BY <1>3, NoneShopAssumption
<1>5. keys'[k] = row /\ \A j \in Keys \ {k} : keys'[j] = keys[j]
  BY <1>1, <1>3
<1>6. Fits(KindOf(k, asked), row, did[k], calls[k], told[k])
  BY <1>1, <1>2, <1>3, <1>4 DEF KeyOK, Fits
<1>7. ASSUME NEW j \in Keys PROVE KeyOK(j)'
  <2>1. CASE j = k
    BY <1>1, <1>2, <1>5, <1>6, <2>1 DEF KeyOK
  <2>2. CASE j # k
    BY <1>1, <1>5, <2>2 DEF KeysOK, KeyOK
  <2> QED BY <2>1, <2>2
<1>8. ASSUME NEW r, r.key \in Keys, Keyed(r, keys, calls, asked) PROVE Keyed(r, keys', calls', asked)
  <2>1. CASE r.key # k
    BY <1>1, <1>5, <1>8, <2>1, KeyedStays
  <2>2. CASE r.key = k
    <3>1. KindOf(k, asked) # "external" => ~AtWork(r)
      BY <1>1, <1>8, <2>2 DEF Keyed
    <3>2. KindOf(k, asked) = "external" /\ AtWork(r) => row.status \in {"pending", "unknown"}
      BY <1>3, <1>8, <2>2 DEF Keyed
    <3> QED BY <1>1, <1>4, <1>5, <1>8, <2>2, <3>1, <3>2, KeyedStays
  <2> QED BY <2>1, <2>2
<1>9. ASSUME NEW o \in Slots, req'[o] # None PROVE RequestOK(req[o])'
  <2>1. req'[o] = req[o] /\ req[o] # None /\ RequestOK(req[o])
    BY <1>1, <1>9 DEF KeysOK
  <2>2. req[o].key \in Keys /\ (req[o].parent # None => req[o].parent.key \in Keys)
    BY <2>1, SlotTyped
  <2>3. Keyed(req[o], keys', calls', asked) /\ (req[o].parent # None => Keyed(req[o].parent, keys', calls', asked))
    BY <1>8, <2>1, <2>2 DEF RequestOK
  <2> QED BY <1>1, <2>1, <2>3 DEF RequestOK
<1>10. OneAtWork' /\ DOMAIN told' = Keys
  BY <1>1 DEF KeysOK, OneAtWork
<1> QED BY <1>7, <1>9, <1>10 DEF KeysOK

LEMMA SameKeys ==
    ASSUME KeysOK, UNCHANGED <<keys, req, asked, did, calls, told>>
    PROVE  KeysOK'
BY DEF KeysOK, KeyOK, RequestOK, OneAtWork

LEMMA KeysKept == ASSUME Typed, KeysOK, Next PROVE KeysOK'
<1>1. ASSUME BelowScan \/ BelowCheck \/ BelowStops \/ CostMoves \/ ReplaceToken PROVE KeysOK'
  <2>1. UNCHANGED <<keys, req, asked, did, calls, told>>
    BY <1>1 DEF BelowScan, BelowCheck, BelowStops, CostMoves, ReplaceToken, history
  <2> QED BY <2>1, SameKeys
<1>2. ASSUME NEW s \in Slots, CheckChannel(s) \/ ChangeOrder(s) PROVE KeysOK'
  <2>1. PICK answer : Calling(s, answer)
    BY <1>2, Zenon DEF CheckChannel, ChangeOrder
  <2> QED BY <2>1, CallingKeys
<1> QED
  BY <1>1, <1>2, SentKeys, TurnedAwayKeys, ExpireKeys, BeginKeys, CommitKeys, ConflictKeys, BeginExternalKeys,
     FinishKeys, FinishChannelKeys, BulkKeys, NextItemKeys, EndItemsKeys, CrashKeys, RowKeys, Zenon DEF Next

LEMMA KeysAtFirst == Init => KeysOK
<1> SUFFICES ASSUME Init PROVE KeysOK
  OBVIOUS
<1>1. /\ keys = [k \in Keys |-> None] /\ told = [k \in Keys |-> None]
      /\ did = [k \in Keys |-> 0] /\ calls = [k \in Keys |-> 0] /\ req = [s \in Slots |-> None] /\ asked = <<>>
  BY DEF Init
<1>2. None \notin Truths
  BY NoneShopAssumption DEF Truths
<1>3. ASSUME NEW k \in Keys PROVE KeyOK(k)
  BY <1>1, <1>2, <1>3 DEF KeyOK, Fits
<1>4. DOMAIN told = Keys /\ \A s \in Slots : req[s] = None
  BY <1>1
<1> QED BY <1>3, <1>4 DEF KeysOK, OneAtWork

LEMMA KeysAreOnce == KeysOK => OncePerKey
<1> SUFFICES ASSUME KeysOK, NEW k \in Keys
             PROVE  /\ did[k] <= 1 /\ calls[k] <= 1
                    /\ told[k] = "ok" => did[k] = 1 \/ keys[k].intent.cmd.do = "bulk_topup_decisions"
                    /\ told[k] \in {"refused", "config_conflict"} => did[k] = 0
  BY DEF OncePerKey
<1>1. Fits(KindOf(k, asked), keys[k], did[k], calls[k], told[k])
  BY DEF KeysOK, KeyOK
<1>2. told[k] \in Truths => keys[k] # None
  BY <1>1 DEF Fits
<1>3. Kind(keys[k].intent.cmd.do) = "bulk" => keys[k].intent.cmd.do = "bulk_topup_decisions"
  BY DEF Kind
<1> QED BY <1>1, <1>2, <1>3 DEF Fits, Truths

LEMMA TypedAtFirst == Init => Typed
<1> SUFFICES ASSUME Init PROVE Typed
  OBVIOUS
<1> DEFINE shop == [version |-> 1, closed |-> FALSE, trial |-> TRUE, card |-> FALSE, number |-> None,
                    text |-> None, events |-> TRUE, managers |-> world.by \ {Owner}, period |-> None,
                    channel |-> "c1", required |-> FALSE, verified |-> TRUE, error |-> FALSE, token |-> 0]
           plan == [p \in Plans |-> IF p = 1 \/ p \in world.plans
                                    THEN [on |-> TRUE, gb |-> 1, price |-> p, order |-> p - 1] ELSE None]
           cust == [i \in Customers |-> [banned |-> FALSE, trial |-> world.tried, bal |-> world.bal]]
           topup == [t \in Topups |-> IF t \notin world.topups THEN None ELSE
                         [status |-> "pending", amount |-> 1, code |-> world.code # None,
                          crypto |-> FALSE, txid |-> 0]]
           ledger == [i \in Customers |-> world.bal]
           uses == [i \in Customers |-> 0]
<1>1. world \in Worlds /\ world.by \subseteq Customers \cup {Owner} /\ world.bal \in Nat /\ world.tried \in BOOLEAN
      /\ world.code \in Code \cup {None}
  BY WorldsAssumption DEF Init
<1>2. shop \in Shop
  BY <1>1 DEF Shop
<1>3. plan \in [Plans -> Plan]
  <2>1. ASSUME NEW p \in Plans PROVE [on |-> TRUE, gb |-> 1, price |-> p, order |-> p - 1] \in SomePlan
    <3>1. p \in Nat /\ p - 1 \in Nat /\ 1 \in 1..2
      BY IdsAssumption
    <3> QED BY <3>1 DEF SomePlan
  <2> QED BY <2>1 DEF Plan
<1>4. cust \in [Customers -> Customer]
  BY <1>1 DEF Customer
<1>5. topup \in [Topups -> Topup]
  <2>1. ASSUME NEW b \in BOOLEAN
        PROVE  [status |-> "pending", amount |-> 1, code |-> b, crypto |-> FALSE, txid |-> 0] \in SomeTopup
    BY DEF SomeTopup
  <2> DEFINE given == world.code # None
  <2>2. given \in BOOLEAN
    OBVIOUS
  <2>3. topup = [t \in Topups |-> IF t \notin world.topups THEN None ELSE
                         [status |-> "pending", amount |-> 1, code |-> given, crypto |-> FALSE, txid |-> 0]]
    OBVIOUS
  <2> HIDE DEF given, topup
  <2> QED BY <2>1, <2>2, <2>3 DEF Topup
<1>6. ledger \in [Customers -> Int] /\ uses \in [Customers -> Nat]
  BY <1>1
<1>7. db = [shop |-> shop, plan |-> plan, cust |-> cust, topup |-> topup, code |-> world.code, order |-> "active",
            cost |-> 1, ledger |-> ledger, uses |-> uses]
  BY DEF Init
<1> HIDE DEF shop, plan, cust, topup, ledger, uses
<1>8. db \in Database
  BY <1>1, <1>2, <1>3, <1>4, <1>5, <1>6, <1>7 DEF Database
<1>9. TypeOK
  BY <1>1, <1>8, BoundsAssumption DEF Init, TypeOK
<1>10. SlotsOK /\ AskedOK /\ SweepOK
  BY DEF Init, SlotsOK, AskedOK, SweepOK
<1> QED BY <1>9, <1>10 DEF Typed

\* What is always so of the shop's rows, keys and requests.
LEMMA AlwaysTyped == Spec => []Typed
<1>1. Typed /\ [Next]_vars => Typed'
  <2> SUFFICES ASSUME Typed, [Next]_vars PROVE Typed'
    OBVIOUS
  <2>1. CASE Next
    BY <2>1, AdminSteps, TypedKept
  <2>2. CASE UNCHANGED vars
    BY <2>2 DEF vars, history, Typed, TypeOK, SlotsOK, AskedOK, SweepOK
  <2> QED BY <2>1, <2>2
<1> QED BY TypedAtFirst, <1>1, PTL DEF Spec

\* Whatever three surfaces and two sweeps send at once, and whatever crashes half-way, every
\* row, key and request stays what its type says: the commands write rows (_execute, _cas).
THEOREM AdminTypes == Spec => []TypeOK
<1>1. Typed => TypeOK
  BY DEF Typed
<1> QED BY AlwaysTyped, <1>1, PTL

\* A request's command takes effect at most once and its call is made at most once, and who
\* is told that it succeeded or failed is told the truth: for any number of requests, sent
\* again any number of times, while leases end, answers are lost and processes die
\* (claim_command, prune_commands).
THEOREM KeyedOnce == Spec => []OncePerKey
<1>1. Typed /\ KeysOK /\ [Next]_vars => KeysOK'
  BY KeysKept, SameKeys DEF vars, history
<1>2. Spec => []KeysOK
  BY KeysAtFirst, AlwaysTyped, <1>1, PTL DEF Spec
<1> QED BY <1>2, KeysAreOnce, PTL

-----------------------------------------------------------------------------
(* The shop's configuration.  A command that commits on the version it     *)
(* saw has read the very configuration it changes.                         *)

AllowedBy(r, managers) == \/ r.by \in {Owner, System}
                          \/ r.via # "portal" /\ r.by \in managers /\ ~OwnerOnly(r.cmd)
\* What a request that works on the configuration read, when the rows are now d.
ViewOK(r, d) ==
    r.step = "open" /\ OnVersion(r.cmd) =>
        /\ r.seen <= r.view.shop.version /\ r.view.shop.version <= d.shop.version
        /\ r.view.shop.version = d.shop.version => Alike(r.view.shop, d.shop) /\ r.view.plan = d.plan
        /\ AllowedBy(r, r.view.shop.managers)
SeenOK(r, d) == /\ r.seen <= d.shop.version /\ ViewOK(r, d)
                /\ r.parent # None => r.parent.seen <= d.shop.version
ConfigsOK ==
    /\ \A i \in DOMAIN asked : asked[i].seen <= Current
    /\ \A s \in Slots : req[s] # None => SeenOK(req[s], db)

LEMMA EntityOutcomes ==
    ASSUME NEW c \in Database, NEW cmd \in Command, cmd.do \in RowDos \cup CodeDos, NEW to \in Outcomes(cmd, c),
           cmd.do = "set_topup_decision" => c.topup[cmd.t] # None
    PROVE  to.shop = c.shop /\ to.plan = c.plan
<1>1. CASE cmd.do = "set_customer_banned"
  <2>1. PICK C \in [Customers -> Customer] : to = [c EXCEPT !.cust = C]
    BY <1>1, BanOutcomes
  <2> QED BY <2>1 DEF Database
<1>2. CASE cmd.do = "adjust_wallet"
  <2>1. PICK n : to = [Moves(c, cmd.c, n) EXCEPT !.ledger = [c.ledger EXCEPT ![cmd.c] = c.ledger[cmd.c] + n]]
    BY <1>2, AdjustOutcomes
  <2> QED BY <2>1 DEF Moves, Database
<1>3. CASE cmd.do = "set_topup_decision"
  <2>1. CASE to = c
    BY <2>1
  <2>2. CASE \E T : to = [c EXCEPT !.topup = T]
    BY <2>2 DEF Database
  <2>3. ASSUME NEW paid, NEW n, NEW T, paid = [Moves(c, Buyer[cmd.t], n) EXCEPT !.topup = T],
               to = paid \/ to = Redeem(paid, Buyer[cmd.t])
        PROVE  to.shop = c.shop /\ to.plan = c.plan
    <3>1. paid.shop = c.shop /\ paid.plan = c.plan
      BY <2>3 DEF Moves, Database
    <3>2. to = Redeem(paid, Buyer[cmd.t]) => to.shop = paid.shop /\ to.plan = paid.plan
      BY <2>3 DEF Redeem, Moves, Database
    <3> QED BY <2>3, <3>1, <3>2
  <2> DEFINE T == [c.topup EXCEPT ![cmd.t] = [c.topup[cmd.t] EXCEPT !.status = "rejected"]]
             U == [c.topup EXCEPT ![cmd.t] = [[c.topup[cmd.t] EXCEPT !.status = "confirmed"] EXCEPT !.amount = cmd.n]]
  <2>4. \/ to = c
        \/ to = [c EXCEPT !.topup = T]
        \/ \E paid \in Database : /\ paid = [Moves(c, Buyer[cmd.t], cmd.n) EXCEPT !.topup = U]
                                  /\ to = paid \/ to = Redeem(paid, Buyer[cmd.t])
    <3>1. c.topup[cmd.t] # None
      BY <1>3
    <3>2. \/ to = c
          \/ /\ c.topup[cmd.t].status = "pending"
             /\ to = [c EXCEPT !.topup = T]
          \/ /\ c.topup[cmd.t].status = "pending"
             /\ \E paid \in Database :
                  /\ paid = [Moves(c, Buyer[cmd.t], cmd.n) EXCEPT !.topup = U]
                  /\ to = paid \/ (Redeemable(c, Buyer[cmd.t], cmd.n) /\ to = Redeem(paid, Buyer[cmd.t]))
      BY <1>3, <3>1, DecisionOutcomes
    <3> HIDE DEF T, U
    <3> QED BY <3>2
  <2> HIDE DEF T, U
  <2>5. ASSUME NEW paid \in Database, paid = [Moves(c, Buyer[cmd.t], cmd.n) EXCEPT !.topup = U],
               to = paid \/ to = Redeem(paid, Buyer[cmd.t])
        PROVE  to.shop = c.shop /\ to.plan = c.plan
    BY <2>3, <2>5
  <2>6. to = [c EXCEPT !.topup = T] => to.shop = c.shop /\ to.plan = c.plan
    BY <2>2
  <2> QED BY <2>1, <2>4, <2>5, <2>6
<1>4. CASE cmd.do \in CodeDos
  <2>1. PICK K : to = [c EXCEPT !.code = K]
    BY <1>4, CodeOutcomes
  <2> QED BY <2>1 DEF Database
<1> QED BY <1>1, <1>2, <1>3, <1>4 DEF RowDos

\* The commands that commit on the version they saw.
LEMMA VersionDos ==
    ASSUME NEW cmd \in Command, cmd.do \in Executed
    PROVE  /\ OnVersion(cmd) => cmd.do \in PlanDos \cup ShopDos \cup {"reset_free_trials"}
           /\ ~OnVersion(cmd) => cmd.do \in RowDos \cup CodeDos
           /\ OnVersion(cmd) => (Locked(cmd) <=> cmd.do = "reset_free_trials")
BY DEF OnVersion, Entities, Orders, Executed, PlanDos, ShopDos, RowDos, CodeDos, Edits, Locked

\* A command on one customer, top-up or code leaves the configuration alone.
LEMMA EntityCommit ==
    ASSUME Typed, NEW s \in Slots, Commit(s), ~OnVersion(req[s].cmd)
    PROVE  Alike(db'.shop, db.shop) /\ db'.plan = db.plan
<1> DEFINE cmd == req[s].cmd
           base == Base(req[s])
<1>1. /\ req[s] # None /\ cmd \in Command /\ cmd.do \in Executed /\ db \in Database /\ base \in Database
      /\ cmd.do = "set_topup_decision" => base.topup[cmd.t] # None
  <2>1. req[s] # None /\ cmd \in Command /\ cmd.do \in Executed /\ db \in Database /\ req[s].view \in Database
    BY CommitIs
  <2>2. cmd.do = "set_topup_decision" => db.topup[cmd.t] # None
    BY <2>1, SlotIs DEF Good, Wellformed
  <2>3. base \in {db, req[s].view} /\ (cmd.do = "set_topup_decision" => base = db)
    BY DEF Base, Locked
  <2> QED BY <2>1, <2>2, <2>3
<1>2. PICK to \in Outcomes(cmd, base) :
         /\ Flush(db, base, to).shop = MergeRow(db.shop, base.shop, to.shop)
         /\ Flush(db, base, to).plan = MergeRows(db.plan, base.plan, to.plan)
         /\ db'.shop = [Flush(db, base, to).shop EXCEPT !.version =
                           IF OnVersion(cmd) THEN Flush(db, base, to).shop.version + 1
                                             ELSE Flush(db, base, to).shop.version]
         /\ db'.plan = Flush(db, base, to).plan
  BY CommitIs
<1>3. to.shop = base.shop /\ to.plan = base.plan
  BY <1>1, VersionDos, EntityOutcomes
<1>4. Flush(db, base, to).shop = db.shop
  BY <1>2, <1>3, MergeSame
<1>5. Flush(db, base, to).plan = db.plan
  <2>1. db.plan \in [Plans -> Plan]
    BY <1>1 DEF Database
  <2> QED BY <1>2, <1>3, <2>1, RowsSame
<1>6. db'.shop = [db.shop EXCEPT !.version = db.shop.version]
  BY <1>2, <1>4
<1>7. db.shop \in Shop
  BY <1>1 DEF Database
<1>8. Alike(db'.shop, db.shop)
  BY <1>6, <1>7, ShopDomain DEF Alike, Attributes
<1> QED BY <1>2, <1>5, <1>8

LEMMA SameConfig ==
    ASSUME NEW c, NEW to \in Database, NEW S \in Shop, c.shop = [S EXCEPT !.version = S.version + 1],
           Alike(S, to.shop), c.plan = to.plan
    PROVE  Config(c) = Config([to EXCEPT !.shop.version = @ + 1])
<1> DEFINE T == [to.shop EXCEPT !.version = to.shop.version + 1]
           d == [to EXCEPT !.shop = T]
<1>1. [to EXCEPT !.shop.version = @ + 1] = d
  BY DEF Database
<1>2. to.shop \in Shop
  BY DEF Database
<1>3. DOMAIN c.shop = Attributes \cup {"error", "token"} /\ DOMAIN T = Attributes \cup {"error", "token"}
  BY <1>2, ShopDomain
<1>4. "version" \in DOMAIN S /\ "version" \in DOMAIN to.shop
  BY <1>2, ShopDomain DEF Attributes
<1>5. c.shop.version = S.version + 1 /\ T.version = to.shop.version + 1
  BY <1>4
<1>6. S.version = to.shop.version
  BY DEF Alike, Attributes
<1>7. ASSUME NEW a \in Attributes PROVE c.shop[a] = T[a]
  <2>1. CASE a = "version"
    BY <1>5, <1>6, <2>1
  <2>2. CASE a # "version"
    <3>1. c.shop[a] = S[a] /\ T[a] = to.shop[a]
      BY <1>2, <2>2, ShopDomain
    <3>2. S[a] = to.shop[a]
      BY DEF Alike
    <3> QED BY <3>1, <3>2
  <2> QED BY <2>1, <2>2
<1> HIDE DEF T
<1>8. d.shop = T /\ d.plan = to.plan
  BY DEF Database
<1> HIDE DEF d
<1>9. (Attributes \cup {"error", "token"}) \ {"error", "token"} = Attributes
  BY DEF Attributes
<1>10. [a \in DOMAIN c.shop \ {"error", "token"} |-> c.shop[a]] = [a \in DOMAIN d.shop \ {"error", "token"} |-> d.shop[a]]
  BY <1>3, <1>7, <1>8, <1>9
<1>11. Config(c) = Config(d)
  BY <1>8, <1>10 DEF Config
<1> QED BY <1>1, <1>11

LEMMA AlikeConfig ==
    ASSUME NEW c \in Database, NEW d \in Database, Alike(c.shop, d.shop), c.plan = d.plan
    PROVE  Config(c) = Config(d)
<1>1. c.shop \in Shop /\ d.shop \in Shop
  BY DEF Database
<1>2. DOMAIN c.shop = Attributes \cup {"error", "token"} /\ DOMAIN d.shop = Attributes \cup {"error", "token"}
  BY <1>1, ShopDomain
<1>3. (Attributes \cup {"error", "token"}) \ {"error", "token"} = Attributes
  BY DEF Attributes
<1>4. [a \in DOMAIN c.shop \ {"error", "token"} |-> c.shop[a]] = [a \in DOMAIN d.shop \ {"error", "token"} |-> d.shop[a]]
  BY <1>2, <1>3 DEF Alike
<1> QED BY <1>4 DEF Config

\* A command on the configuration that commits makes of it what it makes of the one its author saw.
LEMMA EditCommit ==
    ASSUME Typed, NEW s \in Slots, Commit(s), OnVersion(req[s].cmd), ViewOK(req[s], db), req[s].seen <= Current
    PROVE  /\ Allowed(req[s]) /\ req[s].seen = Current /\ db'.shop.version = Current + 1
           /\ \E to \in Outcomes(req[s].cmd, [db EXCEPT !.cost = req[s].view.cost, !.cust = req[s].view.cust]) :
                 Config(db') = Config([to EXCEPT !.shop.version = @ + 1])
<1> DEFINE cmd == req[s].cmd
           v == req[s].view
           base == Base(req[s])
           d == [[db EXCEPT !.cost = v.cost] EXCEPT !.cust = v.cust]
           Goes(to) == /\ to \in Outcomes(cmd, d)
                       /\ Config(db') = Config([to EXCEPT !.shop.version = @ + 1])
<1>1. /\ req[s] # None /\ cmd \in Command /\ cmd.do \in Executed /\ db \in Database /\ v \in Database
      /\ req[s].step = "open" /\ req[s].seen = Current
  BY CommitIs DEF Commit, Opened, Stale
<1>2. /\ db.shop \in Shop /\ v.shop \in Shop /\ db.shop.version \in Nat /\ v.shop.version \in Nat
      /\ db.plan \in [Plans -> Plan] /\ v.plan \in [Plans -> Plan]
  BY <1>1 DEF Database, Shop
<1>3. v.shop.version = Current
  BY <1>1, <1>2 DEF ViewOK, Current
<1>4. Alike(v.shop, db.shop) /\ v.plan = db.plan /\ AllowedBy(req[s], v.shop.managers)
  BY <1>1, <1>3 DEF ViewOK, Current
<1>5. Allowed(req[s])
  BY <1>4 DEF Allowed, AllowedBy, Alike, Attributes
<1>6. d = [db EXCEPT !.cost = v.cost, !.cust = v.cust]
  BY <1>1 DEF Database
<1>7. d \in Database /\ d.shop = db.shop /\ d.plan = db.plan /\ d.cost = v.cost /\ d.cust = v.cust
  BY <1>1 DEF Database
<1> HIDE DEF d
<1>8. PICK to \in Outcomes(cmd, base) :
         /\ to \in Database /\ Flush(db, base, to) \in Database
         /\ Locked(cmd) => Flush(db, base, to) = to
         /\ Flush(db, base, to).shop = MergeRow(db.shop, base.shop, to.shop)
         /\ Flush(db, base, to).plan = MergeRows(db.plan, base.plan, to.plan)
         /\ db'.shop = [Flush(db, base, to).shop EXCEPT !.version =
                           IF OnVersion(cmd) THEN Flush(db, base, to).shop.version + 1
                                             ELSE Flush(db, base, to).shop.version]
         /\ db'.plan = Flush(db, base, to).plan
  BY CommitIs
<1> DEFINE S == Flush(db, base, to).shop
           P == Flush(db, base, to).plan
<1>9. S \in Shop /\ db'.shop = [S EXCEPT !.version = S.version + 1] /\ db'.plan = P
  BY <1>8 DEF Database
<1>10. S = MergeRow(db.shop, base.shop, to.shop) /\ P = MergeRows(db.plan, base.plan, to.plan)
  BY <1>8
<1> HIDE DEF S, P
<1>11. ASSUME NEW x, x \in Outcomes(cmd, d), x \in Database, Alike(S, x.shop), P = x.plan PROVE \E y : Goes(y)
  <2>1. Goes(x)
    BY <1>9, <1>11, SameConfig
  <2> QED BY <2>1
<1>12. ASSUME NEW T \in Shop, S.version = db.shop.version PROVE db'.shop.version = Current + 1
  BY <1>9, <1>12, ShopDomain DEF Current, Attributes
<1> HIDE DEF Goes
<1>13. CASE cmd.do \in PlanDos
  <2>1. base = v
    BY <1>1, <1>13 DEF Base, Locked, PlanDos
  <2>2. PICK Q \in [Plans -> Plan] :
              /\ to = [v EXCEPT !.plan = Q]
              /\ \A c \in Database : c.plan = v.plan /\ c.cost = v.cost => [c EXCEPT !.plan = Q] \in Outcomes(cmd, c)
    BY <1>1, <1>8, <1>13, <2>1, PlanOutcomes
  <2>3. to.shop = v.shop /\ to.plan = Q
    BY <1>1, <2>2 DEF Database
  <2>4. S = db.shop
    BY <1>10, <2>1, <2>3, MergeSame
  <2>5. P = Q
    <3>1. ASSUME NEW p \in Plans PROVE MergeRow(db.plan[p], db.plan[p], Q[p]) = Q[p]
      <4>1. db.plan[p] \in Plan /\ Q[p] \in Plan
        BY <1>2
      <4>2. \A r \in SomePlan : DOMAIN r = {"on", "gb", "price", "order"} /\ r = [a \in DOMAIN r |-> r[a]]
        BY DEF SomePlan
      <4>3. PICK now : now = db.plan[p]
        OBVIOUS
      <4>4. PICK wanted : wanted = Q[p]
        OBVIOUS
      <4>5. {None, Gone} \cap {now, wanted} = {} => now \in SomePlan /\ wanted \in SomePlan
        BY <4>1, <4>3, <4>4 DEF Plan
      <4>6. {None, Gone} \cap {now, wanted} = {} => DOMAIN now = DOMAIN wanted /\ wanted = [a \in DOMAIN wanted |-> wanted[a]]
        BY <4>2, <4>5
      <4> QED BY <4>3, <4>4, <4>6, MergeUntouched
    <3>2. P = [p \in Plans |-> MergeRow(db.plan[p], db.plan[p], Q[p])]
      BY <1>2, <1>4, <1>10, <2>1, <2>3 DEF MergeRows
    <3> QED BY <3>1, <3>2
  <2> DEFINE x == [d EXCEPT !.plan = Q]
  <2>6. x \in Outcomes(cmd, d) /\ x \in Database /\ x.shop = db.shop /\ x.plan = Q
    BY <1>4, <1>7, <2>2 DEF Database
  <2> HIDE DEF x
  <2>7. Alike(S, x.shop)
    BY <2>4, <2>6 DEF Alike
  <2>8. \E y : Goes(y)
    BY <1>11, <2>5, <2>6, <2>7
  <2> QED BY <1>1, <1>2, <1>5, <1>6, <1>12, <2>4, <2>8 DEF Goes
<1>14. CASE cmd.do \in ShopDos
  <2>1. base = v
    BY <1>1, <1>14 DEF Base, Locked, ShopDos, Edits
  <2>2. PICK W \in Shop :
              /\ to = [v EXCEPT !.shop = W] /\ W.version = v.shop.version
              /\ \A c \in Database : c.cust = v.cust /\ Alike(c.shop, v.shop) =>
                    \E T \in Shop : Alike(T, W) /\ [c EXCEPT !.shop = T] \in Outcomes(cmd, c)
    BY <1>1, <1>8, <1>14, <2>1, ShopOutcomes
  <2>3. to.shop = W /\ to.plan = v.plan
    BY <1>1, <2>2 DEF Database
  <2>4. P = db.plan
    BY <1>2, <1>10, <2>1, <2>3, RowsSame
  <2>5. Alike(S, W)
    <3>1. \A a \in Attributes : /\ W[a] = v.shop[a] => S[a] = db.shop[a]
                                /\ W[a] # v.shop[a] => S[a] = W[a]
      BY <1>2, <1>10, <2>1, <2>3, ShopKeeps
    <3> QED BY <1>4, <3>1 DEF Alike
  <2>6. Alike(d.shop, v.shop)
    BY <1>4, <1>7 DEF Alike
  <2>7. PICK T \in Shop : Alike(T, W) /\ [d EXCEPT !.shop = T] \in Outcomes(cmd, d)
    BY <1>7, <2>2, <2>6
  <2> DEFINE x == [d EXCEPT !.shop = T]
  <2>8. x \in Outcomes(cmd, d) /\ x \in Database /\ x.shop = T /\ x.plan = db.plan
    BY <1>7, <2>7 DEF Database
  <2> HIDE DEF x
  <2>9. Alike(S, x.shop)
    BY <2>5, <2>7, <2>8 DEF Alike
  <2>10. S.version = db.shop.version
    BY <1>3, <2>2, <2>5 DEF Alike, Attributes, Current
  <2>11. \E y : Goes(y)
    BY <1>11, <2>4, <2>8, <2>9
  <2> QED BY <1>1, <1>2, <1>5, <1>6, <1>12, <2>10, <2>11 DEF Goes
<1>15. CASE cmd.do = "reset_free_trials"
  <2>1. base = db /\ Locked(cmd)
    BY <1>15 DEF Base, Locked
  <2>2. /\ db.shop.period = None
        /\ to = [[db EXCEPT !.shop = [db.shop EXCEPT !.period = "now"]] EXCEPT !.cust =
                    [i \in Customers |-> [db.cust[i] EXCEPT !.trial = FALSE]]]
        /\ \A c \in Database : c.shop.period = None => Outcomes(cmd, c) # {}
    <3> DEFINE C == [i \in Customers |-> [db.cust[i] EXCEPT !.trial = FALSE]]
    <3>1. to \in Outcomes(cmd, db)
      BY <1>8, <2>1
    <3>2. db.shop.period = None
      BY <1>1, <1>15, <3>1, ResetOutcomes
    <3>3. to = [[db EXCEPT !.shop = [db.shop EXCEPT !.period = "now"]] EXCEPT !.cust = C]
      BY <1>1, <1>15, <3>1, ResetOutcomes
    <3>4. \A c \in Database : c.shop.period = None => Outcomes(cmd, c) # {}
      BY <1>1, <1>15, <3>1, ResetOutcomes
    <3> QED BY <3>2, <3>3, <3>4
  <2>3. to.shop = [db.shop EXCEPT !.period = "now"] /\ to.plan = db.plan
    BY <1>1, <2>2 DEF Database
  <2>4. S = to.shop /\ P = to.plan
    BY <1>8, <2>1 DEF S, P
  <2>5. PICK x : x \in Outcomes(cmd, d)
    <3>1. d.shop.period = None
      BY <1>7, <2>2
    <3>2. Outcomes(cmd, d) # {}
      BY <1>7, <2>2, <3>1
    <3> QED BY <3>2
  <2>6. /\ x = [[d EXCEPT !.shop = [d.shop EXCEPT !.period = "now"]] EXCEPT !.cust =
                    [i \in Customers |-> [d.cust[i] EXCEPT !.trial = FALSE]]]
        /\ x \in Database
    BY <1>7, <1>15, <2>5, ResetOutcomes
  <2>7. x.shop = [db.shop EXCEPT !.period = "now"] /\ x.plan = db.plan
    BY <1>7, <2>6 DEF Database
  <2>8. Alike(S, x.shop) /\ P = x.plan
    BY <2>3, <2>4, <2>7 DEF Alike
  <2>9. S.version = db.shop.version
    BY <1>2, <2>3, <2>4, ShopDomain DEF Attributes
  <2>10. \E y : Goes(y)
    BY <1>11, <2>5, <2>6, <2>8
  <2> QED BY <1>1, <1>2, <1>5, <1>6, <1>12, <2>9, <2>10 DEF Goes
<1> QED BY <1>1, <1>13, <1>14, <1>15, VersionDos

LEMMA SeenTypes ==
    ASSUME Typed, NEW s \in Slots, req[s] # None
    PROVE  /\ req[s].seen \in Nat /\ Current \in Nat
           /\ req[s].parent # None => req[s].parent.seen \in Nat
           /\ req[s].step = "open" => req[s].view.shop.version \in Nat
<1>1. db \in Database /\ req[s] \in SomeRequest /\ (req[s].parent # None => req[s].parent \in Part)
  BY SlotIs DEF Typed, TypeOK, Good
<1>2. req[s].step = "open" => req[s].view \in Database
  BY SlotIs DEF Good, Wellformed
<1>3. \A d \in Database : d.shop.version \in Nat
  BY DEF Database, Shop
<1> QED BY <1>1, <1>2, <1>3 DEF SomeRequest, Request, Part, Current

\* What may be seen is a version that there was.
LEMMA KnownSeen ==
    ASSUME Typed, ConfigsOK, NEW n, Known(n)
    PROVE  n <= Current
<1>1. Current \in Nat
  BY DEF Typed, TypeOK, Database, Shop, Current
<1> QED BY <1>1 DEF Known, ConfigsOK

\* The configuration stays, or its version moves on while nobody opens a transaction.
Moved == \/ Alike(db'.shop, db.shop) /\ db'.plan = db.plan
         \/ db'.shop.version = Current + 1
LEMMA SeenStays ==
    ASSUME Typed, ConfigsOK, Moved, NEW s \in Slots, req[s] # None
    PROVE  SeenOK(req[s], db')
<1>1. SeenOK(req[s], db)
  BY DEF ConfigsOK
<1>2. /\ req[s].seen \in Nat /\ Current \in Nat
      /\ req[s].parent # None => req[s].parent.seen \in Nat
      /\ req[s].step = "open" => req[s].view.shop.version \in Nat
  BY SeenTypes
<1>3. CASE Alike(db'.shop, db.shop) /\ db'.plan = db.plan
  <2>1. db'.shop.version = Current
    BY <1>3 DEF Alike, Attributes, Current
  <2>2. Alike(req[s].view.shop, db.shop) => Alike(req[s].view.shop, db'.shop)
    BY <1>3 DEF Alike
  <2> QED BY <1>1, <1>3, <2>1, <2>2 DEF SeenOK, ViewOK, Current
<1>4. CASE db'.shop.version = Current + 1
  <2>1. db.shop.version = Current
    BY DEF Current
  <2> QED BY <1>1, <1>2, <1>4, <2>1 DEF SeenOK, ViewOK
<1> QED BY <1>3, <1>4 DEF Moved

LEMMA ConfigsMove ==
    ASSUME Typed, ConfigsOK, Moved, Turns1, AskedKnown
    PROVE  ConfigsOK'
<1>0. DOMAIN req = Slots /\ asked \in Seq(Asked) /\ Current \in Nat /\ db.shop.version = Current
  BY DEF Typed, TypeOK, Database, Shop, Current
<1>1. ASSUME NEW j \in DOMAIN asked PROVE asked[j].seen \in Nat
  <2>1. asked[j] \in Asked
    BY <1>0, <1>1
  <2> QED BY <2>1 DEF Asked
<1>2. db'.shop.version \in {Current, Current + 1}
  BY DEF Moved, Alike, Attributes, Current
<1>3. ASSUME NEW i \in DOMAIN asked' PROVE asked'[i].seen <= db'.shop.version
  <2>1. \A j \in DOMAIN asked : asked[j].seen \in Nat /\ asked[j].seen <= Current
    BY <1>1 DEF ConfigsOK
  <2>2. CASE asked' = asked
    BY <1>0, <1>2, <1>3, <2>1, <2>2
  <2>3. CASE asked' # asked
    <3>1. PICK x : Known(x.seen) /\ asked' = Append(asked, x)
      BY <2>3 DEF AskedKnown
    <3>2. x.seen <= Current /\ x.seen \in Nat
      <4>1. x.seen <= Current
        BY <3>1, KnownSeen
      <4>2. x.seen \in Nat
        BY <1>0, <2>1, <3>1 DEF Known
      <4> QED BY <4>1, <4>2
    <3>3. DOMAIN asked' = 1..(Len(asked) + 1) /\ DOMAIN asked = 1..Len(asked) /\ Len(asked) \in Nat
      BY <1>0, <3>1
    <3>4. CASE i = Len(asked) + 1
      <4>1. asked'[i] = x
        BY <1>0, <3>1, <3>4
      <4> QED BY <1>0, <1>2, <3>2, <4>1
    <3>5. CASE i # Len(asked) + 1
      <4>1. i \in DOMAIN asked /\ asked'[i] = asked[i]
        BY <1>0, <1>3, <3>1, <3>3, <3>5
      <4> QED BY <1>0, <1>2, <2>1, <4>1
    <3> QED BY <3>4, <3>5
  <2> QED BY <2>2, <2>3
<1>4. ASSUME NEW s \in Slots, NEW q, q # None, Turn(s, q) PROVE SeenOK(q, db')
  <2>1. CASE req[s] # None /\ req[s].parent # None /\ q = req[s].parent
    <3>1. q.step = "items" /\ q.parent = None /\ q.seen <= Current /\ q.seen \in Nat
      BY <2>1, SlotTyped, SeenTypes, <1>0 DEF ConfigsOK, SeenOK
    <3>2. q.seen <= db'.shop.version
      BY <1>0, <1>2, <3>1
    <3> QED BY <3>1, <3>2 DEF SeenOK, ViewOK
  <2>2. CASE q.step = "sent" /\ q.parent = None /\ Known(q.seen)
    <3>1. q.seen <= Current /\ q.seen \in Nat
      <4>1. q.seen <= Current
        BY <2>2, KnownSeen
      <4>2. q.seen \in Nat
        BY <1>0, <1>1, <2>2 DEF Known
      <4> QED BY <4>1, <4>2
    <3>2. q.seen <= db'.shop.version
      BY <1>0, <1>2, <3>1
    <3> QED BY <2>2, <3>2 DEF SeenOK, ViewOK
  <2>3. CASE /\ req[s] # None /\ q.step = "sent" /\ q.seen = 0
             /\ q.parent # None /\ Same(q.parent, req[s]) /\ q.parent.step = "items"
    <3>1. req[s].seen <= Current /\ req[s].seen \in Nat
      BY <1>0, <2>3, SeenTypes DEF ConfigsOK, SeenOK
    <3>2. q.parent.seen <= db'.shop.version /\ q.seen <= db'.shop.version
      BY <1>0, <1>2, <2>3, <3>1 DEF Same
    <3> QED BY <2>3, <3>2 DEF SeenOK, ViewOK
  <2>4. CASE Opens(s, q) /\ db' = db
    <3>1. req[s] # None /\ Allowed(req[s]) /\ Same(q, req[s]) /\ q.cmd = req[s].cmd /\ q.view = db
      BY <2>4 DEF Opens
    <3>2. SeenOK(req[s], db)
      BY <3>1 DEF ConfigsOK
    <3>3. AllowedBy(q, q.view.shop.managers)
      BY <3>1 DEF Allowed, AllowedBy, Same
    <3>4. Alike(q.view.shop, db.shop) /\ q.view.plan = db.plan
      BY <3>1 DEF Alike
    <3>5. q.seen <= db.shop.version /\ (q.parent # None => q.parent.seen <= db.shop.version)
      BY <3>1, <3>2 DEF SeenOK, Same
    <3>6. q.view.shop.version <= db.shop.version
      BY <1>0, <3>1
    <3>7. ViewOK(q, db)
      BY <3>1, <3>3, <3>4, <3>5, <3>6 DEF ViewOK
    <3> QED BY <2>4, <3>5, <3>7 DEF SeenOK
  <2>5. CASE req[s] # None /\ Same(q, req[s]) /\ q.step \in {"call", "answer", "items"}
    <3>1. SeenOK(req[s], db')
      BY <2>5, SeenStays
    <3> QED BY <2>5, <3>1 DEF SeenOK, ViewOK, Same
  <2> QED BY <1>4, <2>1, <2>2, <2>3, <2>4, <2>5 DEF Turn
<1>5. ASSUME NEW o \in Slots, req'[o] # None PROVE SeenOK(req'[o], db')
  <2>1. CASE req' = req
    BY <1>5, <2>1, SeenStays
  <2>2. ASSUME NEW s \in Slots, NEW q, Holds(s, q), Turn(s, q) PROVE SeenOK(req'[o], db')
    <3>1. CASE o = s
      BY <1>0, <1>4, <1>5, <2>2, <3>1 DEF Holds
    <3>2. CASE o # s
      <4>1. req'[o] = req[o]
        BY <1>0, <2>2, <3>2 DEF Holds
      <4> QED BY <1>5, <4>1, SeenStays
    <3> QED BY <3>1, <3>2
  <2> QED BY <2>1, <2>2 DEF Turns1
<1>6. \A o \in Slots : req'[o] # None => SeenOK(req'[o], db')
  BY <1>5
<1>7. ConfigsOK' <=> /\ \A i \in DOMAIN asked' : asked'[i].seen <= db'.shop.version
                     /\ \A o \in Slots : req'[o] # None => SeenOK(req'[o], db')
  BY DEF ConfigsOK, Current, SeenOK, ViewOK
<1> QED BY <1>3, <1>6, <1>7

LEMMA ConfigsKept == ASSUME Typed, ConfigsOK, Next PROVE ConfigsOK'
<1>1. Moved
  <2>1. ASSUME NEW s \in Slots, Commit(s) PROVE Moved
    <3>1. req[s] # None
      BY <2>1 DEF Commit, Opened
    <3>2. SeenOK(req[s], db)
      BY <3>1 DEF ConfigsOK
    <3>3. CASE OnVersion(req[s].cmd)
      <4>1. req[s].seen <= Current /\ ViewOK(req[s], db)
        BY <3>2 DEF SeenOK, Current
      <4> QED BY <2>1, <3>3, <4>1, EditCommit DEF Moved
    <3>4. CASE ~OnVersion(req[s].cmd)
      BY <2>1, <3>4, EntityCommit DEF Moved
    <3> QED BY <3>3, <3>4
  <2>2. CASE \A s \in Slots : ~Commit(s)
    BY <2>2, OtherSteps DEF Minor, Moved
  <2> QED BY <2>1, <2>2
<1> QED BY <1>1, SlotSteps, ConfigsMove

LEMMA ConfigsAtFirst == Init => ConfigsOK
BY DEF Init, ConfigsOK

\* What a change of the configuration is.
Composed ==
    Config(db') # Config(db) =>
        \E s \in Slots :
            /\ Opened(s) /\ Allowed(req[s]) /\ db'.shop.version = req[s].seen + 1
            /\ \E to \in Outcomes(req[s].cmd, [db EXCEPT !.cost = req[s].view.cost,
                                                         !.cust = req[s].view.cust]) :
                  Config(db') = Config([to EXCEPT !.shop.version = @ + 1])
LEMMA StepsCompose == ASSUME Typed, ConfigsOK, Next PROVE Composed
<1>0. db \in Database /\ db' \in Database
  BY AdminSteps DEF Typed, TypeOK, AnyStep, Grows
<1>1. ASSUME Alike(db'.shop, db.shop), db'.plan = db.plan PROVE Composed
  BY <1>0, <1>1, AlikeConfig DEF Composed
<1>2. ASSUME NEW s \in Slots, Commit(s) PROVE Composed
  <2>1. Opened(s) /\ req[s] # None
    BY <1>2 DEF Commit, Opened
  <2>2. SeenOK(req[s], db)
    BY <2>1 DEF ConfigsOK
  <2>3. CASE OnVersion(req[s].cmd)
    <3>1. req[s].seen <= Current /\ ViewOK(req[s], db)
      BY <2>2 DEF SeenOK, Current
    <3>2. /\ Allowed(req[s]) /\ req[s].seen = Current /\ db'.shop.version = Current + 1
          /\ \E to \in Outcomes(req[s].cmd, [db EXCEPT !.cost = req[s].view.cost, !.cust = req[s].view.cust]) :
                Config(db') = Config([to EXCEPT !.shop.version = @ + 1])
      BY <1>2, <2>3, <3>1, EditCommit
    <3> QED BY <2>1, <3>2, Zenon DEF Composed
  <2>4. CASE ~OnVersion(req[s].cmd)
    BY <1>1, <1>2, <2>4, EntityCommit
  <2> QED BY <2>3, <2>4
<1>3. CASE \A s \in Slots : ~Commit(s)
  BY <1>1, <1>3, OtherSteps DEF Minor
<1> QED BY <1>2, <1>3

\* A shop's configuration is only changed by a command of someone who may still give it, on
\* the very configuration he saw, and it becomes what the command makes of that: for any
\* number of administrators on any surface, no edit is lost and none lands on one that its
\* author did not see (_cas, and the merge of loaded rows).
THEOREM EditsAlwaysCompose == Spec => EditsCompose
<1>1. Typed /\ ConfigsOK /\ [Next]_vars => ConfigsOK'
  BY ConfigsKept DEF vars, ConfigsOK, SeenOK, ViewOK, Current
<1>2. Spec => []ConfigsOK
  BY ConfigsAtFirst, AlwaysTyped, <1>1, PTL DEF Spec
<1>3. Typed /\ ConfigsOK /\ [Next]_vars => [Composed]_vars
  BY StepsCompose
<1>4. Spec => [][Composed]_vars
  BY AlwaysTyped, <1>2, <1>3, PTL DEF Spec
<1> QED BY <1>4 DEF EditsCompose, Composed


-----------------------------------------------------------------------------
(* Types of the conversations.                                             *)

\* What holds of the update x a task works on when the operations are cards.
Fit(x, cards) ==
    /\ x \in Task
    /\ x.do = "confirm" => x.n \in Cards /\ cards[x.n] # None
    /\ x.step \in {"charge", "panel"} => x.do = "confirm"
\* The counts of trials.
TalliesOK == trials \in [Customers -> Nat] /\ unreaped \in [Customers -> Nat] /\ unsure \in [Customers -> Nat]
TalkOK ==
    /\ chat \in [Customers -> Chat] /\ card \in [Cards -> Card \cup {None}] /\ TalliesOK
    /\ DOMAIN task = Tasks /\ \A h \in Tasks : task[h] = None \/ Fit(task[h], card)
    /\ task \in [Tasks -> Task \cup {None}]
AllTyped == Typed /\ TalkOK

\* The ways an update changes the variables.
ChatStep == chat' = chat \/ \E i \in Customers, row \in Chat : chat' = [chat EXCEPT ![i] = row]
CardStep == card' = card \/ \E c : \E row \in Card : card' = [card EXCEPT ![c] = row]
TaskStep == task' = task \/ \E h \in Tasks : \E x : (x = None \/ Fit(x, card)) /\ task' = [task EXCEPT ![h] = x]
TrialsStep == TalliesOK'
TalkStep == Grows(db') /\ ChatStep /\ CardStep /\ TaskStep /\ TrialsStep

LEMMA TalkKept == ASSUME AllTyped, TalkStep PROVE TalkOK'
<1>1. chat' \in [Customers -> Chat]
  BY DEF AllTyped, TalkOK, TalkStep, ChatStep
<1>2. card' \in [Cards -> Card \cup {None}] /\ \A c \in Cards : card[c] # None => card'[c] # None
  <2>1. card \in [Cards -> Card \cup {None}]
    BY DEF AllTyped, TalkOK
  <2>2. ASSUME NEW c, NEW row \in Card, card' = [card EXCEPT ![c] = row]
        PROVE  card' \in [Cards -> Card \cup {None}] /\ \A d \in Cards : card[d] # None => card'[d] # None
    <3>1. row # None
      BY NoneCustomersAssumption
    <3> QED BY <2>1, <2>2, <3>1
  <2> QED BY <2>1, <2>2 DEF TalkStep, CardStep
<1>3. TalliesOK'
  BY DEF TalkStep, TrialsStep
<1>4. \A x : Fit(x, card) => Fit(x, card')
  BY <1>2 DEF Fit
<1>5. task' \in [Tasks -> Task \cup {None}] /\ \A h \in Tasks : task'[h] = None \/ Fit(task'[h], card')
  <2>1. task \in [Tasks -> Task \cup {None}] /\ \A h \in Tasks : task[h] = None \/ Fit(task[h], card')
    BY <1>4 DEF AllTyped, TalkOK
  <2>2. ASSUME NEW h \in Tasks, NEW x, x = None \/ Fit(x, card), task' = [task EXCEPT ![h] = x]
        PROVE  task' \in [Tasks -> Task \cup {None}] /\ \A g \in Tasks : task'[g] = None \/ Fit(task'[g], card')
    <3>1. x \in Task \cup {None} /\ (x = None \/ Fit(x, card'))
      BY <1>4, <2>2 DEF Fit
    <3> QED BY <2>1, <2>2, <3>1
  <2> QED BY <2>1, <2>2 DEF TalkStep, TaskStep
<1> QED BY <1>1, <1>2, <1>3, <1>5 DEF TalkOK

LEMMA MessagesAre == \A at : Messages(at) \subseteq [do : {"name", "amount", "code", "proof", "gift", "question"}, n : Nat]
<1> DEFINE Spoken == [do : {"name", "amount", "code", "proof", "gift", "question"}, n : Nat]
<1> SUFFICES ASSUME NEW at PROVE Messages(at) \subseteq Spoken
  OBVIOUS
<1>0. \A do \in {"name", "amount", "code", "proof", "gift", "question"}, n \in Nat : Update(do, n) \in Spoken
  BY DEF Update
<1> HIDE DEF Spoken
<1>1. CASE at = "buy_name"
  <2>1. Messages(at) = {Update("name", 0)}
    BY <1>1, Zenon DEF Messages
  <2> QED BY <1>0, <2>1
<1>2. CASE at \in {"topup_amount", "topup_choice"}
  <2>1. Messages(at) = {Update("amount", n) : n \in 1..2}
    BY <1>2, Zenon DEF Messages
  <2>2. 1..2 \subseteq Nat
    OBVIOUS
  <2> QED BY <1>0, <2>1, <2>2
<1>3. CASE at = "topup_code"
  <2>1. Messages(at) = {Update("code", 0)}
    BY <1>3, Zenon DEF Messages
  <2> QED BY <1>0, <2>1
<1>4. CASE at = "topup_proof"
  <2>1. Messages(at) = {Update("proof", x) : x \in Proofs}
    BY <1>4, Zenon DEF Messages
  <2>2. Proofs \subseteq Nat
    BY DEF Proofs, Photo
  <2> QED BY <1>0, <2>1, <2>2
<1>5. CASE at = "gift_code"
  <2>1. Messages(at) = {Update("gift", 0)}
    BY <1>5, Zenon DEF Messages
  <2> QED BY <1>0, <2>1
<1>6. CASE at = "cust_support"
  <2>1. Messages(at) = {Update("question", 0)}
    BY <1>6, Zenon DEF Messages
  <2> QED BY <1>0, <2>1
<1>7. CASE at \notin {"buy_name", "topup_amount", "topup_choice", "topup_code", "topup_proof", "gift_code", "cust_support"}
  <2>1. Messages(at) = {}
    BY <1>7, Zenon DEF Messages
  <2> QED BY <2>1
<1> QED BY <1>1, <1>2, <1>3, <1>4, <1>5, <1>6, <1>7

LEMMA UpdatesAre ==
    ASSUME AllTyped, NEW at, NEW u \in Taps \cup Labels \cup Messages(at)
    PROVE  /\ u.do \in Kinds /\ u.n \in Nat
           /\ u.do = "confirm" => u.n \in Cards /\ card[u.n] # None
<1> DEFINE Right(x) == x.do \in Kinds /\ x.n \in Nat /\ (x.do = "confirm" => x.n \in Cards /\ card[x.n] # None)
<1>1. Plans \subseteq Nat /\ Cards \subseteq Nat
  BY IdsAssumption, CustomersAssumption
<1>2. ASSUME NEW do \in Kinds \ {"confirm"}, NEW n \in Nat PROVE Right(Update(do, n))
  BY <1>2 DEF Update
<1>3. ASSUME NEW c \in Cards, card[c] # None PROVE Right(Update("confirm", c))
  <2>1. "confirm" \in Kinds
    BY DEF Kinds
  <2> QED BY <1>1, <1>3, <2>1 DEF Update
<1>4. CASE u \in Messages(at)
  <2>1. u.do \in {"name", "amount", "code", "proof", "gift", "question"} /\ u.n \in Nat
    BY <1>4, MessagesAre
  <2>2. {"name", "amount", "code", "proof", "gift", "question"} \subseteq Kinds \ {"confirm"}
    BY DEF Kinds
  <2> QED BY <2>1, <2>2
<1>5. CASE u \in Labels
  <2>1. {"cancel", "trial", "support"} \subseteq Kinds \ {"confirm"}
    BY DEF Kinds
  <2> HIDE DEF Right
  <2>2. Right(u)
    BY <1>2, <1>5, <2>1 DEF Labels
  <2> QED BY <2>2 DEF Right
<1>6. CASE u \in Taps
  <2>1. {"topup", "ask code", "no code", "ask gift", "usdt", "card", "buy"} \subseteq Kinds \ {"confirm"}
    BY DEF Kinds
  <2> HIDE DEF Right
  <2>2. Right(u)
    BY <1>1, <1>2, <1>3, <1>6, <2>1 DEF Taps
  <2> QED BY <2>2 DEF Right
<1> QED BY <1>4, <1>5, <1>6

LEMMA ChatUpdates ==
    ASSUME NEW row \in Chat
    PROVE  /\ \A p \in Plans : Updated(row, [at |-> "buy_name", plan |-> p]) \in Chat
           /\ \A at \in States : Updated(row, [at |-> at]) \in Chat
           /\ \A n \in Nat : Updated(row, [at |-> "topup_choice", amount |-> n, code |-> FALSE]) \in Chat
           /\ Updated(row, [at |-> "topup_choice", code |-> TRUE]) \in Chat
           /\ \A b \in BOOLEAN : Updated(row, [at |-> "topup_proof", crypto |-> b]) \in Chat
<1>0. DOMAIN row = {"at", "plan", "amount", "code", "crypto"}
  BY DEF Chat
<1>1. ASSUME NEW p \in Plans PROVE Updated(row, [at |-> "buy_name", plan |-> p]) \in Chat
  <2> DEFINE set == [at |-> "buy_name", plan |-> p]
  <2>1. Updated(row, set) = [at |-> "buy_name", plan |-> p, amount |-> row.amount, code |-> row.code, crypto |-> row.crypto]
    BY <1>0 DEF Updated
  <2> QED BY <1>1, <2>1 DEF Chat, States
<1>2. ASSUME NEW at \in States PROVE Updated(row, [at |-> at]) \in Chat
  <2> DEFINE set == [at |-> at]
  <2>1. Updated(row, set) = [at |-> at, plan |-> row.plan, amount |-> row.amount, code |-> row.code, crypto |-> row.crypto]
    BY <1>0 DEF Updated
  <2> QED BY <1>2, <2>1 DEF Chat, States
<1>3. ASSUME NEW n \in Nat PROVE Updated(row, [at |-> "topup_choice", amount |-> n, code |-> FALSE]) \in Chat
  <2>1. ASSUME NEW b \in BOOLEAN PROVE Updated(row, [at |-> "topup_choice", amount |-> n, code |-> b]) \in Chat
    <3> DEFINE set == [at |-> "topup_choice", amount |-> n, code |-> b]
    <3>1. Updated(row, set) = [at |-> "topup_choice", plan |-> row.plan, amount |-> n, code |-> b, crypto |-> row.crypto]
      BY <1>0 DEF Updated
    <3> QED BY <1>3, <2>1, <3>1 DEF Chat, States
  <2> QED BY <2>1
<1>4. Updated(row, [at |-> "topup_choice", code |-> TRUE]) \in Chat
  <2>1. ASSUME NEW b \in BOOLEAN PROVE Updated(row, [at |-> "topup_choice", code |-> b]) \in Chat
    <3> DEFINE set == [at |-> "topup_choice", code |-> b]
    <3>1. Updated(row, set) = [at |-> "topup_choice", plan |-> row.plan, amount |-> row.amount, code |-> b, crypto |-> row.crypto]
      BY <1>0 DEF Updated
    <3> QED BY <2>1, <3>1 DEF Chat, States
  <2> QED BY <2>1
<1>5. ASSUME NEW b \in BOOLEAN PROVE Updated(row, [at |-> "topup_proof", crypto |-> b]) \in Chat
  <2> DEFINE set == [at |-> "topup_proof", crypto |-> b]
  <2>1. Updated(row, set) = [at |-> "topup_proof", plan |-> row.plan, amount |-> row.amount, code |-> row.code, crypto |-> b]
    BY <1>0 DEF Updated
  <2> QED BY <1>5, <2>1 DEF Chat, States
<1> QED BY <1>1, <1>2, <1>3, <1>4, <1>5

\* The update a task works on.
LEMMA TaskIs ==
    ASSUME AllTyped, NEW h \in Tasks, task[h] # None
    PROVE  /\ Fit(task[h], card) /\ task[h] \in Task /\ task[h].who \in Customers /\ task[h].n \in Nat
           /\ task[h].data \in Chat /\ task[h].price \in Nat /\ Who(h) = task[h].who
           /\ chat[Who(h)] \in Chat /\ chat \in [Customers -> Chat] /\ card \in [Cards -> Card \cup {None}]
           /\ task[h].do = "confirm" => task[h].n \in Cards /\ card[task[h].n] \in Card
<1>1. Fit(task[h], card)
  BY DEF AllTyped, TalkOK
<1>2. task[h] \in Task
  BY <1>1 DEF Fit
<1>3. /\ task[h].who \in Customers /\ task[h].n \in Nat /\ task[h].data \in Chat /\ task[h].price \in Nat
      /\ Who(h) = task[h].who
  BY <1>2 DEF Task, Who
<1>4. chat \in [Customers -> Chat] /\ card \in [Cards -> Card \cup {None}]
  BY DEF AllTyped, TalkOK
<1>5. task[h].do = "confirm" => task[h].n \in Cards /\ card[task[h].n] \in Card
  BY <1>1, <1>4 DEF Fit
<1> QED BY <1>1, <1>2, <1>3, <1>4, <1>5

\* An update may go on to another step of its work.
LEMMA TaskFields ==
    ASSUME NEW x \in Task
    PROVE  /\ DOMAIN x = {"who", "do", "n", "data", "price", "step"}
           /\ \A s \in {"arrived", "taken", "charge", "panel", "trial"} : [x EXCEPT !.step = s] \in Task
           /\ \A d \in Chat : [x EXCEPT !.data = d] \in Task
           /\ \A n \in Nat : [x EXCEPT !.price = n] \in Task
<1>1. DOMAIN x = {"who", "do", "n", "data", "price", "step"}
  BY DEF Task
<1>2. \A s \in {"arrived", "taken", "charge", "panel", "trial"} : [x EXCEPT !.step = s] \in Task
  BY DEF Task
<1>3. \A d \in Chat : [x EXCEPT !.data = d] \in Task
  BY DEF Task
<1>4. \A n \in Nat : [x EXCEPT !.price = n] \in Task
  BY DEF Task
<1> QED BY <1>1, <1>2, <1>3, <1>4

\* And an operation to another status.
LEMMA CardFields ==
    ASSUME NEW x \in Card
    PROVE  /\ DOMAIN x = {"who", "status", "paid"} /\ x.who \in Customers /\ x.paid \in Nat
           /\ x.status \in {"pending", "in_progress", "done", "failed"}
           /\ \A s \in {"pending", "in_progress", "done", "failed"} : [x EXCEPT !.status = s] \in Card
           /\ \A n \in Nat : [x EXCEPT !.paid = n] \in Card
<1>1. DOMAIN x = {"who", "status", "paid"} /\ x.who \in Customers /\ x.paid \in Nat
  BY DEF Card
<1>2. \A s \in {"pending", "in_progress", "done", "failed"} : [x EXCEPT !.status = s] \in Card
  BY DEF Card
<1>3. \A n \in Nat : [x EXCEPT !.paid = n] \in Card
  BY DEF Card
<1>4. x.status \in {"pending", "in_progress", "done", "failed"}
  BY DEF Card
<1> QED BY <1>1, <1>2, <1>3, <1>4

LEMMA QuietIsChat == Quiet \in Chat /\ [Quiet EXCEPT !.at = "cust_support"] \in Chat
BY DEF Quiet, Chat, States

\* The steps of an update at work.
LEMMA TakeIs ==
    ASSUME AllTyped, NEW h \in Tasks, Take(h)
    PROVE  /\ task[h] # None /\ task[h].step = "arrived"
           /\ \E x \in Task : /\ task' = [task EXCEPT ![h] = x] /\ Fit(x, card)
                              /\ x.step = "taken" /\ x.data = chat[Who(h)]
                              /\ x.who = task[h].who /\ x.do = task[h].do /\ x.n = task[h].n
           /\ ChatStep
<1> DEFINE y == [task[h] EXCEPT !.step = "taken"]
           x == [y EXCEPT !.data = chat[Who(h)]]
<1>1. task[h] # None /\ task[h].step = "arrived"
  BY DEF Take
<1>2. task' = [task EXCEPT ![h] = x]
  BY <1>1, TaskIs, TaskFields DEF Take, Who
<1>3. y \in Task /\ y.step = "taken" /\ y.who = task[h].who /\ y.do = task[h].do /\ y.n = task[h].n
  <2>1. task[h] \in Task
    BY <1>1, TaskIs
  <2>2. DOMAIN task[h] = {"who", "do", "n", "data", "price", "step"}
    BY <2>1, TaskFields
  <2>3. y \in Task
    BY <2>1, TaskFields
  <2> QED BY <2>2, <2>3
<1> HIDE DEF y
<1>4. x \in Task /\ x.step = "taken" /\ x.who = task[h].who /\ x.do = task[h].do /\ x.n = task[h].n
      /\ x.data = chat[Who(h)]
  BY <1>1, <1>3, TaskIs, TaskFields
<1> HIDE DEF x
<1>5. Fit(x, card)
  BY <1>1, <1>4, TaskIs DEF Fit
<1>6. ChatStep
  <2> DEFINE c == IF task[h].do \in Clears THEN Quiet ELSE chat[Who(h)]
  <2>1. chat' = [chat EXCEPT ![Who(h)] = c]
    BY <1>1, TaskIs DEF Take, Who
  <2>2. c \in Chat /\ Who(h) \in Customers
    BY <1>1, TaskIs, QuietIsChat
  <2> HIDE DEF c
  <2> QED BY <2>1, <2>2 DEF ChatStep
<1> QED BY <1>1, <1>2, <1>4, <1>5, <1>6

\* A new update has an empty conversation and no price.
LEMMA ArriveIs ==
    ASSUME AllTyped, NEW h \in Tasks, Arrive(h)
    PROVE  /\ task[h] = None
           /\ \E x \in Task : /\ task' = [task EXCEPT ![h] = x] /\ Fit(x, card)
                              /\ x.step \in {"arrived", "taken"} /\ Room(x.who, x.do)
                              /\ x.data = Quiet /\ (x.do \in Reads => x.step = "arrived")
<1>0. PICK i \in world.talkers : \E u \in Taps \cup Labels \cup Messages(chat[i].at) :
            /\ u.do \in world.talk /\ Gates(i, u.do) /\ Room(i, u.do)
            /\ task' = [task EXCEPT ![h] = [who |-> i, do |-> u.do, n |-> u.n, data |-> Quiet, price |-> 0,
                                            step |-> IF u.do \in Reads THEN "arrived" ELSE "taken"]]
  BY DEF Arrive
<1>1. PICK u \in Taps \cup Labels \cup Messages(chat[i].at) :
            /\ u.do \in world.talk /\ Gates(i, u.do) /\ Room(i, u.do)
            /\ task' = [task EXCEPT ![h] = [who |-> i, do |-> u.do, n |-> u.n, data |-> Quiet, price |-> 0,
                                            step |-> IF u.do \in Reads THEN "arrived" ELSE "taken"]]
  BY <1>0
<1>2. i \in Customers
  BY <1>0, CustomersAssumption DEF AllTyped, Typed, TypeOK
<1>3. u.do \in Kinds /\ u.n \in Nat /\ (u.do = "confirm" => u.n \in Cards /\ card[u.n] # None)
  BY <1>1, UpdatesAre
<1> DEFINE step == IF u.do \in Reads THEN "arrived" ELSE "taken"
           x == [who |-> i, do |-> u.do, n |-> u.n, data |-> Quiet, price |-> 0, step |-> step]
<1>4. step \in {"arrived", "taken"} /\ (u.do \in Reads => step = "arrived")
  OBVIOUS
<1>5. task' = [task EXCEPT ![h] = x]
  BY <1>1
<1> HIDE DEF step
<1>6. x \in Task
  BY <1>2, <1>3, <1>4, QuietIsChat DEF Task
<1>7. x.step = step /\ x.who = i /\ x.do = u.do /\ x.n = u.n /\ x.data = Quiet
  OBVIOUS
<1> HIDE DEF x
<1>8. Fit(x, card)
  BY <1>3, <1>4, <1>6, <1>7 DEF Fit
<1> QED BY <1>1, <1>4, <1>5, <1>6, <1>7, <1>8 DEF Arrive

LEMMA TurnsIs ==
    ASSUME AllTyped, NEW h \in Tasks, task[h] # None, NEW c, Turns(h, c),
           Updated(chat[Who(h)], c) \in Chat
    PROVE  ChatStep
BY TaskIs DEF Turns, ChatStep

LEMMA CardSet == ASSUME NEW k, NEW c \in Card, card' = [card EXCEPT ![k] = c] PROVE CardStep
BY DEF CardStep

LEMMA TaskSet == ASSUME NEW h \in Tasks, NEW x, Fit(x, card), task' = [task EXCEPT ![h] = x] PROVE TaskStep
BY DEF TaskStep

LEMMA EndsIs == ASSUME NEW h \in Tasks, Ends(h) PROVE TaskStep
BY DEF Ends, TaskStep

LEMMA SameSteps ==
    ASSUME AllTyped
    PROVE  /\ UNCHANGED chat => ChatStep
           /\ UNCHANGED card => CardStep
           /\ UNCHANGED task => TaskStep
           /\ UNCHANGED <<trials, unreaped, unsure>> => TrialsStep
           /\ UNCHANGED db => Grows(db')
<1>1. UNCHANGED db => Grows(db')
  BY SameGrows DEF AllTyped
<1>2. UNCHANGED <<trials, unreaped, unsure>> => TrialsStep
  BY DEF AllTyped, TalkOK, TalliesOK, TrialsStep
<1> QED BY <1>1, <1>2 DEF ChatStep, CardStep, TaskStep

\* A purchase is charged: the buyer's balance and the operation change together, or nothing does.
LEMMA ChargeIs ==
    ASSUME AllTyped, NEW h \in Tasks, Charge(h)
    PROVE  /\ task[h] # None /\ task[h].step = "charge" /\ db \in Database
           /\ task[h].n \in Cards /\ card[task[h].n] \in Card
           /\ \/ Ends(h) /\ UNCHANGED <<db, card>>
              \/ /\ db.cust[Who(h)].bal + (-task[h].price) >= 0 /\ -task[h].price \in Int
                 /\ db' = Moves(db, Who(h), -task[h].price)
                 /\ \E x \in Task : /\ task' = [task EXCEPT ![h] = x] /\ Fit(x, card) /\ x.step = "panel"
                                    /\ x.who = task[h].who /\ x.do = task[h].do /\ x.n = task[h].n
                 /\ \E c \in Card : /\ card' = [card EXCEPT ![task[h].n] = c]
                                    /\ c.who = card[task[h].n].who
                                    /\ c.status = "in_progress" /\ c.paid = task[h].price
<1>1. task[h] # None /\ task[h].step = "charge"
  BY DEF Charge
<1>2. db \in Database
  BY DEF AllTyped, Typed, TypeOK
<1>3. task[h] \in Task /\ task[h].price \in Nat /\ Who(h) \in Customers /\ task[h].do = "confirm"
  BY <1>1, TaskIs DEF Fit
<1>4. task[h].n \in Cards /\ card[task[h].n] \in Card /\ card \in [Cards -> Card \cup {None}]
  BY <1>1, <1>3, TaskIs
<1>5. CASE Affords(Who(h), task[h].price)
  <2> DEFINE k == task[h].n
             c1 == [card[k] EXCEPT !.status = "in_progress"]
             c2 == [c1 EXCEPT !.paid = task[h].price]
             x == [task[h] EXCEPT !.step = "panel"]
  <2>1. db.cust[Who(h)].bal \in Nat
    BY <1>2, <1>3 DEF Database, Customer
  <2>2. db.cust[Who(h)].bal + (-task[h].price) >= 0 /\ -task[h].price \in Int
    BY <1>3, <1>5, <2>1 DEF Affords
  <2>3. db' = Moves(db, Who(h), -task[h].price)
    BY <1>5 DEF Charge
  <2>4. card' = [card EXCEPT ![k] = c2]
    BY <1>4, <1>5, CardFields DEF Charge
  <2>5. c1 \in Card /\ c1.status = "in_progress" /\ c1.who = card[k].who
    <3>1. DOMAIN card[k] = {"who", "status", "paid"}
      BY <1>4, CardFields
    <3>2. c1 \in Card
      BY <1>4, CardFields
    <3> QED BY <3>1, <3>2
  <2> HIDE DEF c1
  <2>6. c2 \in Card /\ c2.status = "in_progress" /\ c2.who = card[k].who /\ c2.paid = task[h].price
    <3>1. DOMAIN c1 = {"who", "status", "paid"}
      BY <2>5, CardFields
    <3>2. c2 \in Card
      BY <1>3, <2>5, CardFields
    <3> QED BY <2>5, <3>1, <3>2
  <2>7. task' = [task EXCEPT ![h] = x]
    BY <1>5, TaskFields DEF Charge
  <2>8. x \in Task /\ x.step = "panel" /\ x.who = task[h].who /\ x.do = task[h].do /\ x.n = task[h].n
    <3>1. DOMAIN task[h] = {"who", "do", "n", "data", "price", "step"}
      BY <1>3, TaskFields
    <3>2. x \in Task
      BY <1>3, TaskFields
    <3> QED BY <3>1, <3>2
  <2> HIDE DEF x, c2
  <2>9. Fit(x, card)
    BY <1>1, <1>3, <2>8, TaskIs DEF Fit
  <2> QED BY <1>1, <1>2, <1>4, <2>2, <2>3, <2>4, <2>6, <2>7, <2>8, <2>9
<1>6. CASE ~Affords(Who(h), task[h].price)
  BY <1>1, <1>2, <1>4, <1>6 DEF Charge
<1> QED BY <1>5, <1>6

\* An operation is settled: done, or failed with the money given back.
LEMMA SettlesIs ==
    ASSUME AllTyped, NEW k \in Cards, card[k] \in Card, Settles(k)
    PROVE  /\ db \in Database
           /\ \/ /\ db' = db
                 /\ \E c \in Card : /\ card' = [card EXCEPT ![k] = c] /\ c.who = card[k].who
                                    /\ c.status = "done" /\ c.paid = card[k].paid
              \/ /\ db.cust[card[k].who].bal + card[k].paid >= 0 /\ card[k].paid \in Int
                 /\ card[k].who \in Customers
                 /\ db' = Moves(db, card[k].who, card[k].paid)
                 /\ \E c \in Card : /\ card' = [card EXCEPT ![k] = c] /\ c.who = card[k].who
                                    /\ c.status = "failed" /\ c.paid = 0
<1> DEFINE done == [card[k] EXCEPT !.status = "done"]
           lost == [card[k] EXCEPT !.status = "failed"]
           back == [lost EXCEPT !.paid = 0]
<1>1. db \in Database /\ card[k].who \in Customers /\ card[k].paid \in Nat
  BY CardFields DEF AllTyped, Typed, TypeOK
<1>2. db.cust[card[k].who].bal \in Nat
  BY <1>1 DEF Database, Customer
<1>3. DOMAIN card[k] = {"who", "status", "paid"}
  BY CardFields
<1>4. done \in Card /\ done.status = "done" /\ done.who = card[k].who /\ done.paid = card[k].paid
  <2>1. done \in Card
    BY CardFields
  <2> QED BY <1>3, <2>1
<1>5. lost \in Card /\ lost.status = "failed" /\ lost.who = card[k].who
  <2>1. lost \in Card
    BY CardFields
  <2> QED BY <1>3, <2>1
<1>6. card \in [Cards -> Card \cup {None}]
  BY DEF AllTyped, TalkOK
<1>7. \/ card' = [card EXCEPT ![k] = done] /\ db' = db
      \/ card' = [card EXCEPT ![k] = back] /\ db' = Moves(db, card[k].who, card[k].paid)
  BY <1>6, CardFields DEF Settles
<1> HIDE DEF lost, done
<1>8. back \in Card /\ back.status = "failed" /\ back.who = card[k].who /\ back.paid = 0
  <2>1. back \in Card
    BY <1>5, CardFields
  <2>2. DOMAIN lost = {"who", "status", "paid"}
    BY <1>5, CardFields
  <2> QED BY <1>5, <2>1, <2>2
<1> HIDE DEF back
<1> QED BY <1>1, <1>2, <1>4, <1>7, <1>8

\* A proof of payment is a new top-up, or one that was sent before.
LEMMA ProofIs ==
    ASSUME AllTyped, NEW h \in Tasks, Proof(h)
    PROVE  /\ task[h] # None /\ task[h].do = "proof" /\ db \in Database
           /\ \/ db' = db
              \/ \E row \in SomeTopup :
                    /\ row.status = "pending"
                    /\ db' = [db EXCEPT !.topup = [db.topup EXCEPT ![Min(NewTopups(Who(h)))] = row]]
<1>1. task[h] # None /\ task[h].do = "proof"
  BY DEF Proof, Handles
<1>2. db \in Database
  BY DEF AllTyped, Typed, TypeOK
<1>3. task[h].data \in Chat /\ task[h].n \in Nat
  BY <1>1, TaskIs
<1> DEFINE d == task[h].data
           x == Deposit(d.crypto, task[h].n)
           row == [status |-> "pending", amount |-> d.amount, code |-> d.code, crypto |-> d.crypto, txid |-> x]
<1>4. x \in Nat
  BY <1>3 DEF Deposit
<1>5. db' = db \/ db' = [db EXCEPT !.topup = [db.topup EXCEPT ![Min(NewTopups(Who(h)))] = row]]
  BY <1>2 DEF Proof, Database
<1>6. d.amount \in Nat /\ d.code \in BOOLEAN /\ d.crypto \in BOOLEAN
  BY <1>3 DEF Chat
<1> HIDE DEF d, x
<1>7. row \in SomeTopup /\ row.status = "pending"
  BY <1>4, <1>6 DEF SomeTopup
<1> HIDE DEF row
<1> QED BY <1>1, <1>2, <1>5, <1>7

LEMMA ProofGrows ==
    ASSUME AllTyped, NEW h \in Tasks, Proof(h)
    PROVE  Grows(db')
<1>1. db \in Database /\ \A row \in SomeTopup : row # None
  BY NoneShopAssumption DEF AllTyped, Typed, TypeOK
<1>2. CASE db' = db
  BY <1>1, <1>2 DEF Grows
<1>3. ASSUME NEW t, NEW row \in SomeTopup, db' = [db EXCEPT !.topup = [db.topup EXCEPT ![t] = row]]
      PROVE  Grows(db')
  <2> DEFINE T == [db.topup EXCEPT ![t] = row]
  <2>1. db.topup \in [Topups -> Topup]
    BY <1>1 DEF Database
  <2>2. T \in [Topups -> Topup] /\ \A u \in Topups : db.topup[u] # None => T[u] # None
    BY <1>1, <2>1 DEF Topup
  <2> HIDE DEF T
  <2>3. db' = [db EXCEPT !.topup = T]
    BY <1>3 DEF T
  <2> QED BY <1>1, <2>2, <2>3 DEF Grows, Database
<1> QED BY <1>2, <1>3, ProofIs

\* A gift code is redeemed as the database says, or refused.
LEMMA GiftIs ==
    ASSUME AllTyped, NEW h \in Tasks, Gift(h)
    PROVE  /\ task[h] # None /\ Who(h) \in Customers /\ db \in Database
           /\ \/ db' = db
              \/ Redeemable(db, Who(h), 0) /\ db.code # None /\ db' = Redeem(db, Who(h))
<1>1. task[h] # None
  BY DEF Gift, Handles
<1> QED BY <1>1, TaskIs DEF Gift, Redeemable, AllTyped, Typed, TypeOK

\* The trial flag of a customer.
TrialSet(d, i, b) == [d EXCEPT !.cust = [d.cust EXCEPT ![i] = [d.cust[i] EXCEPT !.trial = b]]]
LEMMA TrialSetIs ==
    ASSUME NEW d \in Database, NEW i \in Customers, NEW b \in BOOLEAN
    PROVE  LET to == TrialSet(d, i, b)
           IN /\ to \in Database /\ to.cust[i].trial = b /\ to.cust[i].bal = d.cust[i].bal
              /\ \A j \in Customers \ {i} : to.cust[j] = d.cust[j]
              /\ \A j \in Customers : to.cust[j].bal = d.cust[j].bal
              /\ to.shop = d.shop /\ to.plan = d.plan /\ to.topup = d.topup /\ to.code = d.code
              /\ to.order = d.order /\ to.cost = d.cost /\ to.ledger = d.ledger /\ to.uses = d.uses
<1> DEFINE row == [d.cust[i] EXCEPT !.trial = b]
           C == [d.cust EXCEPT ![i] = row]
<1>1. d.cust \in [Customers -> Customer]
  BY DEF Database
<1>2. row \in Customer /\ row.trial = b /\ row.bal = d.cust[i].bal
  BY <1>1 DEF Customer
<1> HIDE DEF row
<1>3. C \in [Customers -> Customer] /\ C[i] = row /\ \A j \in Customers \ {i} : C[j] = d.cust[j]
  BY <1>1, <1>2
<1> HIDE DEF C
<1>4. TrialSet(d, i, b) = [d EXCEPT !.cust = C]
  BY DEF TrialSet, C, row
<1>5. [d EXCEPT !.cust = C] \in Database /\ [d EXCEPT !.cust = C].cust = C
  BY <1>3 DEF Database
<1>6. /\ [d EXCEPT !.cust = C].shop = d.shop /\ [d EXCEPT !.cust = C].plan = d.plan
      /\ [d EXCEPT !.cust = C].topup = d.topup /\ [d EXCEPT !.cust = C].code = d.code
      /\ [d EXCEPT !.cust = C].order = d.order /\ [d EXCEPT !.cust = C].cost = d.cost
      /\ [d EXCEPT !.cust = C].ledger = d.ledger /\ [d EXCEPT !.cust = C].uses = d.uses
  BY DEF Database
<1> QED BY <1>2, <1>3, <1>4, <1>5, <1>6

\* A claimed trial raises the flag before the panel is asked.
LEMMA ClaimTrialIs ==
    ASSUME AllTyped, NEW h \in Tasks, ClaimTrial(h)
    PROVE  /\ task[h] # None /\ task[h].do = "trial" /\ task[h].step = "taken" /\ ~Serving(Who(h)) /\ db \in Database
           /\ ChatStep /\ Who(h) \in Customers
           /\ \/ Ends(h) /\ UNCHANGED db
              \/ /\ ~db.cust[Who(h)].trial
                 /\ db' = TrialSet(db, Who(h), TRUE)
                 /\ \E x \in Task : /\ task' = [task EXCEPT ![h] = x] /\ Fit(x, card) /\ x.step = "trial"
                                    /\ x.who = task[h].who /\ x.do = task[h].do /\ x.n = task[h].n
<1>1. task[h] # None /\ task[h].do = "trial" /\ task[h].step = "taken" /\ ~Serving(Who(h))
  BY DEF ClaimTrial, Handles
<1>2. db \in Database /\ Who(h) \in Customers /\ task[h] \in Task
  BY <1>1, TaskIs DEF AllTyped, Typed, TypeOK
<1>3. ChatStep
  BY <1>1, TaskIs, QuietIsChat DEF ClaimTrial, ChatStep
<1>4. DOMAIN task[h] = {"who", "do", "n", "data", "price", "step"}
  BY <1>2, TaskFields
<1> DEFINE x == [task[h] EXCEPT !.step = "trial"]
<1>5. x \in Task
  BY <1>2, TaskFields
<1>6. x.step = "trial" /\ x.who = task[h].who /\ x.do = task[h].do /\ x.n = task[h].n
  BY <1>4
<1>7. Fit(x, card)
  BY <1>1, <1>5, <1>6 DEF Fit
<1>8. CASE ~db.cust[Who(h)].trial /\ db' = Unclaimed(Who(h), TRUE) /\ task' = [task EXCEPT ![h].step = "trial"]
  <2>1. db' = TrialSet(db, Who(h), TRUE)
    BY <1>2, <1>8 DEF Unclaimed, TrialSet, Database
  <2>2. task' = [task EXCEPT ![h] = x]
    BY <1>8
  <2> HIDE DEF x
  <2> QED BY <1>1, <1>2, <1>3, <1>5, <1>6, <1>7, <1>8, <2>1, <2>2
<1>9. CASE Ends(h) /\ UNCHANGED db
  BY <1>1, <1>2, <1>3, <1>9
<1> QED BY <1>8, <1>9 DEF ClaimTrial

\* A trial is made, or the flag is lowered again, or both; and no more than three counts move.
TrialAnswered(d, i) ==
    \/ d = db /\ trials' = [trials EXCEPT ![i] = trials[i] + 1] /\ unsure' = unsure
    \/ d = TrialSet(db, i, FALSE) /\ trials' = trials /\ unsure' = unsure
    \/ /\ d = TrialSet(db, i, FALSE)
       /\ trials' = [trials EXCEPT ![i] = trials[i] + 1] /\ unsure' = [unsure EXCEPT ![i] = unsure[i] + 1]
LEMMA AnswersAre ==
    ASSUME AllTyped, NEW i \in Customers, TrialAnswers(i)
    PROVE  /\ TrialAnswered(db', i)
           /\ trials' \in [Customers -> Nat] /\ unsure' \in [Customers -> Nat]
<1>1. db \in Database /\ trials \in [Customers -> Nat] /\ unsure \in [Customers -> Nat]
  BY DEF AllTyped, Typed, TypeOK, TalkOK, TalliesOK
<1>2. TrialAnswered(db', i)
  BY <1>1 DEF TrialAnswers, TrialAnswered, TrialSet, Database
<1>3. \A f \in [Customers -> Nat] : f \in [Customers -> Nat] /\ [f EXCEPT ![i] = f[i] + 1] \in [Customers -> Nat]
  OBVIOUS
<1>4. /\ trials' = trials \/ trials' = [trials EXCEPT ![i] = trials[i] + 1]
      /\ unsure' = unsure \/ unsure' = [unsure EXCEPT ![i] = unsure[i] + 1]
  BY <1>2 DEF TrialAnswered
<1>5. trials' \in [Customers -> Nat] /\ unsure' \in [Customers -> Nat]
  BY <1>1, <1>3, <1>4
<1> QED BY <1>2, <1>5

LEMMA GiveTrialIs ==
    ASSUME AllTyped, NEW h \in Tasks, GiveTrial(h)
    PROVE  /\ task[h] # None /\ task[h].step = "trial" /\ db \in Database /\ Who(h) \in Customers
           /\ TrialAnswered(db', Who(h)) /\ TrialsStep /\ unreaped' = unreaped
<1>1. task[h] # None /\ task[h].step = "trial" /\ TrialAnswers(Who(h)) /\ unreaped' = unreaped
  BY DEF GiveTrial
<1>2. db \in Database /\ Who(h) \in Customers /\ unreaped \in [Customers -> Nat]
  BY <1>1, TaskIs DEF AllTyped, Typed, TypeOK, TalkOK, TalliesOK
<1> QED BY <1>1, <1>2, AnswersAre DEF TrialsStep, TalliesOK

LEMMA ReapTrialIs ==
    ASSUME AllTyped, NEW i \in Customers, ReapTrial(i)
    PROVE  /\ unreaped[i] > 0 /\ unreaped' = [unreaped EXCEPT ![i] = unreaped[i] - 1]
           /\ TrialAnswered(db', i) /\ TrialsStep
           /\ UNCHANGED <<shopRest, chat, task, card, heard, outside>>
<1>1. unreaped \in [Customers -> Nat] /\ unreaped[i] > 0 /\ unreaped' = [unreaped EXCEPT ![i] = unreaped[i] - 1] /\ TrialAnswers(i)
  BY DEF ReapTrial, AllTyped, TalkOK, TalliesOK
<1>2. unreaped' \in [Customers -> Nat]
  BY <1>1
<1> QED BY <1>1, <1>2, AnswersAre DEF ReapTrial, TrialsStep, TalliesOK

\* A name writes the operation that its button will confirm.
LEMMA NameIs ==
    ASSUME AllTyped, NEW h \in Tasks, Name(h)
    PROVE  /\ task[h] # None /\ task[h].do = "name" /\ task[h].step = "taken" /\ Who(h) \in Customers
           /\ ChatStep
           /\ \/ card' = card
              \/ \E c \in Card : /\ card' = [card EXCEPT ![Min(NewCards)] = c]
                                 /\ c.who = Who(h) /\ c.status = "pending" /\ c.paid = 0
<1>1. task[h] # None /\ task[h].do = "name" /\ task[h].step = "taken"
  BY DEF Name, Handles
<1>2. Who(h) \in Customers
  BY <1>1, TaskIs
<1>3. ChatStep
  BY <1>1, TaskIs, QuietIsChat DEF Name, ChatStep
<1> DEFINE c == [who |-> Who(h), status |-> "pending", paid |-> 0]
<1>4. card' = card \/ card' = [card EXCEPT ![Min(NewCards)] = c]
  BY DEF Name
<1>5. c \in Card /\ c.who = Who(h) /\ c.status = "pending" /\ c.paid = 0
  BY <1>2 DEF Card
<1> HIDE DEF c
<1> QED BY <1>1, <1>2, <1>3, <1>4, <1>5

\* A confirmation ends, fails its operation or goes on to charge its buyer.
LEMMA ConfirmIs ==
    ASSUME AllTyped, NEW h \in Tasks, Confirm(h)
    PROVE  /\ task[h] # None /\ task[h].do = "confirm" /\ task[h].step = "taken" /\ ~Serving(Who(h))
           /\ task[h].n \in Cards /\ card[task[h].n] \in Card
           /\ \/ Ends(h) /\ UNCHANGED card
              \/ /\ Ends(h) /\ Claimable(h, task[h].n)
                 /\ \E c \in Card : /\ card' = [card EXCEPT ![task[h].n] = c]
                                    /\ c.who = card[task[h].n].who /\ c.status = "failed"
                                    /\ c.paid = card[task[h].n].paid
              \/ /\ Claimable(h, task[h].n) /\ UNCHANGED card
                 /\ \E x \in Task : /\ task' = [task EXCEPT ![h] = x] /\ Fit(x, card) /\ x.step = "charge"
                                    /\ x.who = task[h].who /\ x.do = task[h].do /\ x.n = task[h].n
<1>1. task[h] # None /\ task[h].do = "confirm" /\ task[h].step = "taken" /\ ~Serving(Who(h))
  BY DEF Confirm, Handles
<1>2. /\ task[h].n \in Cards /\ card[task[h].n] \in Card /\ card \in [Cards -> Card \cup {None}]
      /\ db \in Database /\ task[h] \in Task
  BY <1>1, TaskIs DEF AllTyped, Typed, TypeOK
<1> DEFINE k == task[h].n
           p == task[h].data.plan
           c == [card[k] EXCEPT !.status = "failed"]
<1>3. c \in Card /\ c.who = card[k].who /\ c.status = "failed" /\ c.paid = card[k].paid
  <2>1. c \in Card
    BY <1>2, CardFields
  <2>2. DOMAIN card[k] = {"who", "status", "paid"}
    BY <1>2, CardFields
  <2> QED BY <2>1, <2>2
<1>4. CASE Ends(h) /\ UNCHANGED card
  BY <1>1, <1>2, <1>4
<1>5. CASE Claimable(h, k) /\ card' = [card EXCEPT ![k].status = "failed"] /\ Ends(h)
  <2>1. card' = [card EXCEPT ![k] = c]
    BY <1>5
  <2> HIDE DEF c
  <2> QED BY <1>1, <1>2, <1>3, <1>5, <2>1
<1>6. CASE /\ Claimable(h, k) /\ Offers(p) /\ UNCHANGED card
           /\ task' = [task EXCEPT ![h].step = "charge", ![h].price = db.plan[p].price]
  <2> DEFINE y == [task[h] EXCEPT !.step = "charge"]
             x == [y EXCEPT !.price = db.plan[p].price]
  <2>1. p \in Plans /\ db.plan[p] \in SomePlan
    BY <1>2, <1>6 DEF Offers, OnSale, Listed, Database, Plan
  <2>2. db.plan[p].price \in Nat
    BY <2>1 DEF SomePlan
  <2>3. task' = [task EXCEPT ![h] = x]
    BY <1>2, <1>6, TaskFields
  <2>4. y \in Task /\ y.step = "charge" /\ y.who = task[h].who /\ y.do = task[h].do /\ y.n = task[h].n
    <3>1. DOMAIN task[h] = {"who", "do", "n", "data", "price", "step"}
      BY <1>2, TaskFields
    <3>2. y \in Task
      BY <1>2, TaskFields
    <3> QED BY <3>1, <3>2
  <2> HIDE DEF y
  <2>5. x \in Task /\ x.step = "charge" /\ x.who = task[h].who /\ x.do = task[h].do /\ x.n = task[h].n
    <3>1. DOMAIN y = {"who", "do", "n", "data", "price", "step"}
      BY <2>4, TaskFields
    <3>2. x \in Task
      BY <2>2, <2>4, TaskFields
    <3> QED BY <2>4, <3>1, <3>2
  <2> HIDE DEF x
  <2>6. Fit(x, card)
    BY <1>1, <2>5, TaskIs DEF Fit
  <2> QED BY <1>1, <1>2, <1>6, <2>3, <2>5, <2>6
<1> QED
  <2> HIDE DEF c
  <2> QED BY <1>4, <1>5, <1>6 DEF Confirm

LEMMA MovesGrows ==
    ASSUME AllTyped, NEW i \in Customers, NEW n \in Int, db.cust[i].bal + n >= 0, db' = Moves(db, i, n)
    PROVE  Grows(db')
<1>1. db \in Database
  BY DEF AllTyped, Typed, TypeOK
<1>2. db' \in Database /\ db'.topup = db.topup
  BY <1>1, MovesIs
<1> QED BY <1>2 DEF Grows

\* Every update of a customer changes the variables in the ways listed.
CustomerSteps(h) ==
    \/ Arrive(h) \/ Take(h) \/ Buy(h) \/ Name(h) \/ Confirm(h) \/ Charge(h) \/ Provision(h)
    \/ StartTopup(h) \/ Amount(h) \/ AskCode(h) \/ NoCode(h) \/ EnterCode(h) \/ Method(h) \/ Proof(h)
    \/ AskGift(h) \/ Gift(h) \/ Locks(h) \/ ClaimTrial(h) \/ GiveTrial(h) \/ Support(h) \/ Over(h)
LEMMA TaskSteps ==
    ASSUME AllTyped, NEW h \in Tasks, CustomerSteps(h)
    PROVE  TalkStep /\ UNCHANGED shopRest
<1> DEFINE Turning == Buy(h) \/ StartTopup(h) \/ Amount(h) \/ AskCode(h) \/ NoCode(h) \/ EnterCode(h) \/ Method(h)
                      \/ AskGift(h) \/ Locks(h) \/ Support(h) \/ Over(h)
<1>0. chat \in [Customers -> Chat] /\ db \in Database
  BY DEF AllTyped, TalkOK, Typed, TypeOK
<1>1. ASSUME Arrive(h) PROVE TalkStep /\ UNCHANGED shopRest
  <2>1. TaskStep
    BY <1>1, ArriveIs DEF TaskStep
  <2> QED BY <1>1, <2>1, SameSteps DEF Arrive, TalkStep
<1>2. ASSUME Take(h) PROVE TalkStep /\ UNCHANGED shopRest
  <2>1. TaskStep /\ ChatStep
    BY <1>2, TakeIs DEF TaskStep
  <2> QED BY <1>2, <2>1, SameSteps DEF Take, TalkStep
<1>3. ASSUME Turning PROVE TalkStep /\ UNCHANGED shopRest
  <2>1. task[h] # None /\ Ends(h) /\ Silent
    BY <1>3 DEF Buy, StartTopup, Amount, AskCode, NoCode, EnterCode, Method, AskGift, Locks, Support, Over, Handles
  <2>2. chat[Who(h)] \in Chat /\ Who(h) \in Customers
    BY <2>1, TaskIs
  <2>3. ChatStep
    <3>1. CASE UNCHANGED chat
      BY <3>1, SameSteps
    <3>2. CASE Buy(h)
      <4>1. ASSUME Offers(task[h].n), Turns(h, [at |-> "buy_name", plan |-> task[h].n]) PROVE ChatStep
        <5>1. task[h].n \in Plans
          BY <4>1 DEF Offers, OnSale, Listed
        <5>2. Updated(chat[Who(h)], [at |-> "buy_name", plan |-> task[h].n]) \in Chat
          BY <2>2, <5>1, ChatUpdates
        <5> QED BY <2>1, <4>1, <5>2, TurnsIs
      <4> QED BY <3>1, <3>2, <4>1 DEF Buy
    <3>3. ASSUME NEW at \in States, Turns(h, [at |-> at]) PROVE ChatStep
      <4>1. Updated(chat[Who(h)], [at |-> at]) \in Chat
        BY <2>2, <3>3, ChatUpdates
      <4> QED BY <2>1, <3>3, <4>1, TurnsIs
    <3>4. {"topup_amount", "topup_code", "topup_choice", "gift_code"} \subseteq States
      BY DEF States
    <3>5. CASE StartTopup(h) \/ AskCode(h) \/ NoCode(h) \/ AskGift(h)
      BY <3>1, <3>3, <3>4, <3>5 DEF StartTopup, AskCode, NoCode, AskGift
    <3>6. CASE Amount(h)
      <4>1. task[h].n \in Nat
        BY <2>1, TaskIs
      <4>2. Updated(chat[Who(h)], [at |-> "topup_choice", amount |-> task[h].n, code |-> FALSE]) \in Chat
        BY <2>2, <4>1, ChatUpdates
      <4> QED BY <2>1, <3>6, <4>2, TurnsIs DEF Amount
    <3>7. CASE EnterCode(h)
      <4>1. Updated(chat[Who(h)], [at |-> "topup_choice", code |-> TRUE]) \in Chat
        BY <2>2, ChatUpdates
      <4> QED BY <2>1, <3>1, <3>7, <4>1, TurnsIs DEF EnterCode
    <3>8. CASE Method(h)
      <4> DEFINE crypto == task[h].do = "usdt"
      <4>1. crypto \in BOOLEAN
        OBVIOUS
      <4> HIDE DEF crypto
      <4>2. Updated(chat[Who(h)], [at |-> "topup_proof", crypto |-> crypto]) \in Chat
        BY <2>2, <4>1, ChatUpdates
      <4>3. Turns(h, [at |-> "topup_proof", crypto |-> crypto])
        BY <3>8 DEF Method, crypto
      <4> QED BY <2>1, <4>2, <4>3, TurnsIs
    <3>9. CASE Support(h)
      BY <2>2, <3>9, QuietIsChat DEF Support, ChatStep
    <3>10. CASE Locks(h) \/ Over(h)
      BY <3>1, <3>10 DEF Locks, Over
    <3> QED BY <1>3, <3>2, <3>5, <3>6, <3>7, <3>8, <3>9, <3>10
  <2> QED BY <2>1, <2>3, EndsIs, SameSteps DEF Silent, TalkStep
<1>4. ASSUME Name(h) PROVE TalkStep /\ UNCHANGED shopRest
  <2>1. CardStep
    <3>1. card' = card \/ \E c \in Card : card' = [card EXCEPT ![Min(NewCards)] = c]
      BY <1>4, NameIs
    <3> QED BY <3>1, CardSet, SameSteps
  <2>2. ChatStep /\ TaskStep
    BY <1>4, NameIs, EndsIs DEF Name
  <2> QED BY <1>4, <2>1, <2>2, SameSteps DEF Name, TalkStep
<1>5. ASSUME Confirm(h) PROVE TalkStep /\ UNCHANGED shopRest
  <2>1. CardStep
    <3>1. card' = card \/ \E c \in Card : card' = [card EXCEPT ![task[h].n] = c]
      BY <1>5, ConfirmIs
    <3> QED BY <3>1, CardSet, SameSteps
  <2>2. TaskStep
    BY <1>5, ConfirmIs, EndsIs, TaskSet
  <2> QED BY <1>5, <2>1, <2>2, SameSteps DEF Confirm, TalkStep
<1>6. ASSUME Charge(h) PROVE TalkStep /\ UNCHANGED shopRest
  <2>1. CardStep
    <3>1. card' = card \/ \E c \in Card : card' = [card EXCEPT ![task[h].n] = c]
      BY <1>6, ChargeIs
    <3> QED BY <3>1, CardSet, SameSteps
  <2>2. TaskStep
    BY <1>6, ChargeIs, EndsIs, TaskSet
  <2>3. Grows(db')
    <3>1. Who(h) \in Customers
      BY <1>6, ChargeIs, TaskIs
    <3> QED BY <1>6, <3>1, ChargeIs, MovesGrows, SameSteps
  <2> QED BY <1>6, <2>1, <2>2, <2>3, SameSteps DEF Charge, TalkStep
<1>7. ASSUME Provision(h) PROVE TalkStep /\ UNCHANGED shopRest
  <2>1. task[h] # None /\ task[h].step = "panel" /\ Settles(task[h].n) /\ Ends(h)
    BY <1>7 DEF Provision
  <2>2. task[h].n \in Cards /\ card[task[h].n] \in Card
    BY <2>1, TaskIs DEF Fit
  <2>3. CardStep
    BY <2>1, <2>2, SettlesIs, CardSet
  <2>4. Grows(db')
    BY <2>1, <2>2, SettlesIs, MovesGrows, SameSteps
  <2> QED BY <1>7, <2>1, <2>3, <2>4, EndsIs, SameSteps DEF Provision, TalkStep
<1>8. ASSUME Proof(h) PROVE TalkStep /\ UNCHANGED shopRest
  BY <1>8, ProofGrows, EndsIs, SameSteps DEF Proof, TalkStep
<1>9. ASSUME Gift(h) PROVE TalkStep /\ UNCHANGED shopRest
  <2>1. Grows(db')
    <3>1. CASE db' = db
      BY <3>1, SameSteps
    <3>2. CASE db' # db
      <4>1. db.code # None /\ db' = Redeem(db, Who(h)) /\ Who(h) \in Customers
        BY <1>9, <3>2, GiftIs
      <4>2. db' \in Database /\ db'.topup = db.topup
        BY <1>0, <4>1, RedeemIs
      <4> QED BY <4>2 DEF Grows
    <3> QED BY <3>1, <3>2
  <2> QED BY <1>9, <2>1, EndsIs, SameSteps DEF Gift, TalkStep
<1>10. ASSUME NEW i \in Customers, NEW b \in BOOLEAN, db' = TrialSet(db, i, b) PROVE Grows(db')
  <2>1. db' \in Database /\ db'.topup = db.topup
    BY <1>0, <1>10, TrialSetIs
  <2> QED BY <2>1 DEF Grows
<1>11. ASSUME ClaimTrial(h) PROVE TalkStep /\ UNCHANGED shopRest
  <2>1. ChatStep /\ TaskStep
    BY <1>11, ClaimTrialIs, EndsIs, TaskSet
  <2>2. Grows(db')
    BY <1>10, <1>11, ClaimTrialIs, SameSteps
  <2> QED BY <1>11, <2>1, <2>2, SameSteps DEF ClaimTrial, TalkStep
<1>12. ASSUME GiveTrial(h) PROVE TalkStep /\ UNCHANGED shopRest
  <2>1. TrialsStep
    BY <1>12, GiveTrialIs
  <2>2. Grows(db')
    BY <1>10, <1>12, GiveTrialIs, SameSteps DEF TrialAnswered
  <2> QED BY <1>12, <2>1, <2>2, EndsIs, SameSteps DEF GiveTrial, TalkStep
<1> QED
  BY <1>1, <1>2, <1>3, <1>4, <1>5, <1>6, <1>7, <1>8, <1>9, <1>11, <1>12 DEF CustomerSteps

\* Steps of the customers leave the administrators' requests alone.
LEMMA TalkIsAny ==
    ASSUME Typed, Grows(db'), UNCHANGED shopRest
    PROVE  AnyStep
<1>1. keys' = keys /\ req' = req /\ asked' = asked /\ sends' = sends /\ sweep' = sweep /\ world' = world
      /\ did' = did /\ calls' = calls
  BY DEF shopRest, history
<1>2. KeysStep /\ ReqStep /\ AskedStep /\ CountsStep
  BY <1>1 DEF KeysStep, ReqStep, AskedStep, CountsStep
<1>3. SweepOK' /\ sends' <= MaxSends
  BY <1>1, BoundsAssumption DEF Typed, TypeOK, SweepOK
<1> QED BY <1>1, <1>2, <1>3 DEF AnyStep

LEMMA QuietTypes ==
    ASSUME AllTyped, UNCHANGED talking
    PROVE  TalkOK'
BY DEF AllTyped, TalkOK, TalliesOK, talking

LEMMA ReapCardIs ==
    ASSUME AllTyped, NEW c \in Cards, ReapCard(c)
    PROVE  /\ card[c] \in Card /\ card[c].status = "in_progress" /\ Settles(c) /\ CardStep /\ Grows(db')
           /\ \A h \in Tasks : task[h] # None /\ task[h].step = "panel" => task[h].n # c
           /\ UNCHANGED <<shopRest, chat, task, trials, unreaped, unsure, heard, outside>>
<1>1. card[c] \in Card /\ card[c].status = "in_progress"
  BY DEF ReapCard, AllTyped, TalkOK
<1>2. Settles(c) /\ UNCHANGED <<shopRest, chat, task, trials, unreaped, unsure, heard, outside>>
  BY DEF ReapCard
<1>3. CardStep
  BY <1>1, <1>2, SettlesIs, CardSet
<1>4. Grows(db')
  BY <1>1, <1>2, SettlesIs, MovesGrows, SameSteps
<1> QED BY <1>1, <1>2, <1>3, <1>4 DEF ReapCard

\* After a restart no conversation and no update is unreaped, and the trials asked for are open.
LEMMA RestartIs ==
    ASSUME AllTyped, Restart
    PROVE  /\ TalkOK' /\ \A h \in Tasks : task'[h] = None
           /\ \A i \in Customers : unreaped'[i] = IF AsksTrial(i) THEN unreaped[i] + 1 ELSE unreaped[i]
           /\ UNCHANGED <<db, shopRest, card, trials, unsure, heard, outside>>
<1>1. chat' \in [Customers -> Chat]
  BY QuietIsChat DEF Restart
<1>2. task' \in [Tasks -> Task \cup {None}] /\ DOMAIN task' = Tasks /\ \A h \in Tasks : task'[h] = None
  BY DEF Restart
<1>3. UNCHANGED <<db, shopRest, card, trials, unsure, heard, outside>>
  BY DEF Restart
<1>4. unreaped' = [i \in Customers |-> IF AsksTrial(i) THEN unreaped[i] + 1 ELSE unreaped[i]]
  BY DEF Restart
<1>5. unreaped \in [Customers -> Nat]
  BY DEF AllTyped, TalkOK, TalliesOK
<1>6. unreaped' \in [Customers -> Nat]
  BY <1>4, <1>5
<1>7. TalliesOK'
  BY <1>3, <1>6 DEF AllTyped, TalkOK, TalliesOK
<1> QED BY <1>1, <1>2, <1>3, <1>4, <1>7 DEF AllTyped, TalkOK

LEMMA AllTypedKept ==
    ASSUME AllTyped, [CustomersNext]_allVars
    PROVE  AllTyped'
<1>1. Typed
  BY DEF AllTyped
<1>2. ASSUME TalkStep, UNCHANGED shopRest PROVE AllTyped'
  <2>1. TalkOK'
    BY <1>2, TalkKept
  <2>2. Typed'
    BY <1>1, <1>2, TalkIsAny, TypedKept DEF TalkStep
  <2> QED BY <2>1, <2>2 DEF AllTyped
<1>3. ASSUME Next, UNCHANGED talking PROVE AllTyped'
  BY <1>1, <1>3, AdminSteps, TypedKept, QuietTypes DEF AllTyped
<1>4. ASSUME NEW h \in Tasks, CustomerSteps(h) PROVE AllTyped'
  BY <1>2, <1>4, TaskSteps
<1>5. ASSUME NEW c \in Cards, ReapCard(c) PROVE AllTyped'
  BY <1>2, <1>5, ReapCardIs, SameSteps DEF TalkStep
<1>6. ASSUME Restart PROVE AllTyped'
  <2>1. TalkOK' /\ Grows(db') /\ UNCHANGED shopRest
    BY <1>6, RestartIs, SameSteps
  <2> QED BY <1>1, <2>1, TalkIsAny, TypedKept DEF AllTyped
<1>7. ASSUME UNCHANGED <<db, shopRest, chat, task, card, trials, unreaped, unsure, heard>> PROVE AllTyped'
  BY <1>2, <1>7, SameSteps DEF TalkStep
<1>8. ASSUME UNCHANGED allVars PROVE AllTyped'
  BY <1>7, <1>8 DEF allVars, vars, talking, shopRest
<1>9. ASSUME NEW i \in Customers, ReapTrial(i) PROVE AllTyped'
  <2>1. db \in Database
    BY <1>1 DEF Typed, TypeOK
  <2>2. Grows(db')
    <3>1. ASSUME NEW b \in BOOLEAN, db' = TrialSet(db, i, b) PROVE Grows(db')
      <4>1. db' \in Database /\ db'.topup = db.topup
        BY <2>1, <3>1, TrialSetIs
      <4> QED BY <4>1 DEF Grows
    <3> QED BY <1>9, <3>1, ReapTrialIs, SameSteps DEF TrialAnswered
  <2> QED BY <1>2, <1>9, <2>2, ReapTrialIs, SameSteps DEF TalkStep
<1> QED
  <2>1. CASE CustomersNext
    BY <1>3, <1>4, <1>5, <1>6, <1>7, <1>9, <2>1 DEF CustomersNext, CustomerSteps, Suspend, JoinOrLeave
  <2> QED BY <1>8, <2>1

LEMMA AllTypedAtFirst == CustomersInit => AllTyped
<1> SUFFICES ASSUME CustomersInit PROVE AllTyped
  OBVIOUS
<1>1. Typed
  BY TypedAtFirst DEF CustomersInit
<1>2. TalkOK
  <2>1. TalliesOK
    BY DEF CustomersInit, TalliesOK
  <2> QED BY <2>1, QuietIsChat DEF CustomersInit, TalkOK
<1> QED BY <1>1, <1>2 DEF AllTyped

LEMMA AlwaysAllTyped == CustomersSpec => []AllTyped
<1>1. AllTyped /\ [CustomersNext]_allVars => AllTyped'
  BY AllTypedKept
<1> QED BY AllTypedAtFirst, <1>1, PTL DEF CustomersSpec

\* Whatever administrators, sweeps and customers do at once, and whatever crashes between
\* two of their steps, every row, key, request and conversation stays what its type says:
\* no balance is negative, and what a stale session writes is a row (_execute, _cas).
THEOREM TypesHold == CustomersSpec => []CustomersTypeOK
<1>1. AllTyped => CustomersTypeOK
  BY DEF AllTyped, Typed, TalkOK, TalliesOK, CustomersTypeOK
<1> QED BY <1>1, AlwaysAllTyped, PTL

-----------------------------------------------------------------------------
(* One purchase or trial of a customer at a time.                          *)

Serves(h) == task[h] # None /\ task[h].step \in {"charge", "panel", "trial"}
OneServed == \A h, g \in Tasks : Serves(h) /\ Serves(g) /\ task[h].who = task[g].who => h = g
\* An update h that works on x from now on.
Onward(h, x) ==
    /\ task' = [task EXCEPT ![h] = x]
    /\ x # None => /\ Fit(x, card)
                   /\ x.step \in {"charge", "panel", "trial"} =>
                         /\ task[h] # None /\ x.who = task[h].who /\ x.do = task[h].do /\ x.n = task[h].n
                         /\ Serves(h) \/ ~Serving(x.who)

LEMMA TaskMoves ==
    ASSUME AllTyped, NEW h \in Tasks, CustomerSteps(h)
    PROVE  \E x : Onward(h, x) /\ (x = None \/ (x.step = "trial" => ClaimTrial(h)))
<1> DEFINE Goes(x) == Onward(h, x) /\ (x = None \/ (x.step = "trial" => ClaimTrial(h)))
<1> SUFFICES \E x : Goes(x)
  OBVIOUS
<1>1. ASSUME NEW x \in Task, task' = [task EXCEPT ![h] = x], Fit(x, card), x.step \in {"arrived", "taken"} PROVE Goes(x)
  BY <1>1 DEF Onward
<1>2. ASSUME NEW x \in Task, task' = [task EXCEPT ![h] = x], Fit(x, card),
             task[h] # None, x.who = task[h].who, x.do = task[h].do, x.n = task[h].n, Serves(h) \/ ~Serving(x.who),
             x.step = "trial" => ClaimTrial(h)
      PROVE  Goes(x)
  BY <1>2 DEF Onward
<1>3. ASSUME Ends(h) PROVE Goes(None)
  BY <1>3 DEF Onward, Ends
<1> HIDE DEF Goes
<1>5. CASE Arrive(h)
  <2>1. PICK x \in Task : task' = [task EXCEPT ![h] = x] /\ Fit(x, card) /\ x.step \in {"arrived", "taken"}
    BY <1>5, ArriveIs
  <2> QED BY <1>1, <2>1
<1>6. CASE Take(h)
  <2>1. PICK x \in Task : task' = [task EXCEPT ![h] = x] /\ Fit(x, card) /\ x.step = "taken"
    BY <1>6, TakeIs
  <2> QED BY <1>1, <2>1
<1>7. CASE Confirm(h)
  <2>1. task[h] # None /\ ~Serving(task[h].who)
    BY <1>7, ConfirmIs DEF Confirm, Who
  <2>2. CASE Ends(h)
    BY <1>3, <2>2
  <2>3. CASE ~Ends(h)
    <3>1. PICK x \in Task : /\ task' = [task EXCEPT ![h] = x] /\ Fit(x, card) /\ x.step = "charge"
                            /\ x.who = task[h].who /\ x.do = task[h].do /\ x.n = task[h].n
      BY <1>7, <2>3, ConfirmIs
    <3> QED BY <1>2, <2>1, <3>1
  <2> QED BY <2>2, <2>3
<1>8. CASE Charge(h)
  <2>1. task[h] # None /\ Serves(h)
    BY <1>8 DEF Charge, Serves
  <2>2. CASE Ends(h)
    BY <1>3, <2>2
  <2>3. CASE ~Ends(h)
    <3>1. PICK x \in Task : /\ task' = [task EXCEPT ![h] = x] /\ Fit(x, card) /\ x.step = "panel"
                            /\ x.who = task[h].who /\ x.do = task[h].do /\ x.n = task[h].n
      BY <1>8, <2>3, ChargeIs
    <3> QED BY <1>2, <2>1, <3>1
  <2> QED BY <2>2, <2>3
<1>9. CASE ClaimTrial(h)
  <2>1. task[h] # None /\ ~Serving(task[h].who)
    BY <1>9 DEF ClaimTrial, Handles, Who
  <2>2. CASE Ends(h)
    BY <1>3, <2>2
  <2>3. CASE ~Ends(h)
    <3>1. PICK x \in Task : /\ task' = [task EXCEPT ![h] = x] /\ Fit(x, card)
                            /\ x.who = task[h].who /\ x.do = task[h].do /\ x.n = task[h].n
      BY <1>9, <2>3, ClaimTrialIs
    <3> QED BY <1>2, <1>9, <2>1, <3>1
  <2> QED BY <2>2, <2>3
<1>10. CASE ~(Arrive(h) \/ Take(h) \/ Confirm(h) \/ Charge(h) \/ ClaimTrial(h))
  <2>1. Ends(h)
    BY <1>10
    DEF CustomerSteps, Buy, Name, Provision, StartTopup, Amount, AskCode, NoCode, EnterCode, Method, Proof,
        AskGift, Gift, Locks, GiveTrial, Support, Over
  <2> QED BY <1>3, <2>1
<1> QED BY <1>5, <1>6, <1>7, <1>8, <1>9, <1>10

LEMMA ServedKept ==
    ASSUME AllTyped, OneServed, NEW h \in Tasks, NEW x, Onward(h, x)
    PROVE  OneServed'
<1>1. DOMAIN task = Tasks
  BY DEF AllTyped, TalkOK
<1>2. \A g \in Tasks \ {h} : task'[g] = task[g]
  BY <1>1 DEF Onward
<1>3. task'[h] = x
  BY <1>1 DEF Onward
<1>4. ASSUME NEW g \in Tasks \ {h}, Serves(h)', Serves(g)', task'[h].who = task'[g].who PROVE FALSE
  <2>1. Serves(g) /\ task[g].who = x.who /\ x # None /\ x.step \in {"charge", "panel", "trial"}
    BY <1>2, <1>3, <1>4 DEF Serves
  <2>2. task[h] # None /\ x.who = task[h].who /\ (Serves(h) \/ ~Serving(x.who))
    BY <2>1 DEF Onward
  <2>3. ~Serves(h)
    BY <2>1, <2>2 DEF OneServed
  <2>4. ~Serving(x.who)
    BY <2>2, <2>3
  <2> QED BY <2>1, <2>4 DEF Serving, Serves
<1>5. ASSUME NEW f \in Tasks, NEW g \in Tasks, Serves(f)', Serves(g)', task'[f].who = task'[g].who PROVE f = g
  <2>1. CASE f = h /\ g # h
    BY <1>4, <1>5, <2>1
  <2>2. CASE g = h /\ f # h
    BY <1>4, <1>5, <2>2
  <2>3. CASE f # h /\ g # h
    <3>1. Serves(f) /\ Serves(g) /\ task[f].who = task[g].who
      BY <1>2, <1>5, <2>3 DEF Serves
    <3> QED BY <3>1 DEF OneServed
  <2> QED BY <2>1, <2>2, <2>3
<1> QED BY <1>5 DEF OneServed

LEMMA OneServedKept ==
    ASSUME AllTyped, OneServed, [CustomersNext]_allVars
    PROVE  OneServed'
<1>1. ASSUME UNCHANGED task PROVE OneServed'
  BY <1>1 DEF OneServed, Serves
<1>2. ASSUME NEW h \in Tasks, CustomerSteps(h) PROVE OneServed'
  BY <1>2, TaskMoves, ServedKept
<1>3. ASSUME Restart PROVE OneServed'
  BY <1>3, RestartIs DEF OneServed, Serves
<1>4. CASE CustomersNext
  BY <1>1, <1>2, <1>3, <1>4 DEF CustomersNext, CustomerSteps, talking, ReapCard, ReapTrial, Suspend, JoinOrLeave
<1>5. CASE UNCHANGED allVars
  BY <1>1, <1>5 DEF allVars, talking
<1> QED BY <1>4, <1>5

-----------------------------------------------------------------------------
(* Free trials.                                                            *)

\* The orders of a customer that may still become trials.
Open(i) == unreaped[i] + (IF AsksTrial(i) THEN 1 ELSE 0)
\* The trials a customer got and those he may still get are that of before the monthly
\* reset, the one that his flag stands for and those that were taken for failed.
TrialsOK ==
    \A i \in Customers :
        trials[i] + Open(i)
            <= (IF db.shop.period = None THEN 0 ELSE 1) + (IF db.cust[i].trial THEN 1 ELSE 0) + unsure[i]

LEMMA MovesFlags ==
    ASSUME db \in Database, NEW i \in Customers, NEW n \in Int, db.cust[i].bal + n >= 0, db' = Moves(db, i, n)
    PROVE  SameFlags(db')
<1>1. db'.shop = db.shop /\ \A j \in Customers : db'.cust[j].trial = db.cust[j].trial
  BY MovesIs
<1> QED BY <1>1 DEF SameFlags

\* Only claims and answers about trials touch the flags, and only a trial that is given counts.
LEMMA TalkFlags ==
    ASSUME AllTyped, NEW h \in Tasks, CustomerSteps(h), ~ClaimTrial(h), ~GiveTrial(h)
    PROVE  SameFlags(db') /\ UNCHANGED <<trials, unreaped, unsure>>
<1>0. db \in Database
  BY DEF AllTyped, Typed, TypeOK
<1>1. UNCHANGED <<trials, unreaped, unsure>>
  BY DEF CustomerSteps, Arrive, Take, Buy, Name, Confirm, Charge, Provision, StartTopup, Amount, AskCode, NoCode,
         EnterCode, Method, Proof, AskGift, Gift, Locks, Support, Over, Silent
<1>2. CASE db' = db
  BY <1>1, <1>2 DEF SameFlags
<1>3. CASE Charge(h)
  <2>1. Who(h) \in Customers
    BY <1>3, TaskIs DEF Charge
  <2>2. CASE db' # db
    BY <1>0, <1>1, <1>3, <2>1, <2>2, ChargeIs, MovesFlags
  <2> QED BY <1>2, <2>2
<1>4. CASE Provision(h)
  <2>1. task[h] # None /\ task[h].step = "panel" /\ Settles(task[h].n)
    BY <1>4 DEF Provision
  <2>2. task[h].n \in Cards /\ card[task[h].n] \in Card
    BY <2>1, TaskIs DEF Fit
  <2>3. CASE db' # db
    BY <1>0, <1>1, <2>1, <2>2, <2>3, SettlesIs, MovesFlags
  <2> QED BY <1>2, <2>3
<1>5. CASE Proof(h)
  <2>1. CASE db' # db
    <3>1. db'.shop = db.shop /\ db'.cust = db.cust
      BY <1>0, <1>5, <2>1, ProofIs DEF Database
    <3> QED BY <1>1, <3>1 DEF SameFlags
  <2> QED BY <1>2, <2>1
<1>6. CASE Gift(h)
  <2>1. CASE db' # db
    <3>1. db.code # None /\ db' = Redeem(db, Who(h)) /\ Who(h) \in Customers
      BY <1>6, <2>1, GiftIs
    <3>2. db'.shop = db.shop /\ db'.cust = Moves(db, Who(h), db.code.worth).cust /\ db.code \in Code
      BY <1>0, <3>1, RedeemIs
    <3>3. db.code.worth \in Nat /\ db.cust[Who(h)].bal \in Nat
      BY <1>0, <3>1, <3>2 DEF Code, Database, Customer
    <3>4. db.code.worth \in Int /\ db.cust[Who(h)].bal + db.code.worth >= 0
      BY <3>3
    <3>5. \A j \in Customers : Moves(db, Who(h), db.code.worth).cust[j].trial = db.cust[j].trial
      BY <1>0, <3>1, <3>4, MovesIs
    <3> QED BY <1>1, <3>2, <3>5 DEF SameFlags
  <2> QED BY <1>2, <2>1
<1> QED
  <2>1. CASE ~(Charge(h) \/ Provision(h) \/ Proof(h) \/ Gift(h))
    <3>1. db' = db
      BY <2>1 DEF CustomerSteps, Arrive, Take, Buy, Name, Confirm, StartTopup, Amount, AskCode, NoCode,
                  EnterCode, Method, AskGift, Locks, Support, Over, Silent
    <3> QED BY <1>2, <3>1
  <2> QED BY <1>3, <1>4, <1>5, <1>6, <2>1

\* Who may still get a trial after a step that does not claim one.
LEMMA AskingIs ==
    ASSUME AllTyped, NEW h \in Tasks, NEW x, Onward(h, x), NEW i \in Customers, AsksTrial(i)'
    PROVE  AsksTrial(i) \/ (x # None /\ x.step = "trial" /\ x.who = i)
<1>1. DOMAIN task = Tasks
  BY DEF AllTyped, TalkOK
<1>2. task' = [task EXCEPT ![h] = x]
  BY DEF Onward
<1>3. PICK g \in Tasks : task'[g] # None /\ task'[g].step = "trial" /\ task'[g].who = i
  BY DEF AsksTrial
<1> QED BY <1>1, <1>2, <1>3 DEF AsksTrial

LEMMA CountsAre ==
    ASSUME AllTyped, NEW i \in Customers
    PROVE  trials[i] \in Nat /\ unreaped[i] \in Nat /\ unsure[i] \in Nat /\ Open(i) \in Nat
<1>1. trials[i] \in Nat /\ unreaped[i] \in Nat /\ unsure[i] \in Nat
  BY DEF AllTyped, TalkOK, TalliesOK
<1> QED BY <1>1 DEF Open

\* No more is open than before, and nothing else of trials changed.
LEMMA FewerAsk ==
    ASSUME AllTyped, TrialsOK, UNCHANGED <<trials, unsure>>, SameFlags(db'),
           \A i \in Customers : Open(i)' \in Nat /\ Open(i)' <= Open(i)
    PROVE  TrialsOK'
<1> SUFFICES ASSUME NEW i \in Customers
             PROVE  trials'[i] + Open(i)'
                        <= (IF db'.shop.period = None THEN 0 ELSE 1) + (IF db'.cust[i].trial THEN 1 ELSE 0) + unsure'[i]
  BY DEF TrialsOK
<1>1. trials[i] \in Nat /\ unsure[i] \in Nat /\ Open(i) \in Nat /\ Open(i)' \in Nat /\ Open(i)' <= Open(i)
  BY CountsAre
<1>2. trials[i] + Open(i)
        <= (IF db.shop.period = None THEN 0 ELSE 1) + (IF db.cust[i].trial THEN 1 ELSE 0) + unsure[i]
  BY DEF TrialsOK
<1>3. db'.shop.period = db.shop.period /\ db'.cust[i].trial = db.cust[i].trial
  BY DEF SameFlags
<1> QED BY <1>1, <1>2, <1>3

\* Updates that stop asking leave no more open.
LEMMA AskingLess ==
    ASSUME AllTyped, unreaped' = unreaped, \A i \in Customers : AsksTrial(i)' => AsksTrial(i)
    PROVE  \A i \in Customers : Open(i)' \in Nat /\ Open(i)' <= Open(i)
<1> SUFFICES ASSUME NEW i \in Customers PROVE Open(i)' \in Nat /\ Open(i)' <= Open(i)
  OBVIOUS
<1>1. unreaped[i] \in Nat /\ unreaped'[i] = unreaped[i]
  BY CountsAre
<1> QED BY <1>1 DEF Open

LEMMA ClaimKeeps ==
    ASSUME AllTyped, TrialsOK, NEW h \in Tasks, ClaimTrial(h)
    PROVE  TrialsOK'
<1>0. PICK x : Onward(h, x) /\ (x = None \/ (x.step = "trial" => ClaimTrial(h)))
  BY TaskMoves DEF CustomerSteps
<1>1. UNCHANGED <<trials, unreaped, unsure>> /\ task[h] # None /\ ~Serving(Who(h)) /\ Who(h) = task[h].who
      /\ Who(h) \in Customers /\ db \in Database
  BY ClaimTrialIs DEF ClaimTrial, Who
<1>2. ~AsksTrial(Who(h))
  BY <1>1 DEF AsksTrial, Serving
<1>3. CASE Ends(h) /\ UNCHANGED db
  <2>1. Onward(h, None)
    BY <1>3 DEF Onward, Ends
  <2>2. \A i \in Customers : AsksTrial(i)' => AsksTrial(i)
    BY <2>1, AskingIs
  <2>3. SameFlags(db')
    BY <1>3 DEF SameFlags
  <2> QED BY <1>1, <2>2, <2>3, AskingLess, FewerAsk
<1>4. CASE ~db.cust[Who(h)].trial /\ db' = TrialSet(db, Who(h), TRUE)
  <2>1. PICK b \in BOOLEAN : b = TRUE
    OBVIOUS
  <2>2. db' = TrialSet(db, Who(h), b)
    BY <1>4, <2>1
  <2> HIDE <2>1
  <2>0. /\ db'.cust[Who(h)].trial = b /\ db'.shop = db.shop
        /\ \A j \in Customers \ {Who(h)} : db'.cust[j] = db.cust[j]
    BY <1>1, <2>2, TrialSetIs
  <2> SUFFICES ASSUME NEW i \in Customers
               PROVE  trials'[i] + Open(i)'
                          <= (IF db'.shop.period = None THEN 0 ELSE 1) + (IF db'.cust[i].trial THEN 1 ELSE 0)
                             + unsure'[i]
    BY DEF TrialsOK
  <2>3. trials[i] \in Nat /\ unreaped[i] \in Nat /\ unsure[i] \in Nat
    BY CountsAre
  <2>4. trials[i] + (unreaped[i] + (IF AsksTrial(i) THEN 1 ELSE 0))
          <= (IF db.shop.period = None THEN 0 ELSE 1) + (IF db.cust[i].trial THEN 1 ELSE 0) + unsure[i]
    BY DEF TrialsOK, Open
  <2>5. db'.shop.period = db.shop.period /\ trials'[i] = trials[i] /\ unreaped'[i] = unreaped[i] /\ unsure'[i] = unsure[i]
    BY <1>1, <2>0
  <2>6. CASE i = Who(h)
    <3>1. b
      BY <2>1, Zenon
    <3>2. db'.cust[i].trial /\ ~db.cust[i].trial /\ ~AsksTrial(i)
      BY <1>2, <1>4, <2>0, <2>6, <3>1, Zenon
    <3> QED BY <2>3, <2>4, <2>5, <3>2 DEF Open
  <2>7. CASE i # Who(h)
    <3>1. AsksTrial(i)' => AsksTrial(i)
      BY <1>0, <1>1, <2>7, AskingIs DEF Onward
    <3>2. db'.cust[i].trial = db.cust[i].trial
      BY <2>0, <2>7
    <3> QED BY <2>3, <2>4, <2>5, <3>1, <3>2 DEF Open
  <2> QED BY <2>6, <2>7
<1> QED BY <1>3, <1>4, ClaimTrialIs

\* The panel's answer closes an order: the trial is made, the flag is lowered, or both and
\* it is taken for failed.
LEMMA AnswerKeeps ==
    ASSUME AllTyped, TrialsOK, NEW me \in Customers, TrialAnswered(db', me),
           \A i \in Customers : Open(i)' \in Nat /\ Open(i)' + (IF i = me THEN 1 ELSE 0) <= Open(i)
    PROVE  TrialsOK'
<1>1. db \in Database /\ trials \in [Customers -> Nat] /\ unsure \in [Customers -> Nat]
  BY DEF AllTyped, Typed, TypeOK, TalkOK, TalliesOK
<1> SUFFICES ASSUME NEW i \in Customers
             PROVE  trials'[i] + Open(i)'
                        <= (IF db'.shop.period = None THEN 0 ELSE 1) + (IF db'.cust[i].trial THEN 1 ELSE 0) + unsure'[i]
  BY DEF TrialsOK
<1>2. trials[i] \in Nat /\ unsure[i] \in Nat /\ Open(i) \in Nat /\ Open(i)' \in Nat
  BY CountsAre
<1>3. trials[i] + Open(i)
        <= (IF db.shop.period = None THEN 0 ELSE 1) + (IF db.cust[i].trial THEN 1 ELSE 0) + unsure[i]
  BY DEF TrialsOK
<1>4. Open(i)' + (IF i = me THEN 1 ELSE 0) <= Open(i)
  OBVIOUS
<1>5. ASSUME db' = TrialSet(db, me, FALSE)
      PROVE  /\ db'.shop.period = db.shop.period
             /\ i # me => db'.cust[i].trial = db.cust[i].trial
  <2>1. PICK b \in BOOLEAN : b = FALSE
    OBVIOUS
  <2>2. db' = TrialSet(db, me, b)
    BY <1>5, <2>1
  <2>3. db'.shop = db.shop /\ \A j \in Customers \ {me} : db'.cust[j] = db.cust[j]
    BY <1>1, <2>2, TrialSetIs
  <2> QED BY <2>3
<1> DEFINE plus == IF i = me THEN 1 ELSE 0
<1>6. CASE db' = db /\ trials' = [trials EXCEPT ![me] = trials[me] + 1] /\ unsure' = unsure
  <2>1. trials'[i] = trials[i] + plus /\ unsure'[i] = unsure[i]
    BY <1>1, <1>6
  <2> QED BY <1>2, <1>3, <1>4, <1>6, <2>1
<1>7. CASE db' = TrialSet(db, me, FALSE) /\ trials' = trials /\ unsure' = unsure
  <2>1. trials'[i] = trials[i] /\ unsure'[i] = unsure[i]
    BY <1>7
  <2>2. db'.shop.period = db.shop.period /\ (i # me => db'.cust[i].trial = db.cust[i].trial)
    BY <1>5, <1>7
  <2>3. CASE i = me
    BY <1>2, <1>3, <1>4, <2>1, <2>2, <2>3
  <2>4. CASE i # me
    BY <1>2, <1>3, <1>4, <2>1, <2>2, <2>4
  <2> QED BY <2>3, <2>4
<1>8. CASE /\ db' = TrialSet(db, me, FALSE)
           /\ trials' = [trials EXCEPT ![me] = trials[me] + 1] /\ unsure' = [unsure EXCEPT ![me] = unsure[me] + 1]
  <2>1. trials'[i] = trials[i] + plus /\ unsure'[i] = unsure[i] + plus
    BY <1>1, <1>8
  <2>2. db'.shop.period = db.shop.period /\ (i # me => db'.cust[i].trial = db.cust[i].trial)
    BY <1>5, <1>8
  <2>3. CASE i = me
    BY <1>2, <1>3, <1>4, <2>1, <2>2, <2>3
  <2>4. CASE i # me
    BY <1>2, <1>3, <1>4, <2>1, <2>2, <2>4
  <2> QED BY <2>3, <2>4
<1> QED BY <1>6, <1>7, <1>8 DEF TrialAnswered

LEMMA GiveKeeps ==
    ASSUME AllTyped, OneServed, TrialsOK, NEW h \in Tasks, GiveTrial(h)
    PROVE  TrialsOK'
<1>1. task[h] # None /\ task[h].step = "trial" /\ db \in Database /\ Who(h) \in Customers /\ Who(h) = task[h].who
  BY GiveTrialIs DEF Who
<1>2. task' = [task EXCEPT ![h] = None] /\ DOMAIN task = Tasks
  BY DEF GiveTrial, Ends, AllTyped, TalkOK
<1>3. \A g \in Tasks \ {h} : task'[g] = task[g]
  BY <1>2
<1>4. task'[h] = None
  BY <1>2
<1>5. \A g \in Tasks \ {h} : task[g] # None /\ task[g].step = "trial" => task[g].who # Who(h)
  BY <1>1 DEF OneServed, Serves
<1>6. \A g \in Tasks : task'[g] # None /\ task'[g].step = "trial" => task'[g].who # Who(h)
  BY <1>3, <1>4, <1>5
<1>7. PICK me \in Customers : me = Who(h)
  BY <1>1
<1>8. AsksTrial(me) /\ ~AsksTrial(me)'
  BY <1>1, <1>6, <1>7 DEF AsksTrial
<1>9. \A i \in Customers : AsksTrial(i)' => AsksTrial(i)
  <2>1. Onward(h, None)
    BY <1>2 DEF Onward
  <2> QED BY <2>1, AskingIs
<1>10. TrialAnswered(db', me) /\ unreaped' = unreaped
  BY <1>7, GiveTrialIs
<1>11. ASSUME NEW i \in Customers PROVE Open(i)' \in Nat /\ Open(i)' + (IF i = me THEN 1 ELSE 0) <= Open(i)
  <2>1. unreaped[i] \in Nat /\ unreaped'[i] = unreaped[i]
    BY <1>10, CountsAre
  <2>2. CASE i = me
    BY <1>8, <2>1, <2>2 DEF Open
  <2>3. CASE i # me
    BY <1>9, <2>1, <2>3 DEF Open
  <2> QED BY <2>2, <2>3
<1> QED BY <1>10, <1>11, AnswerKeeps

LEMMA ReapKeeps ==
    ASSUME AllTyped, TrialsOK, NEW me \in Customers, ReapTrial(me)
    PROVE  TrialsOK'
<1>1. /\ unreaped[me] > 0 /\ unreaped' = [unreaped EXCEPT ![me] = unreaped[me] - 1] /\ TrialAnswered(db', me) /\ task' = task
      /\ unreaped \in [Customers -> Nat]
  BY ReapTrialIs DEF AllTyped, TalkOK, TalliesOK
<1>2. \A i \in Customers : AsksTrial(i)' <=> AsksTrial(i)
  BY <1>1 DEF AsksTrial
<1>3. ASSUME NEW i \in Customers PROVE Open(i)' \in Nat /\ Open(i)' + (IF i = me THEN 1 ELSE 0) <= Open(i)
  <2>1. unreaped[i] \in Nat /\ unreaped'[i] = unreaped[i] - (IF i = me THEN 1 ELSE 0) /\ unreaped'[i] \in Nat
    BY <1>1
  <2> QED BY <1>2, <2>1 DEF Open
<1> QED BY <1>1, <1>3, AnswerKeeps

LEMMA TrialsKept ==
    ASSUME AllTyped, OneServed, TrialsOK, [CustomersNext]_allVars
    PROVE  TrialsOK'
<1>1. ASSUME UNCHANGED <<task, trials, unreaped, unsure>>, SameFlags(db') PROVE TrialsOK'
  <2>1. \A i \in Customers : AsksTrial(i)' => AsksTrial(i)
    BY <1>1 DEF AsksTrial
  <2> QED BY <1>1, <2>1, AskingLess, FewerAsk
<1>2. ASSUME NEW h \in Tasks, CustomerSteps(h) PROVE TrialsOK'
  <2>1. CASE ~ClaimTrial(h) /\ ~GiveTrial(h)
    <3>1. SameFlags(db') /\ UNCHANGED <<trials, unreaped, unsure>>
      BY <1>2, <2>1, TalkFlags
    <3>2. PICK x : Onward(h, x) /\ (x = None \/ (x.step = "trial" => ClaimTrial(h)))
      BY <1>2, TaskMoves
    <3>3. \A i \in Customers : AsksTrial(i)' => AsksTrial(i)
      BY <2>1, <3>2, AskingIs
    <3> QED BY <3>1, <3>3, AskingLess, FewerAsk
  <2> QED BY <1>2, <2>1, ClaimKeeps, GiveKeeps
<1>3. ASSUME Restart PROVE TrialsOK'
  <2>1. ASSUME NEW i \in Customers PROVE Open(i)' \in Nat /\ Open(i)' <= Open(i)
    <3>1. unreaped[i] \in Nat /\ unreaped'[i] = (IF AsksTrial(i) THEN unreaped[i] + 1 ELSE unreaped[i]) /\ ~AsksTrial(i)'
      BY <1>3, RestartIs, CountsAre DEF AsksTrial
    <3> QED BY <3>1 DEF Open
  <2>2. UNCHANGED <<trials, unsure>> /\ SameFlags(db')
    BY <1>3, RestartIs DEF SameFlags
  <2> QED BY <2>1, <2>2, FewerAsk
<1>4. ASSUME NEW c \in Cards, ReapCard(c) PROVE TrialsOK'
  <2>1. card[c] \in Card /\ Settles(c) /\ UNCHANGED <<task, trials, unreaped, unsure>>
    BY <1>4, ReapCardIs
  <2>2. SameFlags(db')
    <3>1. CASE db' = db
      BY <3>1 DEF SameFlags
    <3>2. CASE db' # db
      BY <2>1, <3>2, SettlesIs, MovesFlags DEF AllTyped, Typed, TypeOK
    <3> QED BY <3>1, <3>2
  <2> QED BY <1>1, <2>1, <2>2
<1>5. ASSUME Next, UNCHANGED talking PROVE TrialsOK'
  <2>0. Typed /\ db \in Database /\ UNCHANGED <<task, trials, unreaped, unsure>>
    BY <1>5 DEF AllTyped, Typed, TypeOK, talking
  <2>1. CASE SameFlags(db')
    BY <1>1, <2>0, <2>1
  <2>2. ASSUME NEW s \in Slots, Commit(s), ~SameFlags(db') PROVE TrialsOK'
    <3>1. db.shop.period = None /\ db'.shop.period # None
      BY <2>0, <2>2, CommitEffects
    <3> SUFFICES ASSUME NEW i \in Customers
                 PROVE  trials'[i] + Open(i)'
                            <= (IF db'.shop.period = None THEN 0 ELSE 1) + (IF db'.cust[i].trial THEN 1 ELSE 0)
                               + unsure'[i]
      BY DEF TrialsOK
    <3>2. Open(i)' = Open(i)
      BY <2>0 DEF Open, AsksTrial
    <3>3. trials[i] \in Nat /\ unsure[i] \in Nat /\ Open(i) \in Nat
      BY CountsAre
    <3>4. trials[i] + Open(i)
            <= (IF db.shop.period = None THEN 0 ELSE 1) + (IF db.cust[i].trial THEN 1 ELSE 0) + unsure[i]
      BY DEF TrialsOK
    <3> QED BY <2>0, <3>1, <3>2, <3>3, <3>4
  <2>3. CASE \A s \in Slots : ~Commit(s)
    <3>1. db'.cust = db.cust /\ Alike(db'.shop, db.shop)
      BY <1>5, <2>0, <2>3, OtherSteps DEF Minor
    <3>2. SameFlags(db')
      BY <3>1 DEF SameFlags, Alike, Attributes
    <3> QED BY <1>1, <2>0, <3>2
  <2> QED BY <2>1, <2>2, <2>3
<1>6. ASSUME UNCHANGED <<db, task, trials, unreaped, unsure>> PROVE TrialsOK'
  BY <1>1, <1>6 DEF SameFlags
<1>7. ASSUME NEW i \in Customers, ReapTrial(i) PROVE TrialsOK'
  BY <1>7, ReapKeeps
<1>8. CASE CustomersNext
  BY <1>2, <1>3, <1>4, <1>5, <1>6, <1>7, <1>8 DEF CustomersNext, CustomerSteps, Suspend, JoinOrLeave
<1>9. CASE UNCHANGED allVars
  BY <1>6, <1>9 DEF allVars, vars, talking
<1> QED BY <1>8, <1>9

Trials == AllTyped /\ OneServed /\ TrialsOK
\* A customer gets a free trial of before the monthly reset, one of after it and one for
\* each that the panel made while its answer said otherwise, and no other, however many
\* updates of his are at work at once, whoever resets the month's trials meanwhile, and
\* wherever the bot restarts, the orders left for the reaper included: the flag is raised
\* before the panel is asked, under the customer's lock, and lowered only for an order that
\* was not made, or was taken for that (claim_trial, reap_pending_orders, reset_free_trials).
THEOREM TrialsAreRationed == CustomersSpec => []OneTrialAMonth
<1>1. CustomersInit => Trials
  <2> SUFFICES ASSUME CustomersInit PROVE Trials
    OBVIOUS
  <2>1. AllTyped
    BY AllTypedAtFirst
  <2>2. \A h \in Tasks : task[h] = None
    BY DEF CustomersInit
  <2>3. OneServed /\ \A i \in Customers : ~AsksTrial(i)
    BY <2>2 DEF OneServed, Serves, AsksTrial
  <2>4. \A i \in Customers : trials[i] = 0 /\ unreaped[i] = 0 /\ unsure[i] = 0
    BY DEF CustomersInit
  <2>5. \A i \in Customers : Open(i) = 0
    BY <2>3, <2>4 DEF Open
  <2> QED BY <2>1, <2>3, <2>4, <2>5 DEF Trials, TrialsOK
<1>2. Trials /\ [CustomersNext]_allVars => Trials'
  BY AllTypedKept, OneServedKept, TrialsKept DEF Trials
<1>3. Trials => OneTrialAMonth
  <2> SUFFICES ASSUME Trials, NEW i \in Customers
               PROVE  trials[i] + unreaped[i] <= 1 + (IF db.shop.period = None THEN 0 ELSE 1) + unsure[i]
    BY DEF OneTrialAMonth
  <2>1. trials[i] \in Nat /\ unreaped[i] \in Nat /\ unsure[i] \in Nat
    BY CountsAre DEF Trials
  <2>2. trials[i] + (unreaped[i] + (IF AsksTrial(i) THEN 1 ELSE 0))
          <= (IF db.shop.period = None THEN 0 ELSE 1) + (IF db.cust[i].trial THEN 1 ELSE 0) + unsure[i]
    BY DEF Trials, TrialsOK, Open
  <2> QED BY <2>1, <2>2
<1> QED BY <1>1, <1>2, <1>3, PTL DEF CustomersSpec

-----------------------------------------------------------------------------
(* Money: a balance is the ledger and the confirmed top-ups less what was  *)
(* charged, and a code's count is the number of its redemptions.           *)

\* The smallest of some ids is one of them.
LEMMA MinIsIn == ASSUME NEW S \in SUBSET Nat, S # {} PROVE Min(S) \in S
<1>1. PICK m \in S : \A y \in S : m <= y
  <2>1. PICK m \in S : \A y \in S : ~(<<y, m>> \in OpToRel(<, Nat))
    BY NatLessThanWellFounded, WFMin
  <2>2. \A y \in S : ~(y < m)
    BY <2>1 DEF OpToRel
  <2> QED BY <2>2
<1> QED BY <1>1 DEF Min

Brought(topups, i) ==
    [t \in Topups |-> IF Buyer[t] = i /\ topups[t] # None /\ topups[t].status = "confirmed"
                      THEN topups[t].amount ELSE 0]
Took(cards, i) == [c \in Cards |-> IF cards[c] # None /\ cards[c].who = i THEN cards[c].paid ELSE 0]
In(topups, i) == SumFunctionOnSet(Brought(topups, i), Topups)
Out(cards, i) == SumFunctionOnSet(Took(cards, i), Cards)
Balanced(d, cards, i) == d.cust[i].bal = d.ledger[i] + In(d.topup, i) - Out(cards, i)
Counted(d) ==
    /\ \A i \in Customers : d.uses[i] <= 1
    /\ d.code # None => d.code.used = SumFunctionOnSet(d.uses, Customers) /\ d.code.used <= d.code.cap
    /\ d.code = None => \A i \in Customers : d.uses[i] = 0

LEMMA MoneyIs ==
    ASSUME db \in Database
    PROVE  MoneyAddsUp <=> /\ \A i \in Customers : /\ Balanced(db, card, i)
                                                   /\ db.cust[i].bal >= 0 /\ db.uses[i] <= 1
                           /\ db.code # None => /\ db.code.used = SumFunctionOnSet(db.uses, Customers)
                                                /\ db.code.used <= db.code.cap
<1>1. DOMAIN db.uses = Customers
  BY DEF Database
<1>2. \A i \in Customers : Confirmed(i) = Brought(db.topup, i) /\ Charged(i) = Took(card, i)
  BY DEF Confirmed, Charged, Brought, Took
<1>3. \A i \in Customers : DOMAIN Confirmed(i) = Topups /\ DOMAIN Charged(i) = Cards
  BY DEF Confirmed, Charged
<1>4. SumFunction(db.uses) = SumFunctionOnSet(db.uses, Customers)
  BY <1>1 DEF SumFunction
<1>5. \A i \in Customers : SumFunction(Confirmed(i)) = In(db.topup, i) /\ SumFunction(Charged(i)) = Out(card, i)
  BY <1>2, <1>3 DEF SumFunction, In, Out
<1> QED BY <1>4, <1>5 DEF MoneyAddsUp, Balanced

LEMMA BroughtIs ==
    ASSUME NEW T \in [Topups -> Topup], NEW i
    PROVE  (\A t \in Topups : Brought(T, i)[t] \in Int) /\ In(T, i) \in Int
<1>1. \A t \in Topups : T[t] # None => T[t].amount \in Nat
  BY DEF Topup, SomeTopup
<1>2. \A t \in Topups : Brought(T, i)[t] \in Int
  BY <1>1 DEF Brought
<1> QED BY <1>2, SumType, IdsAssumption DEF In

LEMMA TookIs ==
    ASSUME NEW C \in [Cards -> Card \cup {None}], NEW i
    PROVE  (\A c \in Cards : Took(C, i)[c] \in Int) /\ Out(C, i) \in Int
<1>1. \A c \in Cards : C[c] # None => C[c].paid \in Nat
  BY DEF Card
<1>2. \A c \in Cards : Took(C, i)[c] \in Int
  BY <1>1 DEF Took
<1> QED BY <1>2, SumType, CustomersAssumption DEF Out

\* One top-up, or one operation, changes what it brings or takes.
LEMMA InChanges ==
    ASSUME NEW T \in [Topups -> Topup], NEW t \in Topups, NEW row \in Topup, NEW i
    PROVE  LET to == [T EXCEPT ![t] = row]
           IN In(to, i) = In(T, i) - Brought(T, i)[t]
                          + (IF Buyer[t] = i /\ row # None /\ row.status = "confirmed" THEN row.amount ELSE 0)
<1> DEFINE to == [T EXCEPT ![t] = row]
<1>1. to \in [Topups -> Topup] /\ to[t] = row /\ \A x \in Topups \ {t} : to[x] = T[x]
  OBVIOUS
<1> HIDE DEF to
<1>2. \A x \in Topups \ {t} : Brought(T, i)[x] = Brought(to, i)[x]
  BY <1>1 DEF Brought
<1>3. \A x \in Topups : Brought(T, i)[x] \in Int /\ Brought(to, i)[x] \in Int
  BY <1>1, BroughtIs
<1>4. Brought(to, i)[t] = IF Buyer[t] = i /\ row # None /\ row.status = "confirmed" THEN row.amount ELSE 0
  BY <1>1 DEF Brought
<1>5. In(to, i) = In(T, i) - Brought(T, i)[t] + Brought(to, i)[t]
  BY <1>2, <1>3, SumChanges, IdsAssumption DEF In
<1> QED BY <1>4, <1>5 DEF to

LEMMA OutChanges ==
    ASSUME NEW C \in [Cards -> Card \cup {None}], NEW k \in Cards, NEW c \in Card, NEW i
    PROVE  LET to == [C EXCEPT ![k] = c]
           IN Out(to, i) = Out(C, i) - Took(C, i)[k] + (IF c.who = i THEN c.paid ELSE 0)
<1> DEFINE to == [C EXCEPT ![k] = c]
<1>1. to \in [Cards -> Card \cup {None}] /\ to[k] = c /\ \A x \in Cards \ {k} : to[x] = C[x]
  OBVIOUS
<1> HIDE DEF to
<1>2. \A x \in Cards \ {k} : Took(C, i)[x] = Took(to, i)[x]
  BY <1>1 DEF Took
<1>3. \A x \in Cards : Took(C, i)[x] \in Int /\ Took(to, i)[x] \in Int
  BY <1>1, TookIs
<1>4. Took(to, i)[k] = IF c.who = i THEN c.paid ELSE 0
  BY <1>1, NoneCustomersAssumption DEF Took
<1>5. Out(to, i) = Out(C, i) - Took(C, i)[k] + Took(to, i)[k]
  <2> DEFINE f == Took(C, i)
             g == Took(to, i)
  <2>1. IsFiniteSet(Cards) /\ (\A x \in Cards : f[x] \in Int /\ g[x] \in Int) /\ \A x \in Cards \ {k} : f[x] = g[x]
    BY <1>2, <1>3, CustomersAssumption
  <2> HIDE DEF f, g
  <2>2. SumFunctionOnSet(g, Cards) = SumFunctionOnSet(f, Cards) - f[k] + g[k]
    BY <2>1, SumChanges
  <2> QED BY <2>2 DEF Out, f, g
<1>6. Out(to, i) = Out(C, i) - Took(C, i)[k] + (IF c.who = i THEN c.paid ELSE 0)
  BY <1>4, <1>5
<1> QED BY <1>6 DEF to

\* Books kept for every customer, when the operations are cards.
Settled(d, cards) == \A i \in Customers : Balanced(d, cards, i)

\* What is charged, or given back, moves the balance by as much.
LEMMA MovesSettled ==
    ASSUME NEW d \in Database, NEW C \in [Cards -> Card \cup {None}], NEW i \in Customers, NEW n \in Int,
           d.cust[i].bal + n >= 0, NEW k \in Cards, NEW c \in Card, C[k] \in Card,
           C[k].who = i, c.who = i, c.paid = C[k].paid - n, Settled(d, C)
    PROVE  Settled(Moves(d, i, n), [C EXCEPT ![k] = c])
<1> DEFINE e == Moves(d, i, n)
           D == [C EXCEPT ![k] = c]
<1>1. e.cust[i].bal = d.cust[i].bal + n /\ (\A j \in Customers \ {i} : e.cust[j] = d.cust[j])
      /\ e.topup = d.topup /\ e.ledger = d.ledger
  BY MovesIs
<1>2. \A j : Out(D, j) = Out(C, j) - Took(C, j)[k] + (IF c.who = j THEN c.paid ELSE 0)
  BY OutChanges
<1>3. \A j : Took(C, j)[k] = IF C[k].who = j THEN C[k].paid ELSE 0
  BY NoneCustomersAssumption DEF Took
<1>4. \A j \in Customers : d.cust[j].bal \in Int /\ d.ledger[j] \in Int
  BY DEF Database, Customer
<1>5. \A j : In(d.topup, j) \in Int /\ Out(C, j) \in Int
  <2>1. d.topup \in [Topups -> Topup]
    BY DEF Database
  <2> QED BY <2>1, BroughtIs, TookIs
<1>6. c.paid \in Int /\ C[k].paid \in Int
  BY DEF Card
<1> HIDE DEF e, D
<1> SUFFICES ASSUME NEW j \in Customers PROVE Balanced(e, D, j)
  BY DEF Settled, e, D
<1>7. d.cust[j].bal = d.ledger[j] + In(d.topup, j) - Out(C, j)
  BY DEF Settled, Balanced
<1>8. CASE j = i
  <2>1. Out(D, j) = Out(C, j) - n
    BY <1>2, <1>3, <1>5, <1>6, <1>8
  <2> QED BY <1>1, <1>4, <1>5, <1>7, <1>8, <2>1 DEF Balanced
<1>9. CASE j # i
  <2>1. Out(D, j) = Out(C, j)
    BY <1>2, <1>3, <1>5, <1>6, <1>9
  <2> QED BY <1>1, <1>7, <1>9, <2>1 DEF Balanced
<1> QED BY <1>8, <1>9

\* What is written in the ledger moves the balance by as much.
LEMMA LedgerSettled ==
    ASSUME NEW d \in Database, NEW C \in [Cards -> Card \cup {None}], NEW i \in Customers, NEW n \in Int, NEW e,
           e.topup = d.topup, e.cust[i].bal = d.cust[i].bal + n, e.ledger[i] = d.ledger[i] + n,
           \A j \in Customers \ {i} : e.cust[j].bal = d.cust[j].bal /\ e.ledger[j] = d.ledger[j],
           Settled(d, C)
    PROVE  Settled(e, C)
<1> SUFFICES ASSUME NEW j \in Customers PROVE Balanced(e, C, j)
  BY DEF Settled
<1>1. d.cust[j].bal = d.ledger[j] + In(d.topup, j) - Out(C, j)
  BY DEF Settled, Balanced
<1>2. d.cust[j].bal \in Int /\ d.ledger[j] \in Int
  BY DEF Database, Customer
<1>3. In(d.topup, j) \in Int /\ Out(C, j) \in Int
  <2>1. d.topup \in [Topups -> Topup]
    BY DEF Database
  <2> QED BY <2>1, BroughtIs, TookIs
<1>4. CASE j = i
  BY <1>1, <1>2, <1>3, <1>4 DEF Balanced
<1>5. CASE j # i
  BY <1>1, <1>5 DEF Balanced
<1> QED BY <1>4, <1>5

\* Rows that say the same about money.
LEMMA SameSettled ==
    ASSUME NEW d, NEW C, NEW e, NEW D, Settled(d, C),
           \A i \in Customers : /\ e.cust[i].bal = d.cust[i].bal /\ e.ledger[i] = d.ledger[i]
                                /\ In(e.topup, i) = In(d.topup, i) /\ Out(D, i) = Out(C, i)
    PROVE  Settled(e, D)
BY DEF Settled, Balanced

\* A redemption is counted once, by its customer and by the code.
LEMMA RedeemSettled ==
    ASSUME NEW d \in Database, NEW C \in [Cards -> Card \cup {None}], NEW i \in Customers, NEW n,
           Redeemable(d, i, n), Settled(d, C), Counted(d)
    PROVE  LET e == Redeem(d, i) IN Settled(e, C) /\ Counted(e) /\ e \in Database
<1> DEFINE e == Redeem(d, i)
           w == d.code.worth
<1>1. d.code # None /\ d.uses[i] < 1 /\ d.code.used < d.code.cap
  BY DEF Redeemable
<1>2. /\ e \in Database /\ d.code \in Code
      /\ e.cust = Moves(d, i, w).cust /\ e.code # None
      /\ e.code.used = d.code.used + 1 /\ e.code.cap = d.code.cap
      /\ e.uses = [d.uses EXCEPT ![i] = d.uses[i] + 1]
      /\ e.ledger = [d.ledger EXCEPT ![i] = d.ledger[i] + w]
      /\ e.topup = d.topup
  BY <1>1, RedeemIs
<1>3. w \in Nat /\ d.cust[i].bal \in Nat /\ d.code.used \in Nat /\ d.code.cap \in Nat
  BY <1>2 DEF Code, Database, Customer
<1>4. w \in Int /\ d.cust[i].bal + w >= 0
  BY <1>3
<1>5. d.ledger \in [Customers -> Int] /\ d.uses \in [Customers -> Nat]
  BY DEF Database
<1> HIDE DEF e, w
<1>6. e.cust[i].bal = d.cust[i].bal + w /\ \A j \in Customers \ {i} : e.cust[j] = d.cust[j]
  BY <1>2, <1>4, MovesIs
<1>7. Settled(e, C)
  BY <1>2, <1>4, <1>5, <1>6, LedgerSettled
<1>8. \A j \in Customers : e.uses[j] <= 1
  BY <1>1, <1>2, <1>5 DEF Counted
<1>9. SumFunctionOnSet(e.uses, Customers) = SumFunctionOnSet(d.uses, Customers) + 1
  <2> DEFINE f == d.uses
             g == e.uses
  <2>1. IsFiniteSet(Customers) /\ (\A x \in Customers : f[x] \in Int /\ g[x] \in Int)
        /\ (\A x \in Customers \ {i} : f[x] = g[x]) /\ g[i] = f[i] + 1
    BY <1>2, <1>5, IdsAssumption
  <2> HIDE DEF f, g
  <2>2. SumFunctionOnSet(g, Customers) = SumFunctionOnSet(f, Customers) - f[i] + g[i]
    BY <2>1, SumChanges
  <2>3. SumFunctionOnSet(f, Customers) \in Int
    BY <2>1, SumType
  <2>4. SumFunctionOnSet(g, Customers) = SumFunctionOnSet(f, Customers) + 1
    BY <2>1, <2>2, <2>3
  <2> QED BY <2>4 DEF f, g
<1>10. Counted(e)
  BY <1>1, <1>2, <1>3, <1>8, <1>9 DEF Counted
<1> QED BY <1>2, <1>7, <1>10 DEF e

\* A decision pays a customer what the top-up then says, or nothing.
LEMMA DecisionSettled ==
    ASSUME NEW d \in Database, NEW C \in [Cards -> Card \cup {None}], NEW cmd \in Command,
           cmd.do = "set_topup_decision", NEW to \in Outcomes(cmd, d), d.topup[cmd.t] # None,
           Settled(d, C), Counted(d)
    PROVE  /\ Settled(to, C) /\ Counted(to)
           /\ \A t \in Topups : to.topup[t] = None <=> d.topup[t] = None
<1> DEFINE t == cmd.t
           i == Buyer[t]
           row == d.topup[t]
           no == [row EXCEPT !.status = "rejected"]
           yes == [row EXCEPT !.status = "confirmed"]
           paid == [yes EXCEPT !.amount = cmd.n]
           T(x) == [d.topup EXCEPT ![t] = x]
<1>1. t \in Topups /\ cmd.n \in Nat /\ i \in Customers /\ row \in SomeTopup
  BY DecisionOutcomes
<1>2. d.topup \in [Topups -> Topup] /\ DOMAIN row = {"status", "amount", "code", "crypto", "txid"}
      /\ None \notin SomeTopup
  BY <1>1, NoneShopAssumption DEF Database, SomeTopup
<1>3. no \in SomeTopup /\ no.status = "rejected"
  BY <1>1 DEF SomeTopup
<1>4. yes \in SomeTopup /\ yes.status = "confirmed" /\ DOMAIN yes = DOMAIN row
  BY <1>1 DEF SomeTopup
<1>5. paid \in SomeTopup /\ paid.status = "confirmed" /\ paid.amount = cmd.n
  <2> HIDE DEF yes
  <2>1. paid \in SomeTopup
    BY <1>1, <1>4 DEF SomeTopup
  <2> QED BY <1>2, <1>4, <2>1
<1> HIDE DEF no, yes, paid
<1>6. \A x \in SomeTopup, u \in Topups : T(x)[u] = None <=> d.topup[u] = None
  BY <1>1, <1>2
<1>7. ASSUME row.status = "pending", NEW x \in SomeTopup, NEW j
      PROVE  In(T(x), j) = In(d.topup, j) + (IF i = j /\ x.status = "confirmed" THEN x.amount ELSE 0)
  <2>1. Brought(d.topup, j)[t] = 0
    BY <1>1, <1>7 DEF Brought
  <2>2. x \in Topup /\ x # None
    BY <1>2 DEF Topup
  <2>3. In(T(x), j) = In(d.topup, j) - Brought(d.topup, j)[t]
                      + (IF i = j /\ x # None /\ x.status = "confirmed" THEN x.amount ELSE 0)
    BY <1>1, <1>2, <2>2, InChanges
  <2>4. In(d.topup, j) \in Int
    BY <1>2, BroughtIs
  <2> QED BY <2>1, <2>2, <2>3, <2>4
<1>8. CASE to = d
  BY <1>8
<1>9. CASE row.status = "pending" /\ to = [d EXCEPT !.topup = T(no)]
  <2>1. to.topup = T(no) /\ to.cust = d.cust /\ to.ledger = d.ledger /\ to.uses = d.uses /\ to.code = d.code
    BY <1>9 DEF Database
  <2> HIDE DEF T
  <2>2. \A j \in Customers : In(to.topup, j) = In(d.topup, j)
    <3>1. \A j : In(d.topup, j) \in Int
      BY <1>2, BroughtIs
    <3> QED BY <1>3, <1>7, <1>9, <2>1, <3>1
  <2>3. Settled(to, C)
    BY <2>1, <2>2, SameSettled
  <2> QED BY <1>3, <1>6, <2>1, <2>3 DEF Counted
<1>10. ASSUME row.status = "pending", NEW e \in Database, e = [Moves(d, i, cmd.n) EXCEPT !.topup = T(paid)]
       PROVE  /\ Settled(e, C) /\ Counted(e) /\ e.code = d.code /\ e.uses = d.uses
              /\ e.topup = T(paid)
  <2> DEFINE m == Moves(d, i, cmd.n)
  <2>1. d.cust[i].bal \in Nat
    BY <1>1 DEF Database, Customer
  <2>2. cmd.n \in Int /\ d.cust[i].bal + cmd.n >= 0
    BY <1>1, <2>1
  <2>3. /\ m \in Database /\ m.cust[i].bal = d.cust[i].bal + cmd.n /\ \A j \in Customers \ {i} : m.cust[j] = d.cust[j]
        /\ m.ledger = d.ledger /\ m.uses = d.uses /\ m.code = d.code
    BY <1>1, <2>2, MovesIs
  <2> HIDE DEF m
  <2>4. e = [m EXCEPT !.topup = T(paid)]
    BY <1>10 DEF m
  <2>5. e.topup = T(paid) /\ e.cust = m.cust /\ e.ledger = m.ledger /\ e.uses = m.uses /\ e.code = m.code
    BY <2>3, <2>4 DEF Database
  <2> HIDE DEF T
  <2>6. \A j : In(e.topup, j) = In(d.topup, j) + (IF i = j THEN cmd.n ELSE 0)
    BY <1>5, <1>7, <1>10, <2>5
  <2>7. ASSUME NEW j \in Customers PROVE Balanced(e, C, j)
    <3>1. d.cust[j].bal = d.ledger[j] + In(d.topup, j) - Out(C, j)
      BY DEF Settled, Balanced
    <3>2. d.cust[j].bal \in Int /\ d.ledger[j] \in Int /\ In(d.topup, j) \in Int /\ Out(C, j) \in Int
      BY <1>2, BroughtIs, TookIs DEF Database, Customer
    <3>3. CASE j = i
      BY <2>2, <2>3, <2>5, <2>6, <3>1, <3>2, <3>3 DEF Balanced
    <3>4. CASE j # i
      BY <2>3, <2>5, <2>6, <3>1, <3>2, <3>4 DEF Balanced
    <3> QED BY <3>3, <3>4
  <2> QED BY <2>3, <2>5, <2>7 DEF Settled, Counted
<1>11. ASSUME row.status = "pending", NEW e \in Database, e = [Moves(d, i, cmd.n) EXCEPT !.topup = T(paid)],
              to = e \/ (Redeemable(d, i, cmd.n) /\ to = Redeem(e, i))
       PROVE  /\ Settled(to, C) /\ Counted(to)
              /\ \A u \in Topups : to.topup[u] = None <=> d.topup[u] = None
  <2>1. /\ Settled(e, C) /\ Counted(e) /\ e.code = d.code /\ e.uses = d.uses
        /\ e.topup = T(paid)
    BY <1>10, <1>11
  <2> HIDE DEF T
  <2>2. CASE to = e
    BY <1>5, <1>6, <2>1, <2>2
  <2>3. CASE Redeemable(d, i, cmd.n) /\ to = Redeem(e, i)
    <3>1. Redeemable(e, i, cmd.n)
      BY <2>1, <2>3 DEF Redeemable
    <3>2. Settled(to, C) /\ Counted(to)
      BY <1>1, <2>1, <2>3, <3>1, RedeemSettled
    <3>3. to.topup = e.topup
      BY <1>1, <2>3, <3>1, RedeemIs DEF Redeemable
    <3> QED BY <1>5, <1>6, <2>1, <3>2, <3>3
  <2> QED BY <1>11, <2>2, <2>3
<1> QED
  <2>1. \/ to = d
        \/ row.status = "pending" /\ to = [d EXCEPT !.topup = T(no)]
        \/ /\ row.status = "pending"
           /\ \E e \in Database : /\ e = [Moves(d, i, cmd.n) EXCEPT !.topup = T(paid)]
                                  /\ to = e \/ (Redeemable(d, i, cmd.n) /\ to = Redeem(e, i))
    BY DecisionOutcomes DEF no, yes, paid
  <2> QED BY <1>8, <1>9, <1>11, <2>1

-----------------------------------------------------------------------------
(* Every name and proof at work has an id for the row it may write.        *)

Names(tasks) == {h \in Tasks : tasks[h] # None /\ tasks[h].do = "name"}
ProofsOf(tasks, i) == {h \in Tasks : tasks[h] # None /\ tasks[h].do = "proof" /\ tasks[h].who = i}
FreeCards(cards) == {c \in Cards : cards[c] = None}
FreeTopups(topups, i) == {t \in Topups : Buyer[t] = i /\ topups[t] = None}
Roomy(tasks, cards, topups) ==
    /\ Cardinality(Names(tasks)) <= Cardinality(FreeCards(cards))
    /\ \A i \in Customers : Cardinality(ProofsOf(tasks, i)) <= Cardinality(FreeTopups(topups, i))

LEMMA RoomsFinite ==
    ASSUME NEW x, NEW i
    PROVE  /\ IsFiniteSet(Names(x)) /\ IsFiniteSet(ProofsOf(x, i))
           /\ IsFiniteSet(FreeCards(x)) /\ IsFiniteSet(FreeTopups(x, i))
<1>1. IsFiniteSet(Tasks) /\ IsFiniteSet(Cards) /\ IsFiniteSet(Topups)
  BY CustomersAssumption, IdsAssumption
<1>2. /\ Names(x) \subseteq Tasks /\ ProofsOf(x, i) \subseteq Tasks
      /\ FreeCards(x) \subseteq Cards /\ FreeTopups(x, i) \subseteq Topups
  BY DEF Names, ProofsOf, FreeCards, FreeTopups
<1> QED BY <1>1, <1>2, FS_Subset

LEMMA RoomStays ==
    ASSUME NEW T, NEW C, NEW U, Roomy(T, C, U), NEW T2, NEW C2, NEW U2,
           Names(T2) \subseteq Names(T), FreeCards(C2) = FreeCards(C),
           \A i \in Customers : ProofsOf(T2, i) \subseteq ProofsOf(T, i) /\ FreeTopups(U2, i) = FreeTopups(U, i)
    PROVE  Roomy(T2, C2, U2)
<1>1. Cardinality(Names(T2)) <= Cardinality(Names(T)) /\ Cardinality(Names(T2)) \in Nat
      /\ Cardinality(Names(T)) \in Nat /\ Cardinality(FreeCards(C)) \in Nat
  BY RoomsFinite, FS_Subset, FS_CardinalityType
<1>2. ASSUME NEW i \in Customers
      PROVE  Cardinality(ProofsOf(T2, i)) <= Cardinality(FreeTopups(U2, i))
  <2>1. Cardinality(ProofsOf(T2, i)) <= Cardinality(ProofsOf(T, i)) /\ Cardinality(ProofsOf(T2, i)) \in Nat
        /\ Cardinality(ProofsOf(T, i)) \in Nat /\ Cardinality(FreeTopups(U, i)) \in Nat
    BY RoomsFinite, FS_Subset, FS_CardinalityType
  <2>2. Cardinality(ProofsOf(T, i)) <= Cardinality(FreeTopups(U, i)) /\ FreeTopups(U2, i) = FreeTopups(U, i)
    BY DEF Roomy
  <2> QED BY <2>1, <2>2
<1>3. Cardinality(Names(T)) <= Cardinality(FreeCards(C))
  BY DEF Roomy
<1>4. Cardinality(Names(T2)) <= Cardinality(FreeCards(C2))
  BY <1>1, <1>3
<1> QED BY <1>2, <1>4 DEF Roomy

\* A name that is done with may have taken one id, and so may a proof.
LEMMA NameTakes ==
    ASSUME NEW T, NEW C, NEW U, Roomy(T, C, U), DOMAIN T = Tasks, NEW h \in Tasks, T[h] # None, T[h].do = "name"
    PROVE  /\ FreeCards(C) # {}
           /\ \A D : \A k \in FreeCards(C) :
                 FreeCards(D) = FreeCards(C) \ {k} => Roomy([T EXCEPT ![h] = None], D, U)
<1>1. h \in Names(T)
  BY DEF Names
<1>2. Cardinality(Names(T)) <= Cardinality(FreeCards(C))
  BY DEF Roomy
<1>3. Cardinality(Names(T) \ {h}) = Cardinality(Names(T)) - 1 /\ Cardinality(Names(T)) \in Nat
      /\ Cardinality(Names(T) \ {h}) \in Nat
  BY <1>1, RoomsFinite, FS_RemoveElement, FS_CardinalityType
<1>4. FreeCards(C) # {}
  BY <1>2, <1>3, FS_EmptySet
<1>5. ASSUME NEW D, NEW k \in FreeCards(C), FreeCards(D) = FreeCards(C) \ {k}
      PROVE  Roomy([T EXCEPT ![h] = None], D, U)
  <2>1. Cardinality(FreeCards(D)) = Cardinality(FreeCards(C)) - 1 /\ Cardinality(FreeCards(C)) \in Nat
    BY <1>5, RoomsFinite, FS_RemoveElement, FS_CardinalityType
  <2> DEFINE T2 == [T EXCEPT ![h] = None]
  <2>2. Names(T2) = Names(T) \ {h}
    BY DEF Names
  <2>3. ASSUME NEW i \in Customers PROVE ProofsOf(T2, i) = ProofsOf(T, i)
    BY DEF ProofsOf
  <2> HIDE DEF T2
  <2>4. Cardinality(Names(T2)) <= Cardinality(FreeCards(D))
    BY <1>2, <1>3, <2>1, <2>2
  <2>5. \A i \in Customers : Cardinality(ProofsOf(T, i)) <= Cardinality(FreeTopups(U, i))
    BY DEF Roomy
  <2>6. \A i \in Customers : ProofsOf(T2, i) = ProofsOf(T, i)
    BY <2>3
  <2>7. Roomy(T2, D, U)
    BY <2>4, <2>5, <2>6 DEF Roomy
  <2> QED BY <2>7 DEF T2
<1> QED BY <1>4, <1>5

LEMMA ProofTakes ==
    ASSUME NEW T, NEW C, NEW U, Roomy(T, C, U), DOMAIN T = Tasks, NEW h \in Tasks, T[h] # None, T[h].do = "proof",
           T[h].who \in Customers
    PROVE  /\ FreeTopups(U, T[h].who) # {}
           /\ \A t \in FreeTopups(U, T[h].who) : \A V :
                 (\A u \in Topups : V[u] = None <=> U[u] = None /\ u # t) => Roomy([T EXCEPT ![h] = None], C, V)
<1> DEFINE me == T[h].who
           T2 == [T EXCEPT ![h] = None]
<1>1. h \in ProofsOf(T, me)
  BY DEF ProofsOf
<1>2. Cardinality(ProofsOf(T, me)) <= Cardinality(FreeTopups(U, me))
  BY DEF Roomy
<1>3. Cardinality(ProofsOf(T, me) \ {h}) = Cardinality(ProofsOf(T, me)) - 1 /\ Cardinality(ProofsOf(T, me)) \in Nat
      /\ Cardinality(ProofsOf(T, me) \ {h}) \in Nat
  BY <1>1, RoomsFinite, FS_RemoveElement, FS_CardinalityType
<1>4. FreeTopups(U, me) # {}
  BY <1>2, <1>3, FS_EmptySet
<1>5. ASSUME NEW t \in FreeTopups(U, me), NEW V, \A u \in Topups : V[u] = None <=> U[u] = None /\ u # t
      PROVE  Roomy(T2, C, V)
  <2>1. Names(T2) = Names(T)
    BY DEF Names
  <2>2. ASSUME NEW i \in Customers, i # me
        PROVE  Cardinality(ProofsOf(T2, i)) <= Cardinality(FreeTopups(V, i))
    <3>1. ProofsOf(T2, i) = ProofsOf(T, i)
      BY <2>2 DEF ProofsOf
    <3>2. FreeTopups(V, i) = FreeTopups(U, i)
      BY <1>5, <2>2 DEF FreeTopups
    <3> QED BY <3>1, <3>2 DEF Roomy
  <2>3. Cardinality(ProofsOf(T2, me)) <= Cardinality(FreeTopups(V, me))
    <3>1. ProofsOf(T2, me) = ProofsOf(T, me) \ {h}
      BY DEF ProofsOf
    <3>2. FreeTopups(V, me) = FreeTopups(U, me) \ {t}
      BY <1>5 DEF FreeTopups
    <3>3. Cardinality(FreeTopups(V, me)) = Cardinality(FreeTopups(U, me)) - 1 /\ Cardinality(FreeTopups(U, me)) \in Nat
      BY <1>5, <3>2, RoomsFinite, FS_RemoveElement, FS_CardinalityType
    <3> HIDE DEF me, T2
    <3> QED BY <1>2, <1>3, <3>1, <3>3
  <2>4. Cardinality(Names(T)) <= Cardinality(FreeCards(C))
    BY DEF Roomy
  <2> HIDE DEF T2
  <2> QED BY <2>1, <2>2, <2>3, <2>4 DEF Roomy
<1> QED BY <1>4, <1>5

\* An update that arrives found room.
LEMMA ArriveTakes ==
    ASSUME AllTyped, NEW h \in Tasks, Arrive(h), Roomy(task, card, db.topup)
    PROVE  Roomy(task', card, db.topup)
<1>1. task[h] = None
  BY ArriveIs
<1>2. PICK x \in Task : task' = [task EXCEPT ![h] = x] /\ Room(x.who, x.do)
  BY ArriveIs
<1>3. DOMAIN task = Tasks /\ x.who \in Customers /\ x # None
  BY NoneCustomersAssumption DEF AllTyped, TalkOK, Task
<1>4. Names(task) = Working("name") /\ \A i : ProofsOf(task, i) = {g \in Working("proof") : task[g].who = i}
  BY DEF Names, ProofsOf, Working
<1>5. FreeCards(card) = NewCards /\ \A i : FreeTopups(db.topup, i) = NewTopups(i)
  BY DEF FreeCards, FreeTopups, NewCards, NewTopups
<1>6. Cardinality(Names(task')) <= Cardinality(FreeCards(card))
  <2>1. CASE x.do = "name"
    <3>1. Names(task') = Names(task) \cup {h} /\ h \notin Names(task)
      BY <1>1, <1>2, <1>3, <2>1 DEF Names
    <3>2. Cardinality(Names(task')) = Cardinality(Names(task)) + 1 /\ Cardinality(Names(task)) \in Nat
      BY <3>1, RoomsFinite, FS_AddElement, FS_CardinalityType
    <3>3. Cardinality(Names(task)) < Cardinality(FreeCards(card))
      BY <1>2, <1>4, <1>5, <2>1 DEF Room
    <3>4. Cardinality(FreeCards(card)) \in Nat
      BY RoomsFinite, FS_CardinalityType
    <3> QED BY <3>2, <3>3, <3>4
  <2>2. CASE x.do # "name"
    <3>1. Names(task') = Names(task)
      BY <1>1, <1>2, <1>3, <2>2 DEF Names
    <3> QED BY <3>1 DEF Roomy
  <2> QED BY <2>1, <2>2
<1>7. ASSUME NEW i \in Customers PROVE Cardinality(ProofsOf(task', i)) <= Cardinality(FreeTopups(db.topup, i))
  <2>1. CASE x.do = "proof" /\ x.who = i
    <3>1. ProofsOf(task', i) = ProofsOf(task, i) \cup {h} /\ h \notin ProofsOf(task, i)
      BY <1>1, <1>2, <1>3, <2>1 DEF ProofsOf
    <3>2. Cardinality(ProofsOf(task', i)) = Cardinality(ProofsOf(task, i)) + 1 /\ Cardinality(ProofsOf(task, i)) \in Nat
      BY <3>1, RoomsFinite, FS_AddElement, FS_CardinalityType
    <3>3. Cardinality(ProofsOf(task, i)) < Cardinality(FreeTopups(db.topup, i))
      BY <1>2, <1>4, <1>5, <2>1 DEF Room
    <3>4. Cardinality(FreeTopups(db.topup, i)) \in Nat
      BY RoomsFinite, FS_CardinalityType
    <3> QED BY <3>2, <3>3, <3>4
  <2>2. CASE ~(x.do = "proof" /\ x.who = i)
    <3>1. ProofsOf(task', i) = ProofsOf(task, i)
      BY <1>1, <1>2, <1>3, <2>2 DEF ProofsOf
    <3> QED BY <3>1 DEF Roomy
  <2> QED BY <2>1, <2>2
<1> QED BY <1>6, <1>7 DEF Roomy

\* Any other step of an update goes on with it or ends it.
StaysOn(h) == \E x : /\ task' = [task EXCEPT ![h] = x] /\ task[h] # None
                     /\ x # None => x.who = task[h].who /\ x.do = task[h].do
LEMMA StaysOnIs ==
    ASSUME AllTyped, NEW h \in Tasks, CustomerSteps(h), ~Arrive(h)
    PROVE  StaysOn(h)
<1> DEFINE Goes(x) == /\ task' = [task EXCEPT ![h] = x] /\ task[h] # None
                      /\ x # None => x.who = task[h].who /\ x.do = task[h].do
<1> SUFFICES \E x : Goes(x)
  BY DEF StaysOn
<1>0. ASSUME NEW x, task' = [task EXCEPT ![h] = x], task[h] # None, x.who = task[h].who, x.do = task[h].do
      PROVE  Goes(x)
  BY <1>0
<1>1. ASSUME Ends(h), task[h] # None PROVE Goes(None)
  BY <1>1 DEF Ends
<1> HIDE DEF Goes
<1>2. task[h] # None
  BY DEF CustomerSteps, Take, Confirm, Charge, ClaimTrial, Buy, Name, Provision, StartTopup, Amount, AskCode, NoCode,
         EnterCode, Method, Proof, AskGift, Gift, Locks, GiveTrial, Support, Over, Handles
<1>3. CASE Take(h)
  BY <1>0, <1>2, <1>3, TakeIs
<1>4. CASE Ends(h)
  BY <1>1, <1>2, <1>4
<1>5. CASE Confirm(h) /\ ~Ends(h)
  BY <1>0, <1>2, <1>5, ConfirmIs
<1>6. CASE Charge(h) /\ ~Ends(h)
  BY <1>0, <1>2, <1>6, ChargeIs
<1>7. CASE ClaimTrial(h) /\ ~Ends(h)
  BY <1>0, <1>2, <1>7, ClaimTrialIs
<1>8. CASE ~(Take(h) \/ Confirm(h) \/ Charge(h) \/ ClaimTrial(h))
  <2>1. Ends(h)
    BY <1>8
    DEF CustomerSteps, Buy, Name, Provision, StartTopup, Amount, AskCode, NoCode, EnterCode, Method, Proof,
        AskGift, Gift, Locks, GiveTrial, Support, Over
  <2> QED BY <1>4, <2>1
<1> QED BY <1>3, <1>4, <1>5, <1>6, <1>7, <1>8

LEMMA WorkShrinks ==
    ASSUME AllTyped, NEW h \in Tasks, StaysOn(h)
    PROVE  Names(task') \subseteq Names(task) /\ \A i : ProofsOf(task', i) \subseteq ProofsOf(task, i)
<1>1. DOMAIN task = Tasks
  BY DEF AllTyped, TalkOK
<1>2. \A g \in Tasks : task'[g] # None => task[g] # None /\ task'[g].who = task[g].who /\ task'[g].do = task[g].do
  BY <1>1 DEF StaysOn
<1> QED BY <1>2 DEF Names, ProofsOf

-----------------------------------------------------------------------------
(* The books: balances and codes add up, nothing is paid before it is      *)
(* charged, and the operation that is charged next is its buyer's, unpaid. *)

Unpaid(cards) == \A c \in Cards : cards[c] # None /\ cards[c].status = "pending" => cards[c].paid = 0
Charging(tasks, cards) ==
    \A h \in Tasks : tasks[h] # None /\ tasks[h].step = "charge" =>
        LET c == tasks[h].n
        IN c \in Cards /\ cards[c] # None /\ cards[c].who = tasks[h].who /\ cards[c].paid = 0
BooksAre(d, cards, tasks) ==
    /\ Settled(d, cards) /\ Counted(d) /\ Unpaid(cards) /\ Charging(tasks, cards)
    /\ Roomy(tasks, cards, d.topup)

\* An operation that goes on, with its charge or none, and one that is new.
LEMMA OutSame ==
    ASSUME NEW C \in [Cards -> Card \cup {None}], NEW k \in Cards, NEW c \in Card, NEW i,
           \/ C[k] = None /\ c.paid = 0
           \/ C[k] \in Card /\ c.who = C[k].who /\ c.paid = C[k].paid
    PROVE  Out([C EXCEPT ![k] = c], i) = Out(C, i)
<1> DEFINE D == [C EXCEPT ![k] = c]
<1>1. \A j : Out(D, j) = Out(C, j) - Took(C, j)[k] + (IF c.who = j THEN c.paid ELSE 0)
  BY OutChanges
<1>2. Took(C, i)[k] = IF c.who = i THEN c.paid ELSE 0
  BY NoneCustomersAssumption DEF Took
<1>3. Out(C, i) \in Int /\ Took(C, i)[k] \in Int
  BY TookIs
<1> HIDE DEF D
<1>4. Out(D, i) = Out(C, i)
  BY <1>1, <1>2, <1>3
<1> QED BY <1>4 DEF D

LEMMA CardsStay ==
    ASSUME NEW C \in [Cards -> Card \cup {None}], NEW k \in Cards, C[k] \in Card, NEW c \in Card
    PROVE  FreeCards([C EXCEPT ![k] = c]) = FreeCards(C)
<1>1. C[k] # None /\ c # None
  BY NoneCustomersAssumption
<1> QED BY <1>1 DEF FreeCards

LEMMA UnpaidStays ==
    ASSUME NEW C \in [Cards -> Card \cup {None}], NEW k \in Cards, NEW c \in Card, Unpaid(C),
           c.status = "pending" => c.paid = 0
    PROVE  Unpaid([C EXCEPT ![k] = c])
BY DEF Unpaid

LEMMA ChargingStays ==
    ASSUME NEW C \in [Cards -> Card \cup {None}], NEW k \in Cards, NEW c \in Card, NEW T, Charging(T, C),
           \/ C[k] = None
           \/ c.who = C[k].who /\ (C[k].paid = 0 => c.paid = 0)
           \/ \A h \in Tasks : T[h] # None /\ T[h].step = "charge" => T[h].n # k
    PROVE  Charging(T, [C EXCEPT ![k] = c])
<1>1. c # None
  BY NoneCustomersAssumption
<1> QED BY <1>1 DEF Charging

LEMMA ChargingMoves ==
    ASSUME NEW C, NEW T, Charging(T, C), DOMAIN T = Tasks, NEW h \in Tasks, NEW x,
           \/ x = None
           \/ x.step # "charge"
           \/ x.n \in Cards /\ C[x.n] # None /\ C[x.n].who = x.who /\ C[x.n].paid = 0
    PROVE  Charging([T EXCEPT ![h] = x], C)
BY DEF Charging

\* Nothing of the books changes but whom an update works for.
LEMMA MovesBooks ==
    ASSUME NEW d \in Database, NEW i \in Customers, NEW n \in Int, d.cust[i].bal + n >= 0
    PROVE  LET e == Moves(d, i, n)
           IN e.topup = d.topup /\ e.code = d.code /\ (Counted(d) => Counted(e))
<1>1. /\ Moves(d, i, n).topup = d.topup /\ Moves(d, i, n).code = d.code
      /\ Moves(d, i, n).uses = d.uses
  BY MovesIs
<1> QED BY <1>1 DEF Counted

\* The end of a purchase: done, or given back.
LEMMA SettlesBooks ==
    ASSUME AllTyped, NEW k \in Cards, card[k] \in Card, Settles(k), Settled(db, card), Counted(db), Unpaid(card),
           NEW T, Charging(T, card)
    PROVE  /\ Settled(db', card') /\ Counted(db') /\ Unpaid(card') /\ Charging(T, card')
           /\ FreeCards(card') = FreeCards(card) /\ db'.topup = db.topup /\ db'.code = db.code
<1>0. card \in [Cards -> Card \cup {None}] /\ db \in Database
  BY SettlesIs DEF AllTyped, TalkOK
<1>1. CASE db' = db
  <2>1. PICK c \in Card : /\ card' = [card EXCEPT ![k] = c] /\ c.who = card[k].who
                          /\ c.paid = card[k].paid /\ c.status # "pending"
    <3>1. CASE \E c \in Card : /\ card' = [card EXCEPT ![k] = c] /\ c.who = card[k].who
                               /\ c.status = "done" /\ c.paid = card[k].paid
      BY <3>1
    <3>2. CASE /\ db' = Moves(db, card[k].who, card[k].paid) /\ db.cust[card[k].who].bal + card[k].paid >= 0
               /\ card[k].paid \in Int /\ card[k].who \in Customers
               /\ \E c \in Card : /\ card' = [card EXCEPT ![k] = c] /\ c.who = card[k].who
                                  /\ c.status = "failed" /\ c.paid = 0
      <4>1. db'.cust[card[k].who].bal = db.cust[card[k].who].bal + card[k].paid
        BY <1>0, <3>2, MovesIs
      <4>2. db.cust[card[k].who].bal \in Int
        BY <1>0, <3>2 DEF Database, Customer
      <4>3. card[k].paid = 0
        BY <1>1, <3>2, <4>1, <4>2
      <4> QED BY <3>2, <4>3
    <3> QED BY <3>1, <3>2, SettlesIs
  <2>2. Charging(T, card') /\ Unpaid(card') /\ FreeCards(card') = FreeCards(card)
    BY <1>0, <2>1, ChargingStays, UnpaidStays, CardsStay
  <2>3. \A i : Out(card', i) = Out(card, i)
    BY <1>0, <2>1, OutSame
  <2>4. Settled(db, card')
    BY <2>3, SameSettled
  <2> QED BY <1>1, <2>2, <2>4
<1>2. CASE db' # db
  <2>1. /\ db.cust[card[k].who].bal + card[k].paid >= 0 /\ card[k].paid \in Int
        /\ card[k].who \in Customers
        /\ db' = Moves(db, card[k].who, card[k].paid)
    BY <1>2, SettlesIs
  <2>2. PICK c \in Card : /\ card' = [card EXCEPT ![k] = c] /\ c.who = card[k].who
                          /\ c.status = "failed" /\ c.paid = 0
    BY <1>2, SettlesIs
  <2>3. Charging(T, card') /\ Unpaid(card') /\ FreeCards(card') = FreeCards(card)
    BY <1>0, <2>2, ChargingStays, UnpaidStays, CardsStay
  <2>4. c.paid = card[k].paid - card[k].paid
    BY <2>1, <2>2
  <2>5. Settled(db', card')
    BY <1>0, <2>1, <2>2, <2>4, MovesSettled
  <2>6. db'.topup = db.topup /\ db'.code = db.code /\ Counted(db')
    BY <1>0, <2>1, MovesBooks
  <2> QED BY <2>3, <2>5, <2>6
<1> QED BY <1>1, <1>2

\* What most updates do to the books: nothing.
LEMMA RestBooks ==
    ASSUME AllTyped, BooksAre(db, card, task), NEW h \in Tasks, StaysOn(h), NEW D, NEW e,
           Settled(e, D), Counted(e), Unpaid(D), Charging(task', D), FreeCards(D) = FreeCards(card),
           \A i \in Customers : FreeTopups(e.topup, i) = FreeTopups(db.topup, i)
    PROVE  BooksAre(e, D, task')
<1>1. Roomy(task, card, db.topup)
  BY DEF BooksAre
<1>2. Roomy(task', D, e.topup)
  BY <1>1, WorkShrinks, RoomStays
<1> QED BY <1>2 DEF BooksAre

LEMMA ChargeBooks ==
    ASSUME AllTyped, OneServed, BooksAre(db, card, task), NEW h \in Tasks, Charge(h)
    PROVE  BooksAre(db', card', task') /\ db'.code = db.code
<1> DEFINE k == task[h].n
<1>0. card \in [Cards -> Card \cup {None}] /\ DOMAIN task = Tasks
  BY DEF AllTyped, TalkOK
<1>1. /\ task[h] # None /\ task[h].step = "charge" /\ db \in Database
      /\ k \in Cards /\ card[k] \in Card
  BY ChargeIs
<1>2. Settled(db, card) /\ Counted(db) /\ Unpaid(card) /\ Charging(task, card)
  BY DEF BooksAre
<1>3. StaysOn(h)
  <2>1. ~Arrive(h)
    BY <1>1 DEF Arrive
  <2> QED BY <2>1, StaysOnIs DEF CustomerSteps
<1>4. CASE Ends(h) /\ UNCHANGED <<db, card>>
  <2>1. Charging(task', card)
    BY <1>0, <1>2, <1>4, ChargingMoves DEF Ends
  <2> QED BY <1>2, <1>3, <1>4, <2>1, RestBooks
<1>5. CASE ~(Ends(h) /\ UNCHANGED <<db, card>>)
  <2>1. /\ db.cust[Who(h)].bal + (-task[h].price) >= 0 /\ -task[h].price \in Int
        /\ db' = Moves(db, Who(h), -task[h].price)
    BY <1>5, ChargeIs
  <2>2. PICK x \in Task : /\ task' = [task EXCEPT ![h] = x] /\ Fit(x, card) /\ x.step = "panel"
    BY <1>5, ChargeIs
  <2>3. PICK c \in Card : /\ card' = [card EXCEPT ![k] = c] /\ c.who = card[k].who
                          /\ c.status = "in_progress" /\ c.paid = task[h].price
    BY <1>5, ChargeIs
  <2>4. card[k].who = task[h].who /\ card[k].paid = 0
    BY <1>1, <1>2 DEF Charging
  <2>5. Who(h) = task[h].who /\ Who(h) \in Customers /\ task[h].price \in Nat
    BY <1>1, TaskIs
  <2>6. c.paid = card[k].paid - (-task[h].price)
    BY <2>3, <2>4, <2>5
  <2>7. Settled(db', card')
    <3>1. card[k].who = Who(h) /\ c.who = Who(h)
      BY <2>3, <2>4, <2>5
    <3> HIDE DEF k
    <3> QED BY <1>0, <1>1, <1>2, <2>1, <2>3, <2>5, <2>6, <3>1, MovesSettled
  <2>8. db'.topup = db.topup /\ db'.code = db.code /\ Counted(db')
    BY <1>1, <1>2, <2>1, <2>5, MovesBooks
  <2>9. Charging(task', card)
    BY <1>0, <1>2, <2>2, ChargingMoves
  <2>10. ASSUME NEW g \in Tasks, task'[g] # None, task'[g].step = "charge", task'[g].n = k PROVE FALSE
    <3>1. g # h /\ task[g] # None /\ task[g].step = "charge" /\ task[g].n = k
      BY <1>0, <2>2, <2>10
    <3>2. task[g].who = card[k].who
      BY <1>2, <3>1 DEF Charging
    <3> QED BY <1>1, <2>4, <3>1, <3>2 DEF OneServed, Serves
  <2>11. Charging(task', card')
    BY <1>0, <1>1, <2>3, <2>9, <2>10, ChargingStays
  <2>12. Unpaid(card') /\ FreeCards(card') = FreeCards(card)
    BY <1>0, <1>1, <1>2, <2>3, UnpaidStays, CardsStay
  <2> QED BY <1>3, <2>7, <2>8, <2>11, <2>12, RestBooks
<1> QED BY <1>4, <1>5

LEMMA ProvisionBooks ==
    ASSUME AllTyped, BooksAre(db, card, task), NEW h \in Tasks, Provision(h)
    PROVE  BooksAre(db', card', task') /\ db'.code = db.code
<1>1. task[h] # None /\ task[h].step = "panel" /\ Settles(task[h].n) /\ Ends(h) /\ DOMAIN task = Tasks
  BY DEF Provision, AllTyped, TalkOK
<1>2. task[h].n \in Cards /\ card[task[h].n] \in Card
  BY <1>1, TaskIs DEF Fit
<1>3. StaysOn(h)
  <2>1. ~Arrive(h)
    BY <1>1 DEF Arrive
  <2> QED BY <2>1, StaysOnIs DEF CustomerSteps
<1>4. Settled(db, card) /\ Counted(db) /\ Unpaid(card) /\ Charging(task, card)
  BY DEF BooksAre
<1>5. Charging(task', card)
  BY <1>1, <1>4, ChargingMoves DEF Ends
<1>6. PICK n : n = task[h].n
  OBVIOUS
<1>7. PICK T : T = task'
  OBVIOUS
<1>8. /\ Settled(db', card') /\ Counted(db') /\ Unpaid(card') /\ Charging(T, card')
      /\ FreeCards(card') = FreeCards(card) /\ db'.topup = db.topup /\ db'.code = db.code
  BY <1>1, <1>2, <1>4, <1>5, <1>6, <1>7, SettlesBooks
<1> QED BY <1>3, <1>7, <1>8, RestBooks

LEMMA ReapBooks ==
    ASSUME AllTyped, BooksAre(db, card, task), NEW c \in Cards, ReapCard(c)
    PROVE  BooksAre(db', card', task') /\ db'.code = db.code
<1>1. card[c] \in Card /\ Settles(c) /\ task' = task
  BY ReapCardIs
<1>2. /\ Settled(db, card) /\ Counted(db) /\ Unpaid(card) /\ Charging(task, card)
      /\ Roomy(task, card, db.topup)
  BY DEF BooksAre
<1>3. /\ Settled(db', card') /\ Counted(db') /\ Unpaid(card') /\ Charging(task, card')
      /\ FreeCards(card') = FreeCards(card) /\ db'.topup = db.topup /\ db'.code = db.code
  BY <1>1, <1>2, SettlesBooks
<1>4. Roomy(task, card', db'.topup)
  BY <1>2, <1>3, RoomStays
<1> QED BY <1>1, <1>3, <1>4 DEF BooksAre

LEMMA NameBooks ==
    ASSUME AllTyped, BooksAre(db, card, task), NEW h \in Tasks, Name(h)
    PROVE  BooksAre(db', card', task') /\ db'.code = db.code
<1>0. card \in [Cards -> Card \cup {None}] /\ DOMAIN task = Tasks /\ db' = db
  BY DEF AllTyped, TalkOK, Name
<1>1. task[h] # None /\ task[h].do = "name" /\ task' = [task EXCEPT ![h] = None]
  BY NameIs DEF Name, Ends
<1>2. /\ Settled(db, card) /\ Counted(db) /\ Unpaid(card) /\ Charging(task, card)
      /\ Roomy(task, card, db.topup)
  BY DEF BooksAre
<1>3. Charging(task', card)
  BY <1>0, <1>1, <1>2, ChargingMoves
<1>4. CASE card' = card
  <2>1. ~Arrive(h)
    BY <1>1 DEF Arrive
  <2>2. StaysOn(h)
    BY <2>1, StaysOnIs DEF CustomerSteps
  <2> QED BY <1>0, <1>2, <1>3, <1>4, <2>2, RestBooks
<1>5. CASE card' # card
  <2>1. PICK k : k = Min(NewCards)
    OBVIOUS
  <2>2. PICK c \in Card : /\ card' = [card EXCEPT ![k] = c] /\ c.status = "pending" /\ c.paid = 0
    BY <1>5, <2>1, NameIs
  <2>3. /\ FreeCards(card) # {}
        /\ \A D : \A x \in FreeCards(card) :
              FreeCards(D) = FreeCards(card) \ {x} => Roomy([task EXCEPT ![h] = None], D, db.topup)
    BY <1>0, <1>1, <1>2, NameTakes
  <2>4. k \in FreeCards(card)
    <3>1. NewCards = FreeCards(card) /\ NewCards \in SUBSET Nat
      BY CustomersAssumption DEF NewCards, FreeCards
    <3> QED BY <2>1, <2>3, <3>1, MinIsIn
  <2>5. k \in Cards /\ card[k] = None /\ c # None
    BY <2>4, NoneCustomersAssumption DEF FreeCards
  <2>6. FreeCards(card') = FreeCards(card) \ {k}
    BY <1>0, <2>2, <2>5 DEF FreeCards
  <2>7. Roomy(task', card', db.topup)
    BY <1>1, <2>3, <2>4, <2>6
  <2>8. Unpaid(card') /\ Charging(task', card')
    BY <1>0, <1>2, <1>3, <2>2, <2>5, UnpaidStays, ChargingStays
  <2>9. \A i : Out(card', i) = Out(card, i)
    BY <1>0, <2>2, <2>5, OutSame
  <2>10. Settled(db, card')
    BY <1>2, <2>9, SameSettled
  <2> QED BY <1>0, <1>2, <2>7, <2>8, <2>10 DEF BooksAre
<1> QED BY <1>4, <1>5

LEMMA ConfirmBooks ==
    ASSUME AllTyped, BooksAre(db, card, task), NEW h \in Tasks, Confirm(h)
    PROVE  BooksAre(db', card', task') /\ db'.code = db.code
<1> DEFINE k == task[h].n
<1>0. card \in [Cards -> Card \cup {None}] /\ DOMAIN task = Tasks /\ db' = db
  BY DEF AllTyped, TalkOK, Confirm
<1>1. task[h] # None /\ k \in Cards /\ card[k] \in Card
  BY ConfirmIs
<1>2. Settled(db, card) /\ Counted(db) /\ Unpaid(card) /\ Charging(task, card)
  BY DEF BooksAre
<1>3. StaysOn(h)
  <2>1. ~Arrive(h)
    BY <1>1 DEF Arrive
  <2> QED BY <2>1, StaysOnIs DEF CustomerSteps
<1>4. CASE Ends(h) /\ UNCHANGED card
  <2>1. Charging(task', card)
    BY <1>0, <1>2, <1>4, ChargingMoves DEF Ends
  <2> QED BY <1>0, <1>2, <1>3, <1>4, <2>1, RestBooks
<1>5. ASSUME Ends(h), NEW c \in Card, card' = [card EXCEPT ![k] = c], c.who = card[k].who, c.status = "failed",
             c.paid = card[k].paid
      PROVE  BooksAre(db', card', task')
  <2>1. Charging(task', card)
    BY <1>0, <1>2, <1>5, ChargingMoves DEF Ends
  <2>2. Unpaid(card') /\ Charging(task', card') /\ FreeCards(card') = FreeCards(card)
    BY <1>0, <1>1, <1>2, <1>5, <2>1, UnpaidStays, ChargingStays, CardsStay
  <2>3. \A i : Out(card', i) = Out(card, i)
    BY <1>0, <1>1, <1>5, OutSame
  <2>4. Settled(db, card')
    BY <1>2, <2>3, SameSettled
  <2> QED BY <1>0, <1>2, <1>3, <2>2, <2>4, RestBooks
<1>6. ASSUME Claimable(h, k), UNCHANGED card, NEW x \in Task, task' = [task EXCEPT ![h] = x],
             x.who = task[h].who, x.n = k
      PROVE  BooksAre(db', card', task')
  <2>1. card[k] # None /\ card[k].who = x.who /\ card[k].status = "pending"
    BY <1>1, <1>6, NoneCustomersAssumption DEF Claimable, Who
  <2>2. card[k].paid = 0
    BY <1>1, <1>2, <2>1 DEF Unpaid
  <2>3. Charging(task', card)
    BY <1>0, <1>1, <1>2, <1>6, <2>1, <2>2, ChargingMoves
  <2> QED BY <1>0, <1>2, <1>3, <1>6, <2>3, RestBooks
<1>7. \/ Ends(h) /\ UNCHANGED card
      \/ /\ Ends(h)
         /\ \E c \in Card : /\ card' = [card EXCEPT ![k] = c]
                            /\ c.who = card[k].who /\ c.status = "failed" /\ c.paid = card[k].paid
      \/ /\ Claimable(h, k) /\ UNCHANGED card
         /\ \E x \in Task : /\ task' = [task EXCEPT ![h] = x] /\ x.who = task[h].who /\ x.n = k
  BY ConfirmIs
<1> QED BY <1>0, <1>4, <1>5, <1>6, <1>7

LEMMA ProofBooks ==
    ASSUME AllTyped, BooksAre(db, card, task), NEW h \in Tasks, Proof(h)
    PROVE  BooksAre(db', card', task') /\ db'.code = db.code
<1>0. DOMAIN task = Tasks /\ card' = card
  BY DEF AllTyped, TalkOK, Proof
<1>1. task[h] # None /\ task[h].do = "proof" /\ db \in Database /\ task' = [task EXCEPT ![h] = None]
  BY ProofIs DEF Proof, Ends
<1>2. /\ Settled(db, card) /\ Counted(db) /\ Unpaid(card) /\ Charging(task, card)
      /\ Roomy(task, card, db.topup)
  BY DEF BooksAre
<1>3. Charging(task', card)
  BY <1>0, <1>1, <1>2, ChargingMoves
<1>4. CASE db' = db
  <2>1. ~Arrive(h)
    BY <1>1 DEF Arrive
  <2>2. StaysOn(h)
    BY <2>1, StaysOnIs DEF CustomerSteps
  <2> QED BY <1>0, <1>2, <1>3, <1>4, <2>2, RestBooks
<1>5. CASE db' # db
  <2>1. PICK me : me = task[h].who
    OBVIOUS
  <2>2. PICK t : t = Min(NewTopups(me))
    OBVIOUS
  <2>3. me \in Customers /\ Who(h) = me
    BY <1>1, <2>1, TaskIs
  <2>4. PICK row \in SomeTopup : /\ row.status = "pending"
                                 /\ db' = [db EXCEPT !.topup = [db.topup EXCEPT ![t] = row]]
    BY <1>5, <2>2, <2>3, ProofIs
  <2>5. /\ FreeTopups(db.topup, me) # {}
        /\ \A x \in FreeTopups(db.topup, me) : \A V :
              (\A u \in Topups : V[u] = None <=> db.topup[u] = None /\ u # x)
                => Roomy([task EXCEPT ![h] = None], card, V)
    <3>1. task[h].who \in Customers
      BY <2>1, <2>3
    <3>2. /\ FreeTopups(db.topup, task[h].who) # {}
          /\ \A x \in FreeTopups(db.topup, task[h].who) : \A V :
                (\A u \in Topups : V[u] = None <=> db.topup[u] = None /\ u # x)
                  => Roomy([task EXCEPT ![h] = None], card, V)
      BY <1>0, <1>1, <1>2, <3>1, ProofTakes
    <3> QED BY <2>1, <3>2, Zenon
  <2>6. t \in FreeTopups(db.topup, me)
    <3>1. NewTopups(me) = FreeTopups(db.topup, me) /\ NewTopups(me) \in SUBSET Nat
      BY IdsAssumption DEF NewTopups, FreeTopups
    <3> QED BY <2>2, <2>5, <3>1, MinIsIn
  <2>7. t \in Topups /\ db.topup[t] = None /\ row # None /\ row \in Topup /\ db.topup \in [Topups -> Topup]
    BY <1>1, <2>6, NoneShopAssumption DEF FreeTopups, Topup, Database
  <2> DEFINE V == [db.topup EXCEPT ![t] = row]
  <2>8. \A u \in Topups : V[u] = None <=> db.topup[u] = None /\ u # t
    BY <2>7
  <2>9. db'.topup = V /\ db'.cust = db.cust /\ db'.ledger = db.ledger /\ db'.uses = db.uses /\ db'.code = db.code
    BY <1>1, <2>4 DEF Database
  <2>10. ASSUME NEW i PROVE In(V, i) = In(db.topup, i)
    <3>1. \A j : In(V, j) = In(db.topup, j) - Brought(db.topup, j)[t]
                            + (IF Buyer[t] = j /\ row # None /\ row.status = "confirmed" THEN row.amount ELSE 0)
      BY <2>7, InChanges
    <3>2. Brought(db.topup, i)[t] = 0
      BY <2>7 DEF Brought
    <3>3. In(db.topup, i) \in Int
      BY <2>7, BroughtIs
    <3> HIDE DEF V
    <3> QED BY <2>4, <3>1, <3>2, <3>3
  <2> HIDE DEF V
  <2>11. Settled(db', card)
    BY <1>2, <2>9, <2>10, SameSettled
  <2>12. Counted(db')
    BY <1>2, <2>9 DEF Counted
  <2>13. Roomy(task', card, db'.topup)
    BY <1>1, <2>5, <2>6, <2>8, <2>9
  <2> QED BY <1>0, <1>2, <1>3, <2>9, <2>11, <2>12, <2>13 DEF BooksAre
<1> QED BY <1>4, <1>5

LEMMA GiftBooks ==
    ASSUME AllTyped, BooksAre(db, card, task), NEW h \in Tasks, Gift(h)
    PROVE  BooksAre(db', card', task') /\ (db.code # None => db'.code # None)
<1>0. DOMAIN task = Tasks /\ card' = card /\ card \in [Cards -> Card \cup {None}]
  BY DEF AllTyped, TalkOK, Gift
<1>1. task[h] # None /\ Who(h) \in Customers /\ db \in Database /\ task' = [task EXCEPT ![h] = None]
  BY GiftIs DEF Gift, Ends
<1>2. Settled(db, card) /\ Counted(db) /\ Unpaid(card) /\ Charging(task, card)
  BY DEF BooksAre
<1>3. Charging(task', card)
  BY <1>0, <1>1, <1>2, ChargingMoves
<1>4. StaysOn(h)
  <2>1. ~Arrive(h)
    BY <1>1 DEF Arrive
  <2> QED BY <2>1, StaysOnIs DEF CustomerSteps
<1>5. CASE db' = db
  BY <1>0, <1>2, <1>3, <1>4, <1>5, RestBooks
<1>6. CASE db' # db
  <2>1. PICK me : me = Who(h)
    OBVIOUS
  <2>2. Redeemable(db, me, 0) /\ db.code # None /\ db' = Redeem(db, me) /\ me \in Customers
    BY <1>1, <1>6, <2>1, GiftIs
  <2>3. Settled(db', card) /\ Counted(db')
    BY <1>0, <1>1, <1>2, <2>2, RedeemSettled
  <2>4. db'.topup = db.topup /\ db'.code # None
    BY <1>1, <2>2, RedeemIs
  <2> QED BY <1>0, <1>2, <1>3, <1>4, <2>3, <2>4, RestBooks
<1> QED BY <1>5, <1>6

LEMMA FlagBooks ==
    ASSUME db \in Database, NEW i \in Customers, NEW b \in BOOLEAN, NEW C, Settled(db, C), Counted(db),
           db' = TrialSet(db, i, b)
    PROVE  Settled(db', C) /\ Counted(db') /\ db'.topup = db.topup /\ db'.code = db.code
<1>1. /\ \A j \in Customers : db'.cust[j].bal = db.cust[j].bal
      /\ db'.topup = db.topup /\ db'.code = db.code /\ db'.ledger = db.ledger /\ db'.uses = db.uses
  BY TrialSetIs
<1>2. Settled(db', C)
  BY <1>1, SameSettled
<1> QED BY <1>1, <1>2 DEF Counted

LEMMA CustomersBooks ==
    ASSUME AllTyped, OneServed, BooksAre(db, card, task), NEW h \in Tasks, CustomerSteps(h)
    PROVE  BooksAre(db', card', task') /\ (db.code # None => db'.code # None)
<1>0. DOMAIN task = Tasks /\ card \in [Cards -> Card \cup {None}] /\ db \in Database
  BY DEF AllTyped, TalkOK, Typed, TypeOK
<1>1. /\ Settled(db, card) /\ Counted(db) /\ Unpaid(card) /\ Charging(task, card)
      /\ Roomy(task, card, db.topup)
  BY DEF BooksAre
<1>2. CASE Arrive(h)
  <2>1. PICK x \in Task : task' = [task EXCEPT ![h] = x] /\ x.step \in {"arrived", "taken"}
    BY <1>2, ArriveIs
  <2>2. Charging(task', card)
    BY <1>0, <1>1, <2>1, ChargingMoves
  <2>3. db' = db /\ card' = card
    BY <1>2 DEF Arrive
  <2>4. Roomy(task', card, db.topup)
    BY <1>1, <1>2, ArriveTakes
  <2> QED BY <1>1, <2>2, <2>3, <2>4 DEF BooksAre
<1>3. CASE ~Arrive(h) /\ ~Charge(h) /\ ~Provision(h) /\ ~Name(h) /\ ~Confirm(h) /\ ~Proof(h) /\ ~Gift(h)
  <2>1. StaysOn(h)
    BY <1>3, StaysOnIs
  <2>2. ASSUME NEW x, task' = [task EXCEPT ![h] = x], x = None \/ x.step # "charge" PROVE Charging(task', card)
    BY <1>0, <1>1, <2>2, ChargingMoves
  <2>3. Charging(task', card)
    <3>1. CASE Ends(h)
      BY <2>2, <3>1 DEF Ends
    <3>2. CASE Take(h)
      BY <2>2, <3>2, TakeIs
    <3>3. CASE ClaimTrial(h) /\ ~Ends(h)
      BY <2>2, <3>3, ClaimTrialIs
    <3>4. CASE ~Take(h) /\ ~ClaimTrial(h)
      BY <1>3, <3>1, <3>4
      DEF CustomerSteps, Buy, StartTopup, Amount, AskCode, NoCode, EnterCode, Method, AskGift, Locks, GiveTrial,
          Support, Over
    <3> QED BY <3>1, <3>2, <3>3, <3>4
  <2>4. card' = card
    BY <1>3 DEF CustomerSteps, Take, Buy, StartTopup, Amount, AskCode, NoCode, EnterCode, Method, AskGift, Locks,
                ClaimTrial, GiveTrial, Support, Over, Silent
  <2>5. CASE db' = db
    BY <1>1, <2>1, <2>3, <2>4, <2>5, RestBooks
  <2>6. ASSUME NEW i \in Customers, NEW b \in BOOLEAN, db' = TrialSet(db, i, b)
        PROVE  BooksAre(db', card', task') /\ db'.code = db.code
    <3>1. Settled(db', card) /\ Counted(db') /\ db'.topup = db.topup /\ db'.code = db.code
      BY <1>0, <1>1, <2>6, FlagBooks
    <3> QED BY <1>1, <2>1, <2>3, <2>4, <3>1, RestBooks
  <2>7. PICK me : me = Who(h)
    OBVIOUS
  <2>8. CASE ClaimTrial(h) /\ db' # db
    <3>1. PICK b \in BOOLEAN : b = TRUE
      OBVIOUS
    <3>2. me \in Customers /\ db' = TrialSet(db, me, b)
      BY <2>7, <2>8, <3>1, ClaimTrialIs
    <3> QED BY <2>6, <3>2
  <2>9. CASE GiveTrial(h) /\ db' # db
    <3>1. PICK b \in BOOLEAN : b = FALSE
      OBVIOUS
    <3>2. me \in Customers /\ db' = TrialSet(db, me, b)
      BY <2>7, <2>9, <3>1, GiveTrialIs DEF TrialAnswered
    <3> QED BY <2>6, <3>2
  <2>10. CASE ~ClaimTrial(h) /\ ~GiveTrial(h)
    <3>1. db' = db
      BY <1>3, <2>10 DEF CustomerSteps, Take, Buy, StartTopup, Amount, AskCode, NoCode, EnterCode, Method, AskGift,
                          Locks, Support, Over, Silent
    <3> QED BY <2>5, <3>1
  <2> QED BY <2>5, <2>8, <2>9, <2>10
<1> QED BY <1>2, <1>3, ChargeBooks, ProvisionBooks, NameBooks, ConfirmBooks, ProofBooks, GiftBooks

\* No command is lost a code that it loaded.
LEMMA CodeStaysKept ==
    ASSUME AllTyped, CodeStays, db.code # None => db'.code # None,
           Next \/ UNCHANGED req
    PROVE  CodeStays'
<1>1. CASE UNCHANGED req
  BY <1>1 DEF CodeStays
<1>2. ASSUME Next, NEW s \in Slots, NEW q, Holds(s, q), Turn(s, q) PROVE CodeStays'
  <2>0. SlotsOK /\ DOMAIN req = Slots
    BY DEF AllTyped, Typed, TypeOK
  <2>1. \A o \in Slots \ {s} : req'[o] = req[o]
    BY <2>0, <1>2 DEF Holds
  <2>2. req'[s] = q
    BY <2>0, <1>2 DEF Holds
  <2>3. ASSUME q # None, q.step = "open" PROVE q.view = db /\ db' = db
    BY <2>0, <1>2, <2>3 DEF Turn, Opens, SlotsOK, Good
  <2>4. ASSUME NEW o \in Slots, req'[o] # None, req'[o].step = "open", req'[o].view.code # None
        PROVE  db'.code # None
    <3>1. CASE o = s
      BY <2>2, <2>3, <2>4, <3>1
    <3>2. CASE o # s
      BY <2>1, <2>4, <3>2 DEF CodeStays
    <3> QED BY <3>1, <3>2
  <2> QED BY <2>4 DEF CodeStays
<1>3. CASE Next
  <2>1. Turns1
    BY <1>3, SlotSteps DEF AllTyped
  <2> QED BY <1>1, <1>2, <1>3, <2>1 DEF Turns1
<1> QED BY <1>1, <1>3

\* What an administrator's commit, or any other step of his, does to the books.
LEMMA AdminsBooks ==
    ASSUME AllTyped, BooksAre(db, card, task), CodeStays, Next, UNCHANGED talking
    PROVE  BooksAre(db', card', task') /\ (db.code # None => db'.code # None)
<1>0. /\ db \in Database /\ card \in [Cards -> Card \cup {None}] /\ Typed /\ card' = card /\ task' = task
  BY DEF AllTyped, TalkOK, Typed, TypeOK, talking
<1>1. /\ Settled(db, card) /\ Counted(db) /\ Unpaid(card) /\ Charging(task, card)
      /\ Roomy(task, card, db.topup)
  BY DEF BooksAre
<1>2. ASSUME Settled(db', card), Counted(db'), \A t \in Topups : db'.topup[t] = None <=> db.topup[t] = None
      PROVE  BooksAre(db', card', task')
  <2>1. \A i \in Customers : FreeTopups(db'.topup, i) = FreeTopups(db.topup, i)
    BY <1>2 DEF FreeTopups
  <2>2. Roomy(task, card, db'.topup)
    BY <1>1, <2>1, RoomStays
  <2> QED BY <1>0, <1>1, <1>2, <2>2 DEF BooksAre
<1>3. ASSUME SameMoney(db'), SameCode(db') PROVE BooksAre(db', card', task')
  <2>1. Settled(db', card)
    BY <1>1, <1>3, SameSettled DEF SameMoney
  <2>2. db'.uses = db.uses /\ db'.topup = db.topup
    BY <1>3 DEF SameMoney
  <2>3. Counted(db')
    <3>1. CASE db'.code = db.code
      BY <1>1, <2>2, <3>1 DEF Counted
    <3>2. CASE db.code = None /\ db'.code \in Code /\ db'.code # None /\ db'.code.used = 0
      <4>1. \A i \in Customers : db.uses[i] = 0
        BY <1>1, <3>2 DEF Counted
      <4>2. SumFunctionOnSet(db.uses, Customers) = 0
        BY <4>1, SumOfNothing, IdsAssumption
      <4>3. db'.code.cap \in Nat
        BY <3>2 DEF Code
      <4> QED BY <1>1, <2>2, <3>2, <4>2, <4>3 DEF Counted
    <3>3. CASE /\ db.code # None /\ db'.code # None
               /\ db'.code.used = db.code.used /\ db'.code.cap = db.code.cap
      BY <1>1, <2>2, <3>3 DEF Counted
    <3> QED BY <1>3, <3>1, <3>2, <3>3 DEF SameCode
  <2> QED BY <1>2, <2>1, <2>2, <2>3
<1>4. ASSUME NEW s \in Slots, Commit(s) PROVE BooksAre(db', card', task') /\ (db.code # None => db'.code # None)
  <2>1. /\ req[s] # None /\ req[s].cmd \in Command /\ db \in Database /\ db' \in Database
        /\ req[s].cmd.do \in {"adjust_wallet", "set_topup_decision"} => db' \in Outcomes(req[s].cmd, db)
        /\ req[s].cmd.do = "set_topup_decision" => db.topup[req[s].cmd.t] # None
        /\ req[s].cmd.do \notin {"adjust_wallet", "set_topup_decision"} =>
             SameMoney(db') /\ SameCode(db')
        /\ db.code # None => db'.code # None
    BY <1>0, <1>4, CommitEffects
  <2>2. PICK cmd \in Command : cmd = req[s].cmd
    BY <2>1
  <2>3. CASE cmd.do \notin {"adjust_wallet", "set_topup_decision"}
    BY <1>3, <2>1, <2>2, <2>3
  <2>4. CASE cmd.do = "set_topup_decision"
    <3>1. /\ Settled(db', card) /\ Counted(db')
          /\ \A t \in Topups : db'.topup[t] = None <=> db.topup[t] = None
      BY <1>0, <1>1, <2>1, <2>2, <2>4, DecisionSettled
    <3> QED BY <1>2, <2>1, <3>1
  <2>5. CASE cmd.do = "adjust_wallet"
    <3>1. PICK i : i = cmd.c
      OBVIOUS
    <3>2. i \in Customers /\ \E n \in Int :
            /\ db.cust[i].bal + n >= 0
            /\ db' = [Moves(db, i, n) EXCEPT !.ledger = [db.ledger EXCEPT ![i] = db.ledger[i] + n]]
      BY <2>1, <2>2, <2>5, <3>1, AdjustOutcomes
    <3>3. PICK n \in Int :
            /\ db.cust[i].bal + n >= 0
            /\ db' = [Moves(db, i, n) EXCEPT !.ledger = [db.ledger EXCEPT ![i] = db.ledger[i] + n]]
      BY <3>2
    <3> DEFINE m == Moves(db, i, n)
    <3>4. /\ m \in Database /\ m.cust[i].bal = db.cust[i].bal + n /\ (\A j \in Customers \ {i} : m.cust[j] = db.cust[j])
          /\ m.topup = db.topup /\ m.uses = db.uses /\ m.code = db.code
      BY <1>0, <3>2, <3>3, MovesIs
    <3> DEFINE L == [db.ledger EXCEPT ![i] = db.ledger[i] + n]
    <3>5. L[i] = db.ledger[i] + n /\ \A j \in Customers \ {i} : L[j] = db.ledger[j]
      BY <1>0, <3>2 DEF Database
    <3>6. db' = [m EXCEPT !.ledger = L]
      BY <3>3
    <3> HIDE DEF m, L
    <3>7. db'.cust = m.cust /\ db'.topup = m.topup /\ db'.ledger = L /\ db'.uses = m.uses /\ db'.code = m.code
      BY <3>4, <3>6 DEF Database
    <3>8. Settled(db', card)
      <4>1. db'.topup = db.topup /\ db'.cust[i].bal = db.cust[i].bal + n /\ db'.ledger[i] = db.ledger[i] + n
        BY <3>4, <3>5, <3>7
      <4>2. \A j \in Customers \ {i} : db'.cust[j].bal = db.cust[j].bal /\ db'.ledger[j] = db.ledger[j]
        BY <3>4, <3>5, <3>7
      <4> QED BY <1>0, <1>1, <3>2, <4>1, <4>2, LedgerSettled
    <3>9. Counted(db') /\ db'.topup = db.topup
      BY <1>1, <3>4, <3>7 DEF Counted
    <3> QED BY <1>2, <2>1, <3>8, <3>9
  <2> QED BY <2>3, <2>4, <2>5
<1>5. CASE \A s \in Slots : ~Commit(s)
  <2>1. Minor
    BY <1>0, <1>5, OtherSteps
  <2>2. SameMoney(db') /\ SameCode(db') /\ db'.code = db.code
    BY <2>1 DEF Minor, SameMoney, SameCode
  <2> QED BY <1>3, <2>2
<1> QED BY <1>4, <1>5

\* A restart forgets the updates, not the rows.
LEMMA RestartBooks ==
    ASSUME AllTyped, BooksAre(db, card, task), Restart
    PROVE  BooksAre(db', card', task') /\ db'.code = db.code
<1>1. (\A h \in Tasks : task'[h] = None) /\ db' = db /\ card' = card
  BY RestartIs
<1>2. Names(task') = {} /\ \A i \in Customers : ProofsOf(task', i) = {}
  BY <1>1 DEF Names, ProofsOf
<1>3. Names(task') \subseteq Names(task) /\ \A i \in Customers : ProofsOf(task', i) \subseteq ProofsOf(task, i)
  BY <1>2
<1>4. Roomy(task', card, db.topup)
  BY <1>3, RoomStays DEF BooksAre
<1>5. Charging(task', card)
  BY <1>1 DEF Charging
<1> QED BY <1>1, <1>4, <1>5 DEF BooksAre

LEMMA ReapTrialBooks ==
    ASSUME AllTyped, BooksAre(db, card, task), NEW i \in Customers, ReapTrial(i)
    PROVE  BooksAre(db', card', task') /\ db'.code = db.code
<1>1. db \in Database /\ card' = card /\ task' = task /\ TrialAnswered(db', i)
  BY ReapTrialIs DEF AllTyped, Typed, TypeOK
<1>2. /\ Settled(db, card) /\ Counted(db) /\ Unpaid(card) /\ Charging(task, card)
      /\ Roomy(task, card, db.topup)
  BY DEF BooksAre
<1>3. CASE db' = db
  BY <1>1, <1>3
<1>4. CASE db' # db
  <2>1. PICK b \in BOOLEAN : b = FALSE
    OBVIOUS
  <2>2. db' = TrialSet(db, i, b)
    BY <1>1, <1>4, <2>1 DEF TrialAnswered
  <2>3. Settled(db', card) /\ Counted(db') /\ db'.topup = db.topup /\ db'.code = db.code
    BY <1>1, <1>2, <2>2, FlagBooks
  <2> QED BY <1>1, <1>2, <2>3 DEF BooksAre
<1> QED BY <1>3, <1>4

Books == AllTyped /\ OneServed /\ CodeStays /\ BooksAre(db, card, task)
LEMMA BooksKept == Books /\ [CustomersNext]_allVars => Books'
<1> SUFFICES ASSUME Books, [CustomersNext]_allVars PROVE Books'
  OBVIOUS
<1>0. AllTyped /\ OneServed /\ CodeStays /\ BooksAre(db, card, task)
  BY DEF Books
<1>1. AllTyped' /\ OneServed'
  BY <1>0, AllTypedKept, OneServedKept
<1>2. ASSUME BooksAre(db', card', task'), db.code # None => db'.code # None, Next \/ UNCHANGED req PROVE Books'
  <2>1. CodeStays'
    BY <1>0, <1>2, CodeStaysKept
  <2>2. BooksAre(db, card, task)'
    BY <1>2 DEF BooksAre, Settled, Balanced, In, Out, Brought, Took, Counted, Unpaid, Charging, Roomy, Names, ProofsOf,
                FreeCards, FreeTopups
  <2> QED BY <1>1, <2>1, <2>2 DEF Books
<1>3. ASSUME NEW h \in Tasks, CustomerSteps(h) PROVE Books'
  <2>1. BooksAre(db', card', task') /\ (db.code # None => db'.code # None)
    BY <1>0, <1>3, CustomersBooks
  <2>2. UNCHANGED req
    BY <1>0, <1>3, TaskSteps DEF shopRest
  <2> QED BY <1>2, <2>1, <2>2
<1>4. ASSUME NEW c \in Cards, ReapCard(c) PROVE Books'
  BY <1>0, <1>2, <1>4, ReapBooks DEF ReapCard, shopRest
<1>5. CASE Restart
  BY <1>0, <1>2, <1>5, RestartBooks DEF Restart, shopRest
<1>6. CASE Next /\ UNCHANGED talking
  BY <1>0, <1>2, <1>6, AdminsBooks
<1>7. ASSUME UNCHANGED <<db, card, task, req>> PROVE Books'
  BY <1>0, <1>2, <1>7
<1>8. ASSUME NEW i \in Customers, ReapTrial(i) PROVE Books'
  BY <1>0, <1>2, <1>8, ReapTrialBooks DEF ReapTrial, shopRest
<1>9. CASE CustomersNext
  BY <1>3, <1>4, <1>5, <1>6, <1>7, <1>8, <1>9 DEF CustomersNext, CustomerSteps, Suspend, JoinOrLeave, shopRest
<1>10. CASE UNCHANGED allVars
  BY <1>7, <1>10 DEF allVars, vars, talking
<1> QED BY <1>9, <1>10

LEMMA BooksAtFirst == CustomersInit => Books
<1> SUFFICES ASSUME CustomersInit PROVE Books
  OBVIOUS
<1>1. AllTyped
  BY AllTypedAtFirst
<1>2. (\A h \in Tasks : task[h] = None) /\ (\A c \in Cards : card[c] = None) /\ \A s \in Slots : req[s] = None
  BY DEF CustomersInit, Init
<1>3. OneServed /\ CodeStays
  BY <1>2 DEF OneServed, Serves, CodeStays
<1>4. Unpaid(card) /\ Charging(task, card)
  BY <1>2 DEF Unpaid, Charging
<1>5. Roomy(task, card, db.topup)
  <2>1. Names(task) = {} /\ \A i \in Customers : ProofsOf(task, i) = {}
    BY <1>2 DEF Names, ProofsOf
  <2>2. Cardinality(FreeCards(card)) \in Nat /\ \A i \in Customers : Cardinality(FreeTopups(db.topup, i)) \in Nat
    BY RoomsFinite, FS_CardinalityType
  <2>3. Cardinality(Names(task)) = 0 /\ \A i \in Customers : Cardinality(ProofsOf(task, i)) = 0
    BY <2>1, FS_EmptySet
  <2> QED BY <2>2, <2>3 DEF Roomy
<1>6. PICK w \in Worlds : w = world
  BY DEF CustomersInit, Init
<1>7. w.bal \in Nat /\ w.code \in Code \cup {None} /\ (w.code # None => w.code.used = 0)
  BY <1>6, WorldsAssumption
<1>8. /\ \A i \in Customers : db.cust[i].bal = w.bal /\ db.ledger[i] = w.bal /\ db.uses[i] = 0
      /\ db.code = w.code
      /\ \A t \in Topups : db.topup[t] # None => db.topup[t].status = "pending"
  BY <1>6 DEF CustomersInit, Init
<1>9. Settled(db, card)
  <2>1. \A i \in Customers : \A t \in Topups : Brought(db.topup, i)[t] = 0
    BY <1>8 DEF Brought
  <2>2. \A i \in Customers : \A c \in Cards : Took(card, i)[c] = 0
    BY <1>2 DEF Took
  <2>3. \A i \in Customers : In(db.topup, i) = 0 /\ Out(card, i) = 0
    BY <2>1, <2>2, SumOfNothing, IdsAssumption, CustomersAssumption DEF In, Out
  <2> QED BY <1>7, <1>8, <2>3 DEF Settled, Balanced
<1>10. Counted(db)
  <2>1. SumFunctionOnSet(db.uses, Customers) = 0
    BY <1>8, SumOfNothing, IdsAssumption
  <2>2. db.code # None => db.code.used = 0 /\ db.code.cap \in Nat
    BY <1>7, <1>8 DEF Code
  <2> QED BY <1>8, <2>1, <2>2 DEF Counted
<1> QED BY <1>1, <1>3, <1>4, <1>5, <1>9, <1>10 DEF Books, BooksAre

\* Every balance is what the ledger and the confirmed top-ups brought, less what was charged
\* and not given back, and no code is redeemed more often than it may be, by a customer or
\* by all: for any number of customers, updates and administrators at work on one row at
\* once, whatever is decided, adjusted, bought, redeemed, refunded or restarted in between
\* (_get_for_update, storefront_ops.claim, storefront_credit.reserve).
THEOREM MoneyAlwaysAddsUp == CustomersSpec => []MoneyAddsUp
<1>1. Books => MoneyAddsUp
  <2> SUFFICES ASSUME Books PROVE MoneyAddsUp
    OBVIOUS
  <2>1. db \in Database /\ Settled(db, card) /\ Counted(db)
    BY DEF Books, BooksAre, AllTyped, Typed, TypeOK
  <2>2. \A i \in Customers : Balanced(db, card, i) /\ db.cust[i].bal >= 0 /\ db.uses[i] <= 1
    BY <2>1 DEF Settled, Counted, Database, Customer
  <2> QED BY <2>1, <2>2, MoneyIs DEF Counted
<1> QED BY <1>1, BooksAtFirst, BooksKept, PTL DEF CustomersSpec

\* The same of the shop's commands while its customers buy, pay and redeem beside them: what
\* the customers do takes no command's key and no request's slot.
THEOREM KeyedOnceForAll == CustomersSpec => []OncePerKey
<1>1. ASSUME AllTyped, KeysOK, [CustomersNext]_allVars PROVE KeysOK'
  <2>1. ASSUME UNCHANGED shopRest PROVE KeysOK'
    BY <1>1, <2>1, SameKeys DEF shopRest, history
  <2>2. CASE Next
    BY <1>1, <2>2, KeysKept DEF AllTyped
  <2>3. ASSUME NEW h \in Tasks, CustomerSteps(h) PROVE KeysOK'
    BY <1>1, <2>1, <2>3, TaskSteps
  <2>4. ASSUME NEW c \in Cards, ReapCard(c) PROVE KeysOK'
    BY <1>1, <2>1, <2>4, ReapCardIs
  <2>5. CASE Restart
    BY <1>1, <2>1, <2>5, RestartIs
  <2>6. CASE UNCHANGED allVars
    BY <2>1, <2>6 DEF allVars, vars, shopRest
  <2>7. ASSUME NEW i \in Customers, ReapTrial(i) PROVE KeysOK'
    BY <1>1, <2>1, <2>7, ReapTrialIs
  <2> QED
    BY <1>1, <2>1, <2>2, <2>3, <2>4, <2>5, <2>6, <2>7 DEF CustomersNext, CustomerSteps, Suspend, JoinOrLeave
<1>2. CustomersInit => KeysOK
  BY KeysAtFirst DEF CustomersInit
<1>3. AllTyped /\ KeysOK /\ [CustomersNext]_allVars => KeysOK'
  BY <1>1
<1>4. CustomersSpec => []KeysOK
  BY <1>2, <1>3, AlwaysAllTyped, PTL DEF CustomersSpec
<1> QED BY <1>4, KeysAreOnce, PTL

\* What customers do leaves the shop's configuration alone.
LEMMA ConfigStays ==
    ASSUME AllTyped, \/ \E h \in Tasks : CustomerSteps(h)
                     \/ \E c \in Cards : ReapCard(c)
                     \/ Restart \/ Suspend \/ \E i \in Customers : ReapTrial(i) \/ JoinOrLeave(i)
    PROVE  db'.shop = db.shop /\ db'.plan = db.plan /\ UNCHANGED shopRest
<1>0. db \in Database
  BY DEF AllTyped, Typed, TypeOK
<1> DEFINE Goal == db'.shop = db.shop /\ db'.plan = db.plan
<1>1. ASSUME db' = db PROVE Goal
  BY <1>1
<1>2. ASSUME NEW i, NEW n, db' = Moves(db, i, n) PROVE Goal
  BY <1>0, <1>2 DEF Moves, Database
<1>3. ASSUME NEW c, Settles(c) PROVE Goal
  BY <1>1, <1>2, <1>3 DEF Settles
<1>4. ASSUME NEW h \in Tasks, CustomerSteps(h) PROVE Goal /\ UNCHANGED shopRest
  <2>1. UNCHANGED shopRest
    BY <1>4, TaskSteps
  <2>2. CASE Charge(h)
    BY <1>1, <1>2, <2>1, <2>2 DEF Charge
  <2>3. CASE Provision(h)
    BY <1>3, <2>1, <2>3 DEF Provision
  <2>4. CASE Proof(h)
    <3>1. db' = db \/ \E T : db' = [db EXCEPT !.topup = T]
      BY <1>0, <2>4 DEF Proof, Database
    <3> QED BY <1>0, <1>1, <2>1, <3>1 DEF Database
  <2>5. CASE Gift(h)
    <3>1. db' = db \/ db' = Redeem(db, Who(h))
      BY <2>5 DEF Gift
    <3>2. ASSUME db' = Redeem(db, Who(h)) PROVE Goal
      BY <1>0, <3>2 DEF Redeem, Moves, Database
    <3> QED BY <1>1, <2>1, <3>1, <3>2
  <2>6. CASE ClaimTrial(h) \/ GiveTrial(h)
    <3>1. db' = db \/ \E C : db' = [db EXCEPT !.cust = C]
      BY <1>0, <2>6 DEF ClaimTrial, GiveTrial, TrialAnswers, Unclaimed, Database
    <3> QED BY <1>0, <1>1, <2>1, <3>1 DEF Database
  <2>7. CASE ~(Charge(h) \/ Provision(h) \/ Proof(h) \/ Gift(h) \/ ClaimTrial(h) \/ GiveTrial(h))
    <3>1. db' = db
      BY <1>4, <2>7 DEF CustomerSteps, Arrive, Take, Buy, Name, Confirm, StartTopup, Amount, AskCode, NoCode,
                        EnterCode, Method, AskGift, Locks, Support, Over, Silent
    <3> QED BY <1>1, <2>1, <3>1
  <2> HIDE DEF Goal
  <2> QED BY <2>1, <2>2, <2>3, <2>4, <2>5, <2>6, <2>7
<1>5. ASSUME NEW c \in Cards, ReapCard(c) PROVE Goal /\ UNCHANGED shopRest
  BY <1>3, <1>5, ReapCardIs
<1>6. ASSUME Restart \/ Suspend \/ \E i \in Customers : JoinOrLeave(i) PROVE Goal /\ UNCHANGED shopRest
  BY <1>1, <1>6 DEF Restart, Suspend, JoinOrLeave
<1>7. ASSUME NEW i \in Customers, ReapTrial(i) PROVE Goal /\ UNCHANGED shopRest
  <2>1. UNCHANGED shopRest /\ (db' = db \/ db' = TrialSet(db, i, FALSE))
    BY <1>7, ReapTrialIs DEF TrialAnswered
  <2>2. ASSUME db' = TrialSet(db, i, FALSE) PROVE Goal
    BY <1>0, <2>2 DEF TrialSet, Database
  <2> QED BY <1>1, <2>1, <2>2
<1> HIDE DEF Goal
<1>8. Goal /\ UNCHANGED shopRest
  BY <1>4, <1>5, <1>6, <1>7
<1> QED BY <1>8 DEF Goal

\* The same of the shop's configuration while its customers are at work beside them.
THEOREM EditsComposeForAll == CustomersSpec => EditsCompose
<1>1. ASSUME AllTyped, [CustomersNext]_allVars
      PROVE  \/ Next
             \/ db'.shop = db.shop /\ db'.plan = db.plan /\ UNCHANGED shopRest
  <2>1. CASE CustomersNext
    <3>1. \/ Next
          \/ \E h \in Tasks : CustomerSteps(h)
          \/ \E c \in Cards : ReapCard(c)
          \/ Restart \/ Suspend \/ \E i \in Customers : ReapTrial(i) \/ JoinOrLeave(i)
      BY <2>1, Zenon DEF CustomersNext, CustomerSteps
    <3> QED BY <1>1, <3>1, ConfigStays
  <2>2. CASE UNCHANGED allVars
    BY <2>2 DEF allVars, vars, shopRest, history
  <2> QED BY <1>1, <2>1, <2>2
<1>2. ASSUME AllTyped, ConfigsOK, [CustomersNext]_allVars PROVE ConfigsOK' /\ Composed
  <2>1. CASE Next
    BY <1>2, <2>1, ConfigsKept, StepsCompose DEF AllTyped
  <2>2. CASE db'.shop = db.shop /\ db'.plan = db.plan /\ UNCHANGED shopRest
    <3>1. Moved /\ Turns1 /\ AskedKnown
      BY <2>2 DEF Moved, Alike, Turns1, AskedKnown, shopRest
    <3>2. Config(db') = Config(db)
      BY <2>2 DEF Config
    <3> QED BY <1>2, <3>1, <3>2, ConfigsMove DEF AllTyped, Composed
  <2> QED BY <1>1, <1>2, <2>1, <2>2
<1>3. AllTyped /\ ConfigsOK /\ [CustomersNext]_allVars => ConfigsOK'
  BY <1>2
<1>4. CustomersInit => ConfigsOK
  BY ConfigsAtFirst DEF CustomersInit
<1>5. CustomersSpec => []ConfigsOK
  BY <1>3, <1>4, AlwaysAllTyped, PTL DEF CustomersSpec
<1>6. AllTyped /\ ConfigsOK /\ [CustomersNext]_allVars => [Composed]_vars
  BY <1>2
<1>7. CustomersSpec => [][Composed]_vars
  BY <1>5, <1>6, AlwaysAllTyped, PTL DEF CustomersSpec
<1> QED BY <1>7 DEF EditsCompose, Composed

======================================================================
