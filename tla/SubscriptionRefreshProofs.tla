---------------------- MODULE SubscriptionRefreshProofs ----------------------
(***************************************************************************)
(* Proofs about SubscriptionRefresh, for any number of subscriptions,      *)
(* tunnels and overlapping refreshes, any node lists and any requests.     *)
(*                                                                         *)
(* The tables are sequences of rows, so what a WHERE selects comes first:  *)
(* sets of sequences closed under Append take the place of induction.      *)
(*                                                                         *)
(* No reference dangles: DbInv is the property with the types; JobInv adds *)
(* the locals of the refreshes, whose copies are written back later.       *)
(*                                                                         *)
(* A refresh touches its own subscription only: OwnInv says that the ids   *)
(* it has inserted are of its subscription, and that the copies of an      *)
(* undisturbed refresh are still of tunnels bound to it.                   *)
(*                                                                         *)
(* A refresh nobody interferes with keeps the references: KeepsInv relates *)
(* the tables and the copies, at each step of FetchAndUpdate, to what the  *)
(* tunnels referred to when it began.                                      *)
(***************************************************************************)
EXTENDS SubscriptionRefresh, SequenceTheorems, FiniteSetTheorems,
        WellFoundedInduction, TLAPS

-----------------------------------------------------------------------------
(* Selecting rows.                                                          *)

\* Every set of natural numbers but the empty one has a least element.
LEMMA Least ==
    ASSUME NEW T \in SUBSET Nat, T # {}
    PROVE  \E x \in T : \A y \in T : x <= y
<1> DEFINE R == OpToRel(<, Nat)
<1>1. IsWellFoundedOn(R, Nat)
  BY NatLessThanWellFounded
<1>2. \E x \in T : \A y \in T : ~(<<y, x>> \in R)
  <2> HIDE DEF R
  <2> QED BY <1>1, WFMin
<1>3. \A x, y \in Nat : <<y, x>> \in R <=> y < x
  BY DEF OpToRel
<1>4. PICK x \in T : \A y \in T : ~(<<y, x>> \in R)
  BY <1>2
<1>5. \A y \in T : x \in Nat /\ y \in Nat /\ ~(y < x)
  BY <1>3, <1>4
<1>6. \A y \in T : x <= y
  BY <1>5
<1> QED
  BY <1>6

\* f is the function Where is defined by, up to N.
Selects(f, s, T, N) ==
    f = [n \in 0 .. N |->
            IF n = 0 THEN <<>> ELSE IF s[n] \in T THEN Append(f[n - 1], s[n]) ELSE f[n - 1]]

\* Such a function exists, so that Where is well defined.
LEMMA SelectsExists ==
    ASSUME NEW s, NEW T, NEW L \in Nat
    PROVE  \E f : Selects(f, s, T, L)
<1> DEFINE Bad == {n \in Nat : ~ \E f : Selects(f, s, T, n)}
<1> SUFFICES ASSUME Bad # {} PROVE FALSE
  OBVIOUS
<1>1. PICK m \in Bad : \A y \in Bad : m <= y
  <2>1. Bad \in SUBSET Nat
    OBVIOUS
  <2> HIDE DEF Bad
  <2> QED BY <2>1, Least
<1>2. m # 0
  <2>1. Selects([n \in 0 .. 0 |-> <<>>], s, T, 0)
    BY DEF Selects
  <2> QED BY <2>1
<1>3. PICK f : Selects(f, s, T, m - 1)
  <2>1. m - 1 \in Nat /\ m - 1 \notin Bad
    BY <1>1, <1>2
  <2> QED BY <2>1
<1> DEFINE g == [n \in 0 .. m |->
                   IF n = m
                   THEN IF s[m] \in T THEN Append(f[m - 1], s[m]) ELSE f[m - 1]
                   ELSE f[n]]
<1>4. \A n \in 0 .. (m - 1) : g[n] = f[n]
  BY <1>1
<1>5. \A n \in 0 .. (m - 1) :
        f[n] = IF n = 0 THEN <<>> ELSE IF s[n] \in T THEN Append(f[n - 1], s[n]) ELSE f[n - 1]
  BY <1>3 DEF Selects
<1>6. \A n \in 0 .. m :
        g[n] = IF n = 0 THEN <<>> ELSE IF s[n] \in T THEN Append(g[n - 1], s[n]) ELSE g[n - 1]
  <2> TAKE n \in 0 .. m
  <2>1. CASE n = m
    <3>1. n - 1 \in 0 .. (m - 1) /\ g[n - 1] = f[n - 1]
      BY <1>1, <1>2, <1>4, <2>1
    <3> QED BY <1>1, <1>2, <2>1, <3>1
  <2>2. CASE n # m
    <3>1. n \in 0 .. (m - 1) /\ g[n] = f[n]
      BY <1>1, <1>4, <2>2
    <3>2. n # 0 => n - 1 \in 0 .. (m - 1) /\ g[n - 1] = f[n - 1]
      BY <1>1, <1>4, <3>1
    <3> HIDE DEF g
    <3> QED BY <1>5, <3>1, <3>2
  <2> QED BY <2>1, <2>2
<1>7. Selects(g, s, T, m)
  <2>1. g = [n \in 0 .. m |-> g[n]]
    OBVIOUS
  <2> HIDE DEF g
  <2> QED BY <1>6, <2>1 DEF Selects
<1> QED BY <1>1, <1>7

\* Where is the last value of that function.
LEMMA WhereIs ==
    ASSUME NEW s, NEW T, Len(s) \in Nat
    PROVE  \E f : Selects(f, s, T, Len(s)) /\ Where(s, T) = f[Len(s)]
<1> DEFINE f == CHOOSE f : Selects(f, s, T, Len(s))
<1>1. Selects(f, s, T, Len(s))
  BY SelectsExists
<1>2. Where(s, T) = f[Len(s)]
  BY DEF Where, Selects
<1> QED BY <1>1, <1>2

\* Induction over sequences: a set that has the empty sequence and is closed
\* under appending has every sequence.
LEMMA SeqInduction ==
    ASSUME NEW S, NEW P, <<>> \in P,
           \A s \in Seq(S), e \in S : s \in P => Append(s, e) \in P
    PROVE  \A s \in Seq(S) : s \in P
<1> DEFINE Bad == {n \in Nat : \E s \in Seq(S) : Len(s) = n /\ s \notin P}
<1> SUFFICES ASSUME Bad # {} PROVE FALSE
  <2>1. \A s \in Seq(S) : Len(s) \in Nat
    OBVIOUS
  <2> QED BY <2>1
<1>1. PICK m \in Bad : \A y \in Bad : m <= y
  <2>1. Bad \in SUBSET Nat
    OBVIOUS
  <2> HIDE DEF Bad
  <2> QED BY <2>1, Least
<1>2. PICK s \in Seq(S) : Len(s) = m /\ s \notin P
  OBVIOUS
<1>3. PICK r \in Seq(S), e \in S : s = Append(r, e)
  BY <1>2, SequenceEmptyOrAppend
<1>4. Len(r) \in Nat /\ Len(r) + 1 = m
  BY <1>2, <1>3
<1>5. Len(r) \notin Bad
  BY <1>1, <1>4
<1> QED
  BY <1>2, <1>3, <1>4, <1>5

\* What is selected up to L depends on the first L rows only.
LEMMA SelectsAgree ==
    ASSUME NEW s, NEW T, NEW r, NEW L \in Nat, NEW M \in Nat, L <= M,
           \A n \in 1 .. L : s[n] = r[n],
           NEW f, Selects(f, s, T, L), NEW g, Selects(g, r, T, M)
    PROVE  f[L] = g[L]
<1> DEFINE Bad == {n \in 0 .. L : f[n] # g[n]}
<1> SUFFICES ASSUME Bad # {} PROVE FALSE
  OBVIOUS
<1>1. PICK m \in Bad : \A y \in Bad : m <= y
  <2>1. Bad \in SUBSET Nat
    OBVIOUS
  <2> HIDE DEF Bad
  <2> QED BY <2>1, Least
<1>2. \A n \in 0 .. L :
        f[n] = IF n = 0 THEN <<>> ELSE IF s[n] \in T THEN Append(f[n - 1], s[n]) ELSE f[n - 1]
  BY DEF Selects
<1>3. \A n \in 0 .. M :
        g[n] = IF n = 0 THEN <<>> ELSE IF r[n] \in T THEN Append(g[n - 1], r[n]) ELSE g[n - 1]
  BY DEF Selects
<1>4. m \in 0 .. L /\ m \in 0 .. M /\ f[m] # g[m] /\ m # 0
  BY <1>1, <1>2, <1>3
<1>5. m - 1 \in 0 .. L /\ m - 1 \notin Bad /\ s[m] = r[m]
  BY <1>1, <1>4
<1>6. f[m - 1] = g[m - 1]
  BY <1>5
<1>7. f[m] = IF s[m] \in T THEN Append(f[m - 1], s[m]) ELSE f[m - 1]
  BY <1>2, <1>4
<1>8. g[m] = IF r[m] \in T THEN Append(g[m - 1], r[m]) ELSE g[m - 1]
  BY <1>3, <1>4
<1> QED
  BY <1>4, <1>5, <1>6, <1>7, <1>8

\* Where on an empty table.
LEMMA WhereEmpty ==
    ASSUME NEW T
    PROVE  Where(<<>>, T) = <<>>
<1>1. Len(<<>>) = 0
  OBVIOUS
<1>2. PICK f : Selects(f, <<>>, T, 0) /\ Where(<<>>, T) = f[0]
  BY <1>1, WhereIs
<1> QED
  BY <1>2 DEF Selects

\* And by its last row.
LEMMA WhereAppend ==
    ASSUME NEW S, NEW s \in Seq(S), NEW e \in S, NEW T
    PROVE  Where(Append(s, e), T) = IF e \in T THEN Append(Where(s, T), e) ELSE Where(s, T)
<1> DEFINE r == Append(s, e)
           L == Len(s)
<1>1. L \in Nat /\ Len(r) = L + 1 /\ r[L + 1] = e /\ \A n \in 1 .. L : s[n] = r[n]
  OBVIOUS
<1>2. PICK f : Selects(f, s, T, L) /\ Where(s, T) = f[L]
  BY <1>1, WhereIs
<1> HIDE DEF r
<1>3. PICK g : Selects(g, r, T, L + 1) /\ Where(r, T) = g[L + 1]
  BY <1>1, WhereIs
<1> HIDE DEF L
<1>4. f[L] = g[L]
  BY <1>1, <1>2, <1>3, SelectsAgree
<1>5. g[L + 1] = IF r[L + 1] \in T THEN Append(g[(L + 1) - 1], r[L + 1]) ELSE g[(L + 1) - 1]
  <2>1. \A n \in 0 .. (L + 1) :
           g[n] = IF n = 0 THEN <<>> ELSE IF r[n] \in T THEN Append(g[n - 1], r[n]) ELSE g[n - 1]
    BY <1>3 DEF Selects
  <2>2. L + 1 \in 0 .. (L + 1) /\ L + 1 # 0
    BY <1>1
  <2> QED BY <2>1, <2>2
<1>6. (L + 1) - 1 = L
  BY <1>1
<1> QED
  BY <1>1, <1>2, <1>3, <1>4, <1>5, <1>6 DEF r

\* What is selected are rows of the table that meet the condition.
LEMMA WhereType ==
    ASSUME NEW S, NEW T, NEW s \in Seq(S)
    PROVE  Where(s, T) \in Seq(S \cap T)
<1> DEFINE P == {q \in Seq(S) : Where(q, T) \in Seq(S \cap T)}
<1>1. <<>> \in P
  <2>1. <<>> \in Seq(S) /\ <<>> \in Seq(S \cap T)
    OBVIOUS
  <2> QED BY <2>1, WhereEmpty
<1>2. ASSUME NEW q \in Seq(S), NEW e \in S, q \in P PROVE Append(q, e) \in P
  <2>1. Where(q, T) \in Seq(S \cap T) /\ Append(q, e) \in Seq(S)
    BY <1>2
  <2>2. Where(Append(q, e), T) = IF e \in T THEN Append(Where(q, T), e) ELSE Where(q, T)
    BY WhereAppend
  <2>3. e \in T => Append(Where(q, T), e) \in Seq(S \cap T)
    BY <2>1
  <2> QED BY <2>1, <2>2, <2>3
<1> HIDE DEF P
<1>3. s \in P
  BY <1>1, <1>2, SeqInduction
<1> QED BY <1>3 DEF P

\* Nothing is selected when no row meets the condition.
LEMMA WhereNone ==
    ASSUME NEW S, NEW T, NEW s \in Seq(S), S \cap T = {}
    PROVE  Where(s, T) = <<>>
<1>1. Where(s, T) \in Seq({})
  BY WhereType
<1> QED BY <1>1

\* Conditions that agree on the rows select the same.
LEMMA WhereSame ==
    ASSUME NEW S, NEW T, NEW U, NEW s \in Seq(S), \A x \in S : (x \in T) <=> (x \in U)
    PROVE  Where(s, T) = Where(s, U)
<1> DEFINE P == {q \in Seq(S) : Where(q, T) = Where(q, U)}
<1>1. <<>> \in P
  BY WhereEmpty
<1>2. ASSUME NEW q \in Seq(S), NEW e \in S, q \in P PROVE Append(q, e) \in P
  <2>1. Append(q, e) \in Seq(S)
    OBVIOUS
  <2>2. /\ Where(Append(q, e), T) = IF e \in T THEN Append(Where(q, T), e) ELSE Where(q, T)
        /\ Where(Append(q, e), U) = IF e \in U THEN Append(Where(q, U), e) ELSE Where(q, U)
    BY WhereAppend
  <2>3. (e \in T) <=> (e \in U)
    OBVIOUS
  <2>4. Where(q, T) = Where(q, U)
    BY <1>2
  <2>5. Where(Append(q, e), T) = Where(Append(q, e), U)
    BY <2>2, <2>3, <2>4
  <2> QED BY <2>1, <2>5
<1> HIDE DEF P
<1>3. s \in P
  BY <1>1, <1>2, SeqInduction
<1> QED BY <1>3 DEF P

\* A weaker condition beforehand makes no difference.
LEMMA WhereTwice ==
    ASSUME NEW S, NEW T, NEW U, NEW s \in Seq(S), S \cap U \subseteq T
    PROVE  Where(Where(s, T), U) = Where(s, U)
<1> DEFINE P == {q \in Seq(S) : Where(Where(q, T), U) = Where(q, U)}
<1>1. <<>> \in P
  BY WhereEmpty
<1>2. ASSUME NEW q \in Seq(S), NEW e \in S, q \in P PROVE Append(q, e) \in P
  <2>1. Append(q, e) \in Seq(S)
    OBVIOUS
  <2>2. /\ Where(Append(q, e), T) = IF e \in T THEN Append(Where(q, T), e) ELSE Where(q, T)
        /\ Where(Append(q, e), U) = IF e \in U THEN Append(Where(q, U), e) ELSE Where(q, U)
    BY WhereAppend
  <2>3. Where(q, T) \in Seq(S)
    <3>1. Where(q, T) \in Seq(S \cap T)
      BY WhereType
    <3> QED BY <3>1, SeqMonotonic
  <2>4. Where(Append(Where(q, T), e), U) =
            IF e \in U THEN Append(Where(Where(q, T), U), e) ELSE Where(Where(q, T), U)
    BY <2>3, WhereAppend
  <2> QED BY <1>2, <2>1, <2>2, <2>4
<1> HIDE DEF P
<1>3. s \in P
  BY <1>1, <1>2, SeqInduction
<1> QED BY <1>3 DEF P

\* Rows added at the end are selected after the others.
LEMMA WhereConcat ==
    ASSUME NEW S, NEW T, NEW s \in Seq(S), NEW r \in Seq(S)
    PROVE  Where(s \o r, T) = Where(s, T) \o Where(r, T)
<1> DEFINE P == {q \in Seq(S) : Where(s \o q, T) = Where(s, T) \o Where(q, T)}
<1>0. Where(s, T) \in Seq(S \cap T)
  BY WhereType
<1>1. <<>> \in P
  <2>1. s \o <<>> = s /\ Where(s, T) \o <<>> = Where(s, T)
    BY <1>0, ConcatEmptySeq
  <2>2. <<>> \in Seq(S) /\ Where(<<>>, T) = <<>>
    BY WhereEmpty
  <2> QED BY <2>1, <2>2
<1>2. ASSUME NEW q \in Seq(S), NEW e \in S, q \in P PROVE Append(q, e) \in P
  <2>1. Append(q, e) \in Seq(S) /\ s \o q \in Seq(S)
    OBVIOUS
  <2>2. s \o Append(q, e) = Append(s \o q, e)
    OBVIOUS
  <2>3. /\ Where(Append(q, e), T) = IF e \in T THEN Append(Where(q, T), e) ELSE Where(q, T)
        /\ Where(Append(s \o q, e), T) =
              IF e \in T THEN Append(Where(s \o q, T), e) ELSE Where(s \o q, T)
    BY <2>1, WhereAppend
  <2>4. Where(q, T) \in Seq(S \cap T)
    BY WhereType
  <2>5. e \in T => Where(s, T) \o Append(Where(q, T), e) = Append(Where(s, T) \o Where(q, T), e)
    BY <1>0, <2>4
  <2> QED BY <1>2, <2>1, <2>2, <2>3, <2>5
<1> HIDE DEF P
<1>3. r \in P
  BY <1>1, <1>2, SeqInduction
<1> QED BY <1>3 DEF P

-----------------------------------------------------------------------------
(* The sequences Init is made of.                                           *)

\* f is the function FlattenSeq is defined by, up to N.
Flattens(f, q, N) ==
    f = [i \in 1 .. N |-> IF i = 1 THEN q[i] ELSE f[i - 1] \o q[i]]

\* There is such a function.
LEMMA FlattensExists ==
    ASSUME NEW q, NEW L \in Nat
    PROVE  \E f : Flattens(f, q, L)
<1> DEFINE Bad == {n \in Nat : ~ \E f : Flattens(f, q, n)}
<1> SUFFICES ASSUME Bad # {} PROVE FALSE
  OBVIOUS
<1>1. PICK m \in Bad : \A y \in Bad : m <= y
  <2>1. Bad \in SUBSET Nat
    OBVIOUS
  <2> HIDE DEF Bad
  <2> QED BY <2>1, Least
<1>2. m # 0
  <2>1. Flattens([n \in 1 .. 0 |-> <<>>], q, 0)
    BY DEF Flattens
  <2> QED BY <2>1
<1>3. PICK f : Flattens(f, q, m - 1)
  <2>1. m - 1 \in Nat /\ m - 1 \notin Bad
    BY <1>1, <1>2
  <2> QED BY <2>1
<1> DEFINE g == [n \in 1 .. m |->
                   IF n = m THEN IF m = 1 THEN q[m] ELSE f[m - 1] \o q[m] ELSE f[n]]
<1>4. \A n \in 1 .. (m - 1) : g[n] = f[n]
  BY <1>1
<1>5. \A n \in 1 .. (m - 1) : f[n] = IF n = 1 THEN q[n] ELSE f[n - 1] \o q[n]
  BY <1>3 DEF Flattens
<1>6. \A n \in 1 .. m : g[n] = IF n = 1 THEN q[n] ELSE g[n - 1] \o q[n]
  <2> TAKE n \in 1 .. m
  <2>1. n # 1 => n - 1 \in 1 .. (m - 1) /\ g[n - 1] = f[n - 1]
    BY <1>1, <1>2, <1>4
  <2>2. CASE n = m
    BY <1>1, <1>2, <2>1, <2>2
  <2>3. CASE n # m
    <3>1. n \in 1 .. (m - 1) /\ g[n] = f[n]
      BY <1>1, <1>4, <2>3
    <3> HIDE DEF g
    <3> QED BY <1>5, <2>1, <3>1
  <2> QED BY <2>2, <2>3
<1>7. Flattens(g, q, m)
  <2>1. g = [n \in 1 .. m |-> g[n]]
    OBVIOUS
  <2> HIDE DEF g
  <2> QED BY <1>6, <2>1 DEF Flattens
<1> QED BY <1>1, <1>7

\* Sequences of elements of S, put one after the other, are one of elements
\* of S.
LEMMA FlattenType ==
    ASSUME NEW S, NEW q \in Seq(Seq(S))
    PROVE  FlattenSeq(q) \in Seq(S)
<1>1. CASE Len(q) = 0
  <2>1. q = <<>>
    BY <1>1, EmptySeq
  <2> QED BY <1>1, <2>1 DEF FlattenSeq
<1>2. CASE Len(q) # 0
  <2> DEFINE L == Len(q)
             f == CHOOSE f : Flattens(f, q, L)
             Bad == {n \in 1 .. L : f[n] \notin Seq(S)}
  <2>1. L \in Nat /\ L \in 1 .. L
    BY <1>2
  <2>2. Flattens(f, q, L)
    BY <2>1, FlattensExists
  <2>3. FlattenSeq(q) = f[L]
    BY <1>2 DEF FlattenSeq, Flattens
  <2>4. \A n \in 1 .. L : q[n] \in Seq(S)
    OBVIOUS
  <2> HIDE DEF f, L
  <2>5. \A n \in 1 .. L : f[n] = IF n = 1 THEN q[n] ELSE f[n - 1] \o q[n]
    BY <2>2 DEF Flattens
  <2>6. Bad = {}
    <3> SUFFICES ASSUME Bad # {} PROVE FALSE
      OBVIOUS
    <3>1. PICK m \in Bad : \A y \in Bad : m <= y
      <4>1. Bad \in SUBSET Nat
        BY <2>1
      <4> HIDE DEF Bad
      <4> QED BY <4>1, Least
    <3>2. m # 1
      BY <2>4, <2>5
    <3>3. m - 1 \in 1 .. L /\ m - 1 \notin Bad
      BY <2>1, <3>1, <3>2
    <3>4. f[m - 1] \in Seq(S) /\ q[m] \in Seq(S) /\ f[m] = f[m - 1] \o q[m]
      BY <2>4, <2>5, <3>2, <3>3
    <3>5. f[m] \in Seq(S)
      BY <3>4, ConcatProperties
    <3>6. f[m] \notin Seq(S)
      BY <3>1
    <3> QED BY <3>5, <3>6
  <2> QED BY <2>1, <2>3, <2>6
<1> QED BY <1>1, <1>2

\* SetToSeq puts the elements of a finite set in some order.
LEMMA OrderType ==
    ASSUME NEW S, IsFiniteSet(S)
    PROVE  SetToSeq(S) \in Seq(S)
<1>1. Cardinality(S) \in Nat /\ ExistsBijection(1 .. Cardinality(S), S)
  BY FS_CardinalityType
<1>2. \E f \in [1 .. Cardinality(S) -> S] : IsInjective(f)
  BY <1>1 DEF ExistsBijection, Bijection, Injection
<1>3. SetToSeq(S) \in [1 .. Cardinality(S) -> S]
  BY <1>2 DEF SetToSeq
<1> QED BY <1>1, <1>3

-----------------------------------------------------------------------------
(* No reference dangles.                                                    *)

\* Rows of tunnel_nodes for the nodes N and the tunnels X.
RowsIn(N, X) == {l \in LinkRow : l.node \in N /\ l.tun \in X}

\* The tables: their types, and every reference leads somewhere.
DbInv ==
    /\ sub \in [Subs -> SubRow]
    /\ node \in Seq([sub : Subs, uri : Uris]) /\ Len(node) <= MaxId
    /\ live \subseteq DOMAIN node
    /\ exists \subseteq Tunnels
    /\ tsub \in [Tunnels -> Subs \cup {NoSub}]
    /\ active \in [Tunnels -> 0 .. MaxId]
    /\ links \in Seq(RowsIn(live, exists))
    /\ \A t \in Tunnels : active[t] # 0 => active[t] \in live /\ t \in exists

\* The refreshes: their types, and each is about a subscription.
JobInv ==
    /\ pc \in [Workers -> Steps]
    /\ on \in [Workers -> Subs \cup {NoSub}]
    /\ row \in [Workers -> SubRow]
    /\ body \in [Workers -> Bodies \cup {<<>>}]
    /\ bindA \in [Workers -> SUBSET (Tunnels \X Uris)]
    /\ bindT \in [Workers -> Seq(Binding)]
    /\ fresh \in [Workers -> Seq(1 .. MaxId)]
    /\ cancelled \subseteq Workers
    /\ disturbed \subseteq Workers
    /\ \A w \in Workers : pc[w] # "idle" => on[w] \in Subs

\* An element of a sequence.
LEMMA ElementIn ==
    ASSUME NEW S, NEW q \in Seq(S)
    PROVE  /\ Len(q) \in Nat /\ DOMAIN q = 1 .. Len(q)
           /\ \A k \in DOMAIN q : q[k] \in S
<1>1. Len(q) \in Nat /\ DOMAIN q = 1 .. Len(q)
  OBVIOUS
<1> QED BY <1>1, ElementOfSeq

\* A node list a refresh has fetched.
LEMMA BodyType ==
    ASSUME JobInv, NEW w \in Workers
    PROVE  body[w] \in Seq(Uris)
<1>1. body[w] \in Bodies \cup {<<>>}
  BY DEF JobInv
<1>2. <<>> \in Seq(Uris)
  OBVIOUS
<1> QED BY <1>1, <1>2, BodiesAssumption

\* The first new id of a URI is one the refresh has inserted for it.
LEMMA NewIdIs ==
    ASSUME JobInv, NEW w \in Workers, NEW u
    PROVE  \/ NewId(w, u) = 0 /\ \A k \in DOMAIN fresh[w] : body[w][k] # u
           \/ \E k \in DOMAIN fresh[w] : body[w][k] = u /\ NewId(w, u) = fresh[w][k]
<1> DEFINE at == {k \in DOMAIN fresh[w] : body[w][k] = u}
<1>1. CASE at = {}
  BY <1>1 DEF NewId
<1>2. CASE at # {}
  <2>1. fresh[w] \in Seq(1 .. MaxId)
    BY DEF JobInv
  <2>2. at \in SUBSET Nat
    BY <2>1
  <2> DEFINE m == CHOOSE k \in at : \A j \in at : k <= j
  <2>3. \E k \in at : \A j \in at : k <= j
    <3> HIDE DEF at
    <3> QED BY <1>2, <2>2, Least
  <2>4. m \in at
    BY <2>3
  <2>5. NewId(w, u) = fresh[w][m]
    BY <1>2 DEF NewId
  <2> HIDE DEF m
  <2> QED BY <2>4, <2>5
<1> QED BY <1>1, <1>2

\* A new id is 0 or an id.
LEMMA NewIdType ==
    ASSUME JobInv, NEW w \in Workers, NEW u, NewId(w, u) # 0
    PROVE  NewId(w, u) \in 1 .. MaxId
<1>1. PICK k \in DOMAIN fresh[w] : NewId(w, u) = fresh[w][k]
  BY NewIdIs
<1>2. fresh[w] \in Seq(1 .. MaxId)
  BY DEF JobInv
<1>3. fresh[w][k] \in 1 .. MaxId
  BY <1>1, <1>2, ElementIn
<1> QED BY <1>1, <1>3

\* The references to nodes of a subscription, by URI.
LEMMA LinksToType ==
    ASSUME DbInv, NEW s
    PROVE  LinksTo(s) \in Seq(Binding)
<1> DEFINE T == {l \in LinkRow : l.node \in NodesOf(s)}
           mine == Where(links, T)
<1>1. mine \in Seq(RowsIn(live, exists) \cap T)
  BY WhereType DEF DbInv
<1>2. LinksTo(s) = [k \in DOMAIN mine |->
         [tun |-> mine[k].tun, uri |-> node[mine[k].node].uri, pos |-> mine[k].pos]]
  BY DEF LinksTo
<1> HIDE DEF mine
<1>3. \A l \in RowsIn(live, exists) \cap T :
         [tun |-> l.tun, uri |-> node[l.node].uri, pos |-> l.pos] \in Binding
  <2> TAKE l \in RowsIn(live, exists) \cap T
  <2>1. l.node \in DOMAIN node /\ l.tun \in Tunnels /\ l.pos \in Nat
    BY DEF DbInv, RowsIn, LinkRow
  <2>2. node[l.node] \in [sub : Subs, uri : Uris]
    BY <2>1, ElementIn DEF DbInv
  <2> QED BY <2>1, <2>2 DEF Binding
<1>4. DOMAIN mine = 1 .. Len(mine) /\ Len(mine) \in Nat
  BY <1>1
<1>5. \A k \in DOMAIN mine : mine[k] \in RowsIn(live, exists) \cap T
  BY <1>1
<1>6. LinksTo(s) \in [1 .. Len(mine) -> Binding]
  BY <1>2, <1>3, <1>4, <1>5
<1> QED BY <1>4, <1>6

\* The rows a refresh restores.
LEMMA RestoredType ==
    ASSUME JobInv, NEW w \in Workers
    PROVE  Restored(w) \in Seq(LinkRow)
<1> DEFINE T == {b \in Binding : NewId(w, b.uri) # 0}
           kept == Where(bindT[w], T)
<1>1. bindT[w] \in Seq(Binding)
  BY DEF JobInv
<1>2. kept \in Seq(Binding \cap T)
  BY <1>1, WhereType
<1>3. Restored(w) = [k \in DOMAIN kept |->
         [tun |-> kept[k].tun, node |-> NewId(w, kept[k].uri), pos |-> kept[k].pos]]
  BY DEF Restored
<1> HIDE DEF kept
<1>4. \A b \in Binding \cap T :
         [tun |-> b.tun, node |-> NewId(w, b.uri), pos |-> b.pos] \in LinkRow
  <2> TAKE b \in Binding \cap T
  <2>1. NewId(w, b.uri) \in 1 .. MaxId
    BY NewIdType
  <2> QED BY <2>1 DEF Binding, LinkRow
<1>5. DOMAIN kept = 1 .. Len(kept) /\ Len(kept) \in Nat
  BY <1>2
<1>6. \A k \in DOMAIN kept : kept[k] \in Binding \cap T
  BY <1>2
<1>7. Restored(w) \in [1 .. Len(kept) -> LinkRow]
  BY <1>3, <1>4, <1>5, <1>6
<1> QED BY <1>5, <1>7

\* A sequence built from a sequence, element by element.
LEMMA MapType ==
    ASSUME NEW S, NEW R, NEW q \in Seq(R), NEW f, DOMAIN f = DOMAIN q,
           f = [k \in DOMAIN q |-> f[k]], \A k \in DOMAIN q : f[k] \in S
    PROVE  f \in Seq(S) /\ Len(f) = Len(q)
<1>1. Len(q) \in Nat /\ DOMAIN q = 1 .. Len(q)
  BY ElementIn
<1>2. f \in [1 .. Len(q) -> S]
  BY <1>1
<1> QED BY <1>1, <1>2

\* A list of nodes a request may assign.
LEMMA ListType ==
    ASSUME NEW list \in Lists
    PROVE  list \in Seq(live)
<1>1. PICK n \in 0 .. MaxList : list \in [1 .. n -> live]
  BY DEF Lists
<1> QED BY <1>1, BoundsAssumption

\* Init: the tables as a first fetch and the set-up of the tunnels leave them.
LEMMA InitDbInv ==
    ASSUME Init
    PROVE  DbInv
<1> DEFINE NodeRow == [sub : Subs, uri : Uris]
<1>1. PICK b \in [Subs -> Bodies] :
         LET order == SetToSeq(Subs)
             rows(s) == [k \in DOMAIN b[s] |-> [sub |-> s, uri |-> b[s][k]]]
         IN  /\ node = FlattenSeq([k \in DOMAIN order |-> rows(order[k])])
             /\ sub = [s \in Subs |-> [st |-> IF b[s] = <<>> THEN "inactive" ELSE "active",
                                       count |-> Len(b[s])]]
  BY DEF Init
<1>2. \A s \in Subs : b[s] \in Seq(Uris) /\ Len(b[s]) \in Nat
  BY BodiesAssumption
<1>3. sub \in [Subs -> SubRow]
  BY <1>1, <1>2 DEF SubRow
<1>4. node \in Seq(NodeRow)
  <2> DEFINE order == SetToSeq(Subs)
             rows(s) == [k \in DOMAIN b[s] |-> [sub |-> s, uri |-> b[s][k]]]
             all == [k \in DOMAIN order |-> rows(order[k])]
  <2>1. order \in Seq(Subs)
    BY OrderType, FiniteAssumption
  <2>2. ASSUME NEW s \in Subs PROVE rows(s) \in Seq(NodeRow)
    <3>1. b[s] \in Seq(Uris)
      BY <1>2
    <3>2. \A k \in DOMAIN b[s] : [sub |-> s, uri |-> b[s][k]] \in NodeRow
      BY <3>1, ElementIn
    <3> QED BY <3>1, <3>2, MapType
  <2> HIDE DEF rows, order
  <2>3. \A k \in DOMAIN order : order[k] \in Subs
    BY <2>1, ElementIn
  <2>4. \A k \in DOMAIN all : all[k] \in Seq(NodeRow)
    BY <2>2, <2>3
  <2>5. DOMAIN all = DOMAIN order /\ all = [k \in DOMAIN order |-> all[k]]
    OBVIOUS
  <2>6. node = FlattenSeq(all)
    BY <1>1 DEF order, rows
  <2> HIDE DEF all, NodeRow
  <2>7. all \in Seq(Seq(NodeRow))
    BY <2>1, <2>4, <2>5, MapType
  <2> QED BY <2>6, <2>7, FlattenType
<1>5. /\ Len(node) <= MaxId /\ live = DOMAIN node /\ exists = Tunnels
      /\ tsub \in [Tunnels -> Subs \cup {NoSub}]
      /\ active \in [Tunnels -> {0} \cup live]
  BY DEF Init
<1>6. Len(node) \in Nat /\ live = 1 .. Len(node) /\ live \subseteq 1 .. MaxId
  <2>1. Len(node) \in Nat /\ DOMAIN node = 1 .. Len(node)
    BY <1>4, ElementIn
  <2> QED BY <1>5, <2>1, BoundsAssumption
<1>7. active \in [Tunnels -> 0 .. MaxId]
  BY <1>5, <1>6, BoundsAssumption
<1>8. links \in Seq(RowsIn(live, exists))
  <2>1. PICK list \in [Tunnels -> Lists] :
           LET order == SetToSeq(Tunnels)
               rows(t) == [k \in DOMAIN list[t] |->
                             [tun |-> t, node |-> list[t][k], pos |-> k - 1]]
           IN links = FlattenSeq([k \in DOMAIN order |-> rows(order[k])])
    BY DEF Init
  <2> DEFINE order == SetToSeq(Tunnels)
             rows(t) == [k \in DOMAIN list[t] |->
                             [tun |-> t, node |-> list[t][k], pos |-> k - 1]]
             all == [k \in DOMAIN order |-> rows(order[k])]
             Good == RowsIn(live, exists)
  <2>2. order \in Seq(Tunnels)
    BY OrderType, FiniteAssumption
  <2>3. ASSUME NEW t \in Tunnels PROVE rows(t) \in Seq(Good)
    <3>1. list[t] \in Seq(live)
      BY ListType
    <3>2. \A k \in DOMAIN list[t] : list[t][k] \in live /\ k \in Nat /\ k - 1 \in Nat
      BY <3>1, ElementIn
    <3>3. \A k \in DOMAIN list[t] : [tun |-> t, node |-> list[t][k], pos |-> k - 1] \in Good
      BY <1>5, <1>6, <3>2 DEF RowsIn, LinkRow
    <3> QED BY <3>1, <3>3, MapType
  <2> HIDE DEF rows, order
  <2>4. \A k \in DOMAIN order : order[k] \in Tunnels
    BY <2>2, ElementIn
  <2>5. \A k \in DOMAIN all : all[k] \in Seq(Good)
    BY <2>3, <2>4
  <2>6. DOMAIN all = DOMAIN order /\ all = [k \in DOMAIN order |-> all[k]]
    OBVIOUS
  <2>7. links = FlattenSeq(all)
    BY <2>1 DEF order, rows
  <2> HIDE DEF all, Good
  <2>8. all \in Seq(Seq(Good))
    BY <2>2, <2>5, <2>6, MapType
  <2> QED BY <2>7, <2>8, FlattenType DEF Good
<1>9. \A t \in Tunnels : active[t] # 0 => active[t] \in live /\ t \in exists
  BY <1>5
<1> QED
  BY <1>3, <1>4, <1>5, <1>7, <1>8, <1>9 DEF DbInv

\* Init: no refresh runs.
LEMMA InitJobInv ==
    ASSUME Init
    PROVE  JobInv
<1>1. NoRow \in SubRow /\ <<>> \in Seq(Binding) /\ <<>> \in Seq(1 .. MaxId)
  BY DEF NoRow, SubRow
<1> QED BY <1>1 DEF Init, JobInv, Steps

\* A step that changes no table.
LEMMA SameDb ==
    ASSUME DbInv, UNCHANGED dbVars
    PROVE  DbInv'
  BY DEF DbInv, dbVars

\* What a refresh that ends leaves of its locals has its type.
LEMMA ReturnJob ==
    ASSUME JobInv, NEW w \in Workers, Return(w)
    PROVE  JobInv'
<1>1. NoRow \in SubRow /\ <<>> \in Seq(Binding) /\ <<>> \in Seq(1 .. MaxId)
  BY DEF NoRow, SubRow
<1> QED BY <1>1 DEF JobInv, Return, Goto, Steps

\* A cancelled repository call.
LEMMA FailsInv ==
    ASSUME DbInv, JobInv, NEW w \in Workers, NEW p, Fails(w, p)
    PROVE  DbInv' /\ JobInv'
  BY SameDb, ReturnJob DEF Fails

\* SubscriptionRepo.Update writes no reference.
LEMMA WriteSubDb ==
    ASSUME DbInv, JobInv, NEW w \in Workers, NEW r \in SubRow, pc[w] # "idle", WriteSub(w, r)
    PROVE  DbInv'
<1>1. on[w] \in Subs
  BY DEF JobInv
<1>2. sub' \in [Subs -> SubRow]
  BY <1>1 DEF DbInv, WriteSub
<1> QED BY <1>2 DEF DbInv, WriteSub

\* A refresh begins.
LEMMA BeginInv ==
    ASSUME DbInv, JobInv, NEW w \in Workers, NEW s \in Subs, Begin(w, s)
    PROVE  DbInv' /\ JobInv'
<1>1. DbInv'
  BY SameDb DEF Begin
<1>2. Refreshing({s}) \subseteq Workers
  BY DEF Refreshing
<1> QED BY <1>1, <1>2 DEF JobInv, Begin, Goto, Steps

\* The row is read, or the refresh ends.
LEMMA GetSubInv ==
    ASSUME DbInv, JobInv, NEW w \in Workers, GetSub(w)
    PROVE  DbInv' /\ JobInv'
<1>1. DbInv'
  BY SameDb DEF GetSub
<1>2. CASE Return(w)
  BY <1>1, <1>2, ReturnJob
<1>3. CASE ~ Return(w)
  <2>1. on[w] \in Subs /\ sub[on[w]] \in SubRow
    BY DEF JobInv, DbInv, GetSub
  <2> QED BY <1>1, <1>3, <2>1 DEF JobInv, GetSub, Goto, Steps, histVars
<1> QED BY <1>2, <1>3

\* The list is one of Bodies.
LEMMA FetchInv ==
    ASSUME DbInv, JobInv, NEW w \in Workers, Fetch(w)
    PROVE  DbInv' /\ JobInv'
<1>1. DbInv'
  BY SameDb DEF Fetch
<1>2. CASE Return(w)
  BY <1>1, <1>2, ReturnJob
<1>3. CASE /\ row' = [row EXCEPT ![w].st = IF row[w].count = 0 THEN "error" ELSE @]
           /\ Goto(w, "fail")
           /\ UNCHANGED <<on, body, bindA, bindT, fresh, cancelled, histVars>>
  <2>1. row' \in [Workers -> SubRow]
    BY <1>3 DEF JobInv, SubRow
  <2> QED BY <1>1, <1>3, <2>1 DEF JobInv, Fetch, Goto, Steps, histVars
<1>4. CASE /\ \E b \in Bodies : body' = [body EXCEPT ![w] = b]
           /\ Goto(w, "snapA")
           /\ UNCHANGED <<on, row, bindA, bindT, fresh, cancelled, histVars>>
  BY <1>1, <1>4 DEF JobInv, Fetch, Goto, Steps, histVars
<1> QED BY <1>2, <1>3, <1>4 DEF Fetch

\* The failure is written to the row as it was read.
LEMMA RecordFailureInv ==
    ASSUME DbInv, JobInv, NEW w \in Workers, RecordFailure(w)
    PROVE  DbInv' /\ JobInv'
<1>1. row[w] \in SubRow /\ pc[w] # "idle" /\ WriteSub(w, row[w]) /\ Return(w)
  BY DEF JobInv, RecordFailure
<1> QED BY <1>1, WriteSubDb, ReturnJob

\* The new count is written.
LEMMA FinalUpdateInv ==
    ASSUME DbInv, JobInv, NEW w \in Workers, FinalUpdate(w)
    PROVE  DbInv' /\ JobInv'
<1>1. Len(body[w]) \in Nat
  BY BodyType
<1> DEFINE r == [st |-> "active", count |-> Len(body[w])]
<1>2. r \in SubRow
  BY <1>1 DEF SubRow
<1>3. pc[w] # "idle" /\ WriteSub(w, r) /\ Return(w)
  BY DEF FinalUpdate
<1> HIDE DEF r
<1> QED BY <1>2, <1>3, WriteSubDb, ReturnJob

\* An active node that is not NULL is a row, so it has a URI to copy.
LEMMA SnapshotActiveInv ==
    ASSUME DbInv, JobInv, NEW w \in Workers, SnapshotActive(w)
    PROVE  DbInv' /\ JobInv'
<1>1. CASE Fails(w, "snapA")
  BY <1>1, FailsInv
<1>2. CASE ~ Fails(w, "snapA")
  <2> DEFINE B == {<<t, node[active[t]].uri>> :
                      t \in {t \in exists : tsub[t] = on[w] /\ active[t] # 0}}
  <2>1. /\ pc[w] = "snapA"
        /\ bindA' = [bindA EXCEPT ![w] = B]
        /\ Goto(w, "snapT")
        /\ UNCHANGED <<dbVars, on, row, body, bindT, fresh, cancelled, histVars>>
    BY <1>2 DEF SnapshotActive
  <2>2. B \in SUBSET (Tunnels \X Uris)
    <3>1. \A t \in exists : t \in Tunnels /\ (active[t] # 0 => active[t] \in DOMAIN node)
      BY DEF DbInv
    <3>2. \A t \in exists : active[t] # 0 => node[active[t]] \in [sub : Subs, uri : Uris]
      BY <3>1, ElementIn DEF DbInv
    <3> QED BY <3>1, <3>2
  <2> HIDE DEF B
  <2>3. JobInv'
    BY <2>1, <2>2 DEF JobInv, Goto, Steps, histVars
  <2> QED BY <2>1, <2>3, SameDb
<1> QED BY <1>1, <1>2

\* The rows of tunnel_nodes are copied by URI.
LEMMA SnapshotLinksInv ==
    ASSUME DbInv, JobInv, NEW w \in Workers, SnapshotLinks(w)
    PROVE  DbInv' /\ JobInv'
<1>1. CASE Fails(w, "snapT")
  BY <1>1, FailsInv
<1>2. CASE ~ Fails(w, "snapT")
  <2>1. /\ pc[w] = "snapT"
        /\ bindT' = [bindT EXCEPT ![w] = LinksTo(on[w])]
        /\ Goto(w, "delete")
        /\ UNCHANGED <<dbVars, on, row, body, bindA, fresh, cancelled, histVars>>
    BY <1>2 DEF SnapshotLinks
  <2>2. LinksTo(on[w]) \in Seq(Binding)
    BY LinksToType
  <2>3. JobInv'
    BY <2>1, <2>2 DEF JobInv, Goto, Steps, histVars
  <2> QED BY <2>1, <2>3, SameDb
<1> QED BY <1>1, <1>2

\* The references to the deleted nodes go with them.
LEMMA DeleteNodesInv ==
    ASSUME DbInv, JobInv, NEW w \in Workers, DeleteNodes(w)
    PROVE  DbInv' /\ JobInv'
<1>1. CASE Fails(w, "delete")
  BY <1>1, FailsInv
<1>2. CASE ~ Fails(w, "delete")
  <2> DEFINE gone == NodesOf(on[w])
             T == {l \in LinkRow : l.node \notin gone}
  <2>1. /\ pc[w] = "delete"
        /\ active' = [t \in Tunnels |-> IF active[t] \in gone THEN 0 ELSE active[t]]
        /\ links' = Where(links, T)
        /\ live' = live \ gone
        /\ Goto(w, IF body[w] = <<>> THEN "update" ELSE "insert")
        /\ UNCHANGED <<sub, node, exists, tsub, on, row, body, bindA, bindT,
                       fresh, cancelled, histVars>>
    BY <1>2 DEF DeleteNodes
  <2>2. JobInv'
    BY <2>1 DEF JobInv, Goto, Steps, histVars
  <2>3. links' \in Seq(RowsIn(live', exists'))
    <3>1. links \in Seq(RowsIn(live, exists))
      BY DEF DbInv
    <3>2. links' \in Seq(RowsIn(live, exists) \cap T)
      BY <2>1, <3>1, WhereType
    <3>3. RowsIn(live, exists) \cap T \subseteq RowsIn(live', exists')
      BY <2>1 DEF RowsIn
    <3> QED BY <3>2, <3>3, SeqMonotonic
  <2> HIDE DEF gone, T
  <2>4. active' \in [Tunnels -> 0 .. MaxId]
    BY <2>1, BoundsAssumption DEF DbInv
  <2>5. \A t \in Tunnels : active'[t] # 0 => active'[t] \in live' /\ t \in exists'
    BY <2>1 DEF DbInv
  <2> QED BY <2>1, <2>2, <2>3, <2>4, <2>5 DEF DbInv
<1> QED BY <1>1, <1>2

\* New nodes come behind the old ones, which stay as they are.
LEMMA Inserted ==
    ASSUME DbInv, JobInv, NEW w \in Workers, pc[w] = "insert",
           Len(node) + Len(body[w]) <= MaxId,
           node' = node \o [k \in DOMAIN body[w] |-> [sub |-> on[w], uri |-> body[w][k]]]
    PROVE  /\ node' \in Seq([sub : Subs, uri : Uris])
           /\ Len(node') = Len(node) + Len(body[w])
           /\ \A i \in DOMAIN node : node'[i] = node[i]
           /\ \A k \in DOMAIN body[w] : /\ Len(node) + k \in DOMAIN node'
                                        /\ Len(node) + k \in 1 .. MaxId
                                        /\ Len(node) + k \notin DOMAIN node
                                        /\ node'[Len(node) + k] = [sub |-> on[w], uri |-> body[w][k]]
<1> DEFINE NodeRow == [sub : Subs, uri : Uris]
           new == [k \in DOMAIN body[w] |-> [sub |-> on[w], uri |-> body[w][k]]]
<1>1. body[w] \in Seq(Uris) /\ on[w] \in Subs /\ node \in Seq(NodeRow)
  BY BodyType DEF JobInv, DbInv
<1>2. \A k \in DOMAIN body[w] : new[k] \in NodeRow
  BY <1>1, ElementIn
<1>3. new \in Seq(NodeRow) /\ Len(new) = Len(body[w])
  <2>1. DOMAIN new = DOMAIN body[w] /\ new = [k \in DOMAIN body[w] |-> new[k]]
    OBVIOUS
  <2> HIDE DEF new, NodeRow
  <2> QED BY <1>1, <1>2, <2>1, MapType
<1>4. /\ Len(node) \in Nat /\ DOMAIN node = 1 .. Len(node)
      /\ Len(body[w]) \in Nat /\ DOMAIN body[w] = 1 .. Len(body[w])
  BY <1>1, ElementIn
<1>5. \A k \in DOMAIN body[w] : new[k] = [sub |-> on[w], uri |-> body[w][k]]
  OBVIOUS
<1>6. node' = node \o new
  OBVIOUS
<1> HIDE DEF new, NodeRow
<1>7. /\ node' \in Seq(NodeRow) /\ Len(node') = Len(node) + Len(new)
      /\ DOMAIN node' = 1 .. (Len(node) + Len(new))
      /\ \A i \in 1 .. Len(node) : node'[i] = node[i]
      /\ \A k \in 1 .. Len(new) : node'[Len(node) + k] = new[k]
  <2>1. /\ node \o new \in Seq(NodeRow) /\ Len(node \o new) = Len(node) + Len(new)
        /\ \A i \in 1 .. (Len(node) + Len(new)) :
              (node \o new)[i] = IF i <= Len(node) THEN node[i] ELSE new[i - Len(node)]
    BY <1>1, <1>3, ConcatProperties
  <2>2. DOMAIN (node \o new) = 1 .. (Len(node) + Len(new))
    BY <2>1, ElementIn
  <2>3. \A i \in 1 .. Len(node) : (node \o new)[i] = node[i]
    BY <1>3, <1>4, <2>1
  <2>4. \A k \in 1 .. Len(new) : (node \o new)[Len(node) + k] = new[k]
    <3> TAKE k \in 1 .. Len(new)
    <3>1. /\ Len(node) + k \in 1 .. (Len(node) + Len(new)) /\ ~ (Len(node) + k <= Len(node))
          /\ (Len(node) + k) - Len(node) = k
      BY <1>3, <1>4
    <3> QED BY <2>1, <3>1
  <2> QED BY <1>6, <2>1, <2>2, <2>3, <2>4
<1>8. \A k \in DOMAIN body[w] : /\ Len(node) + k \in 1 .. (Len(node) + Len(body[w]))
                                /\ Len(node) + k \in 1 .. MaxId
                                /\ Len(node) + k \notin 1 .. Len(node)
  BY <1>4, BoundsAssumption
<1> QED BY <1>3, <1>4, <1>5, <1>7, <1>8 DEF NodeRow

\* New rows take nothing away.
LEMMA InsertNodesInv ==
    ASSUME DbInv, JobInv, NEW w \in Workers, InsertNodes(w)
    PROVE  DbInv' /\ JobInv'
<1>1. CASE Fails(w, "insert")
  BY <1>1, FailsInv
<1>2. CASE ~ Fails(w, "insert")
  <2> DEFINE ids == [k \in DOMAIN body[w] |-> Len(node) + k]
  <2>1. /\ pc[w] = "insert"
        /\ Len(node) + Len(body[w]) <= MaxId
        /\ node' = node \o [k \in DOMAIN body[w] |-> [sub |-> on[w], uri |-> body[w][k]]]
        /\ live' = live \cup Range(ids)
        /\ fresh' = [fresh EXCEPT ![w] = ids]
        /\ Goto(w, "remap")
        /\ UNCHANGED <<sub, exists, tsub, active, links, on, row, body, bindA, bindT,
                       cancelled, histVars>>
    BY <1>2 DEF InsertNodes
  <2>2. /\ node' \in Seq([sub : Subs, uri : Uris])
        /\ Len(node') = Len(node) + Len(body[w])
        /\ \A k \in DOMAIN body[w] : ids[k] \in DOMAIN node' /\ ids[k] \in 1 .. MaxId
    BY <2>1, Inserted
  <2>3. ids \in Seq(1 .. MaxId)
    <3>1. DOMAIN ids = DOMAIN body[w] /\ ids = [k \in DOMAIN body[w] |-> ids[k]]
      OBVIOUS
    <3>2. body[w] \in Seq(Uris)
      BY BodyType
    <3> HIDE DEF ids
    <3> QED BY <2>2, <3>1, <3>2, MapType
  <2>4. Range(ids) \subseteq DOMAIN node'
    BY <2>2 DEF Range
  <2>5. DOMAIN node \subseteq DOMAIN node'
    <3>1. /\ Len(node) \in Nat /\ DOMAIN node = 1 .. Len(node)
          /\ Len(body[w]) \in Nat /\ DOMAIN node' = 1 .. Len(node')
      BY <2>2, BodyType, ElementIn DEF DbInv
    <3> QED BY <2>2, <3>1
  <2> HIDE DEF ids
  <2>6. live' \subseteq DOMAIN node' /\ live \subseteq live'
    BY <2>1, <2>4, <2>5 DEF DbInv
  <2>7. links' \in Seq(RowsIn(live', exists'))
    <3>1. RowsIn(live, exists) \subseteq RowsIn(live', exists')
      BY <2>1, <2>6 DEF RowsIn
    <3> QED BY <2>1, <3>1, SeqMonotonic DEF DbInv
  <2>8. JobInv'
    BY <2>1, <2>3 DEF JobInv, Goto, Steps, histVars
  <2>9. \A t \in Tunnels : active'[t] # 0 => active'[t] \in live' /\ t \in exists'
    BY <2>1, <2>6 DEF DbInv
  <2> QED BY <2>1, <2>2, <2>6, <2>7, <2>8, <2>9 DEF DbInv
<1> QED BY <1>1, <1>2

\* The three ways a step of RemapActive goes on.
LEMMA RemapActiveInv ==
    ASSUME DbInv, JobInv, NEW w \in Workers, RemapActive(w)
    PROVE  DbInv' /\ JobInv'
<1>1. CASE bindA[w] # {} /\ Fails(w, "remap")
  BY <1>1, FailsInv
<1>2. CASE /\ pc[w] = "remap" /\ bindA[w] = {}
           /\ Goto(w, "restore")
           /\ UNCHANGED <<dbVars, on, row, body, bindA, bindT, fresh, cancelled, histVars>>
  <2>1. JobInv'
    BY <1>2 DEF JobInv, Goto, Steps, histVars
  <2> QED BY <1>2, <2>1, SameDb
<1>3. CASE ~ (bindA[w] # {} /\ Fails(w, "remap")) /\ bindA[w] # {}
  <2>1. PICK b \in bindA[w] :
           LET t == b[1]
               id == NewId(w, b[2])
               hits == id # 0 /\ t \in exists /\ tsub[t] = on[w]
           IN /\ pc[w] = "remap"
              /\ IF hits /\ id \notin live
                 THEN UNCHANGED active /\ Return(w)
                 ELSE /\ active' = IF hits THEN [active EXCEPT ![t] = id] ELSE active
                      /\ bindA' = [bindA EXCEPT ![w] = @ \ {b}]
                      /\ UNCHANGED <<pc, on, row, body, bindT, fresh, cancelled, histVars>>
              /\ UNCHANGED <<sub, node, live, exists, tsub, links>>
    BY <1>3 DEF RemapActive
  <2> DEFINE t == b[1]
             id == NewId(w, b[2])
             hits == id # 0 /\ t \in exists /\ tsub[t] = on[w]
  <2>2. CASE hits /\ id \notin live
    <3>1. UNCHANGED dbVars /\ Return(w)
      BY <2>1, <2>2 DEF dbVars
    <3> QED BY <3>1, SameDb, ReturnJob
  <2>3. CASE ~ (hits /\ id \notin live)
    <3>1. /\ active' = IF hits THEN [active EXCEPT ![t] = id] ELSE active
          /\ bindA' = [bindA EXCEPT ![w] = @ \ {b}]
          /\ UNCHANGED <<pc, on, row, body, bindT, fresh, cancelled, histVars>>
          /\ UNCHANGED <<sub, node, live, exists, tsub, links>>
      BY <2>1, <2>3
    <3>2. JobInv'
      BY <3>1 DEF JobInv, histVars
    <3>3. hits => id \in 1 .. MaxId /\ id \in live
      BY <2>3, NewIdType
    <3> HIDE DEF id
    <3>4. active' \in [Tunnels -> 0 .. MaxId]
      BY <3>1, <3>3, BoundsAssumption DEF DbInv
    <3>5. \A x \in Tunnels : active'[x] # 0 => active'[x] \in live' /\ x \in exists'
      BY <3>1, <3>3 DEF DbInv
    <3> QED BY <3>1, <3>2, <3>4, <3>5 DEF DbInv
  <2> QED BY <2>2, <2>3
<1> QED BY <1>1, <1>2, <1>3 DEF RemapActive

\* The restored rows are for tunnels and nodes that exist, or none is restored.
LEMMA RestoreLinksInv ==
    ASSUME DbInv, JobInv, NEW w \in Workers, RestoreLinks(w)
    PROVE  DbInv' /\ JobInv'
<1>1. CASE Fails(w, "restore")
  BY <1>1, FailsInv
<1>2. CASE ~ Fails(w, "restore")
  <2> DEFINE new == Restored(w)
             fits == \A k \in DOMAIN new : new[k].tun \in exists /\ new[k].node \in live
  <2>1. /\ IF fits
           THEN /\ links' = links \o new
                /\ Goto(w, "update")
                /\ UNCHANGED <<on, row, body, bindA, bindT, fresh, cancelled, histVars>>
           ELSE UNCHANGED links /\ Return(w)
        /\ pc[w] = "restore"
        /\ UNCHANGED <<sub, node, live, exists, tsub, active>>
    BY <1>2 DEF RestoreLinks
  <2>2. new \in Seq(LinkRow)
    BY RestoredType
  <2> HIDE DEF new
  <2>3. CASE ~ fits
    <3>1. UNCHANGED dbVars /\ Return(w)
      BY <2>1, <2>3 DEF dbVars
    <3> QED BY <3>1, SameDb, ReturnJob
  <2>4. CASE fits
    <3>1. JobInv'
      BY <2>1, <2>4 DEF JobInv, Goto, Steps, histVars
    <3>2. \A k \in DOMAIN new : new[k] \in RowsIn(live, exists)
      BY <2>2, <2>4, ElementIn DEF RowsIn
    <3>3. new \in Seq(RowsIn(live, exists))
      <4>1. new = [k \in DOMAIN new |-> new[k]]
        BY <2>2
      <4> QED BY <2>2, <3>2, <4>1, MapType
    <3>4. links' \in Seq(RowsIn(live, exists))
      <4>1. links \in Seq(RowsIn(live, exists)) /\ links' = links \o new
        BY <2>1, <2>4 DEF DbInv
      <4> QED BY <3>3, <4>1, ConcatProperties
    <3> QED BY <2>1, <3>1, <3>4 DEF DbInv
  <2> QED BY <2>3, <2>4
<1> QED BY <1>1, <1>2

\* The requests.
LEMMA AssignNodesInv ==
    ASSUME DbInv, JobInv, NEW t \in Tunnels, NEW list \in Lists, AssignNodes(t, list)
    PROVE  DbInv' /\ JobInv'
<1> DEFINE T == {l \in LinkRow : l.tun # t}
           new == [k \in DOMAIN list |-> [tun |-> t, node |-> list[k], pos |-> k - 1]]
           Good == RowsIn(live, exists)
<1>1. /\ t \in exists
      /\ links' = Where(links, T) \o new
      /\ disturbed' = disturbed \cup Refreshing(Subs)
      /\ UNCHANGED <<sub, node, live, exists, tsub, active, jobVars, before>>
  BY DEF AssignNodes
<1>2. JobInv'
  BY <1>1 DEF JobInv, jobVars, Refreshing
<1>3. list \in Seq(live)
  BY ListType
<1>4. \A k \in DOMAIN list : new[k] \in Good
  <2>1. \A k \in DOMAIN list : list[k] \in live /\ k \in Nat /\ k - 1 \in Nat
    BY <1>3, ElementIn
  <2>2. live \subseteq 1 .. MaxId
    <3>1. Len(node) \in Nat /\ DOMAIN node = 1 .. Len(node)
      BY ElementIn DEF DbInv
    <3> QED BY <3>1, BoundsAssumption DEF DbInv
  <2> QED BY <1>1, <2>1, <2>2 DEF RowsIn, LinkRow
<1>5. new \in Seq(Good)
  <2>1. DOMAIN new = DOMAIN list /\ new = [k \in DOMAIN list |-> new[k]]
    OBVIOUS
  <2> HIDE DEF new, Good
  <2> QED BY <1>3, <1>4, <2>1, MapType
<1>6. Where(links, T) \in Seq(Good)
  <2>1. Where(links, T) \in Seq(Good \cap T)
    BY WhereType DEF DbInv
  <2> HIDE DEF Good, T
  <2> QED BY <2>1, SeqMonotonic
<1> HIDE DEF new, T, Good
<1>7. links' \in Seq(Good)
  BY <1>1, <1>5, <1>6, ConcatProperties
<1> QED BY <1>1, <1>2, <1>7 DEF DbInv, Good

\* The active node of the body exists.
LEMMA PutTunnelInv ==
    ASSUME DbInv, JobInv, NEW t \in Tunnels, NEW s \in Subs \cup {NoSub}, NEW n \in 0 .. MaxId,
           PutTunnel(t, s, n)
    PROVE  DbInv' /\ JobInv'
<1>1. /\ t \in exists /\ (n # 0 => n \in live)
      /\ active' = active \/ active' = [active EXCEPT ![t] = n]
      /\ tsub' = tsub \/ tsub' = [tsub EXCEPT ![t] = s]
      /\ disturbed' = disturbed \cup Refreshing(Subs)
      /\ UNCHANGED <<sub, node, live, exists, links, jobVars, before>>
  BY DEF PutTunnel
<1>2. JobInv'
  BY <1>1 DEF JobInv, jobVars, Refreshing
<1>3. active' \in [Tunnels -> 0 .. MaxId] /\ tsub' \in [Tunnels -> Subs \cup {NoSub}]
  BY <1>1 DEF DbInv
<1>4. \A x \in Tunnels : active'[x] # 0 => active'[x] \in live' /\ x \in exists'
  BY <1>1 DEF DbInv
<1> QED BY <1>1, <1>2, <1>3, <1>4 DEF DbInv

\* The references of the tunnel go with it.
LEMMA DeleteTunnelInv ==
    ASSUME DbInv, JobInv, NEW t \in Tunnels, DeleteTunnel(t)
    PROVE  DbInv' /\ JobInv'
<1> DEFINE T == {l \in LinkRow : l.tun # t}
<1>1. /\ exists' = exists \ {t}
      /\ active' = [active EXCEPT ![t] = 0]
      /\ links' = Where(links, T)
      /\ disturbed' = disturbed \cup Refreshing(Subs)
      /\ UNCHANGED <<sub, node, live, tsub, jobVars, before>>
  BY DEF DeleteTunnel
<1>2. JobInv'
  BY <1>1 DEF JobInv, jobVars, Refreshing
<1>3. links' \in Seq(RowsIn(live', exists'))
  <2>1. links' \in Seq(RowsIn(live, exists) \cap T)
    BY <1>1, WhereType DEF DbInv
  <2>2. RowsIn(live, exists) \cap T \subseteq RowsIn(live', exists')
    BY <1>1 DEF RowsIn
  <2> QED BY <2>1, <2>2, SeqMonotonic
<1>4. active' \in [Tunnels -> 0 .. MaxId]
  BY <1>1, BoundsAssumption DEF DbInv
<1>5. \A x \in Tunnels : active'[x] # 0 => active'[x] \in live' /\ x \in exists'
  BY <1>1 DEF DbInv
<1> HIDE DEF T
<1> QED BY <1>1, <1>2, <1>3, <1>4, <1>5 DEF DbInv

\* The nodes stay, and so do the references to them.
LEMMA DeleteSubInv ==
    ASSUME DbInv, JobInv, NEW s \in Subs, DeleteSub(s)
    PROVE  DbInv' /\ JobInv'
<1>1. /\ sub' = [sub EXCEPT ![s] = NoRow]
      /\ disturbed' = disturbed \cup Refreshing({s})
      /\ UNCHANGED <<node, live, exists, tsub, active, links, jobVars, before>>
  BY DEF DeleteSub
<1>2. sub' \in [Subs -> SubRow]
  BY <1>1 DEF DbInv, NoRow, SubRow
<1>3. JobInv'
  BY <1>1 DEF JobInv, jobVars, Refreshing
<1> QED BY <1>1, <1>2, <1>3 DEF DbInv

\* Only the context changes.
LEMMA CancelInv ==
    ASSUME DbInv, JobInv, NEW w \in Workers, Cancel(w)
    PROVE  DbInv' /\ JobInv'
<1>1. JobInv'
  BY DEF JobInv, Cancel, histVars
<1> QED BY <1>1, SameDb DEF Cancel

\* Every step of a refresh keeps the tables and the refreshes as they should be.
LEMMA RefreshStepInv ==
    ASSUME DbInv, JobInv, NEW w \in Workers, RefreshStep(w)
    PROVE  DbInv' /\ JobInv'
  BY GetSubInv, FetchInv, RecordFailureInv, SnapshotActiveInv, SnapshotLinksInv,
     DeleteNodesInv, InsertNodesInv, RemapActiveInv, RestoreLinksInv, FinalUpdateInv
     DEF RefreshStep

\* Every step keeps the tables and the locals sound.
LEMMA NextInv ==
    ASSUME DbInv, JobInv, [Next]_vars
    PROVE  DbInv' /\ JobInv'
<1>1. ASSUME NEW w \in Workers, NEW s \in Subs, Begin(w, s) PROVE DbInv' /\ JobInv'
  BY <1>1, BeginInv
<1>2. ASSUME NEW w \in Workers, RefreshStep(w) PROVE DbInv' /\ JobInv'
  BY <1>2, RefreshStepInv
<1>3. ASSUME NEW w \in Workers, Cancel(w) PROVE DbInv' /\ JobInv'
  BY <1>3, CancelInv
<1>4. ASSUME NEW t \in Tunnels, NEW list \in Lists, AssignNodes(t, list) PROVE DbInv' /\ JobInv'
  BY <1>4, AssignNodesInv
<1>5. ASSUME NEW t \in Tunnels, NEW s \in Subs \cup {NoSub}, NEW n \in 0 .. MaxId,
             PutTunnel(t, s, n)
      PROVE  DbInv' /\ JobInv'
  BY <1>5, PutTunnelInv
<1>6. ASSUME NEW t \in Tunnels, DeleteTunnel(t) PROVE DbInv' /\ JobInv'
  BY <1>6, DeleteTunnelInv
<1>7. ASSUME NEW s \in Subs, DeleteSub(s) PROVE DbInv' /\ JobInv'
  BY <1>7, DeleteSubInv
<1>8. ASSUME UNCHANGED vars PROVE DbInv' /\ JobInv'
  <2>1. DbInv'
    BY <1>8, SameDb DEF vars
  <2> QED BY <1>8, <2>1 DEF JobInv, vars, jobVars, histVars
<1> QED
  BY <1>1, <1>2, <1>3, <1>4, <1>5, <1>6, <1>7, <1>8 DEF Next

\* What the invariants say of the properties.
LEMMA InvImplies ==
    ASSUME DbInv, JobInv
    PROVE  TypeOK /\ NoDangling
<1>1. links \in Seq(LinkRow)
  <2>1. RowsIn(live, exists) \subseteq LinkRow
    BY DEF RowsIn
  <2> QED BY <2>1, SeqMonotonic DEF DbInv
<1>2. \A k \in DOMAIN links : links[k].node \in live /\ links[k].tun \in exists
  <2>1. \A k \in DOMAIN links : links[k] \in RowsIn(live, exists)
    BY ElementIn DEF DbInv
  <2> QED BY <2>1 DEF RowsIn
<1> QED BY <1>1, <1>2 DEF DbInv, JobInv, TypeOK, NoDangling

\* The tables and the locals of the refreshes keep their types, and ids stay
\* within the bound.
THEOREM RefreshTypesAlways == Spec => []TypeOK
<1>1. Init => DbInv /\ JobInv
  BY InitDbInv, InitJobInv
<1>2. DbInv /\ JobInv /\ [Next]_vars => (DbInv /\ JobInv)'
  BY NextInv
<1>3. DbInv /\ JobInv => TypeOK
  BY InvImplies
<1> QED BY <1>1, <1>2, <1>3, PTL DEF Spec

\* However refreshes, assignments, edits and deletions interleave, no tunnel
\* refers to a node that was deleted, and no reference outlives its tunnel:
\* DeleteNodes clears before it deletes, and what is written back is refused
\* if it was deleted meanwhile.
THEOREM NoDanglingAlways == Spec => []NoDangling
<1>1. Init => DbInv /\ JobInv
  BY InitDbInv, InitJobInv
<1>2. DbInv /\ JobInv /\ [Next]_vars => (DbInv /\ JobInv)'
  BY NextInv
<1>3. DbInv /\ JobInv => NoDangling
  BY InvImplies
<1> QED BY <1>1, <1>2, <1>3, PTL DEF Spec

-----------------------------------------------------------------------------
(* A refresh touches only what is its subscription's own.                   *)

\* Before InsertNodes, and before SnapshotActive.
Early == {"idle", "get", "fetch", "fail", "snapA", "snapT", "delete", "insert"}
Unread == {"idle", "get", "fetch", "fail", "snapA"}

\* The ids a refresh has inserted are those of its subscription's nodes, one
\* for each URI of its list.
FreshInv ==
    /\ \A w \in Workers : pc[w] \in Early => fresh[w] = <<>>
    /\ \A w \in Workers : \A k \in DOMAIN fresh[w] :
          /\ k \in DOMAIN body[w] /\ fresh[w][k] \in DOMAIN node
          /\ node[fresh[w][k]] = [sub |-> on[w], uri |-> body[w][k]]

\* Two refreshes of one subscription know of each other.
AloneInv ==
    \A w, v \in Workers :
        w # v /\ pc[w] # "idle" /\ pc[v] # "idle" /\ on[w] = on[v] => w \in disturbed

\* What a refresh has copied of active_node_id is still so when nobody has
\* interfered: the tunnel is bound to the subscription, and if it has an active
\* node, then one with the copied URI.
BoundInv ==
    /\ \A w \in Workers : pc[w] \in Unread => bindA[w] = {}
    /\ \A w \in Workers \ disturbed : \A b \in bindA[w] :
          /\ tsub[b[1]] = on[w]
          /\ active[b[1]] # 0 => node[active[b[1]]].uri = b[2]
          /\ \A c \in bindA[w] : b[1] = c[1] => b = c

OwnInv == FreshInv /\ AloneInv /\ BoundInv

\* Initially nothing is inserted and nobody refreshes.
LEMMA InitOwnInv ==
    ASSUME Init
    PROVE  OwnInv
  BY DEF Init, OwnInv, FreshInv, AloneInv, BoundInv

\* A row of vless_nodes is never changed.
LEMMA NodeGrows ==
    ASSUME DbInv, JobInv, [Next]_vars
    PROVE  \A i \in DOMAIN node : i \in DOMAIN node' /\ node'[i] = node[i]
<1>1. CASE node' = node
  BY <1>1
<1>2. CASE node' # node
  <2>1. PICK w \in Workers : InsertNodes(w)
    BY <1>2 DEF Next, vars, dbVars, Begin, RefreshStep, Cancel, AssignNodes, PutTunnel,
                DeleteTunnel,
          DeleteSub, GetSub, Fetch, RecordFailure, WriteSub, SnapshotActive, SnapshotLinks,
          DeleteNodes, RemapActive, RestoreLinks, FinalUpdate, Fails
  <2>2. ~ Fails(w, "insert")
    BY <1>2 DEF Fails, dbVars
  <2>3. /\ pc[w] = "insert" /\ Len(node) + Len(body[w]) <= MaxId
        /\ node' = node \o [k \in DOMAIN body[w] |-> [sub |-> on[w], uri |-> body[w][k]]]
    BY <2>1, <2>2 DEF InsertNodes
  <2>4. /\ node' \in Seq([sub : Subs, uri : Uris])
        /\ Len(node') = Len(node) + Len(body[w])
        /\ \A i \in DOMAIN node : node'[i] = node[i]
    BY <2>3, Inserted
  <2>5. /\ Len(node) \in Nat /\ DOMAIN node = 1 .. Len(node)
        /\ Len(body[w]) \in Nat /\ DOMAIN node' = 1 .. Len(node')
    BY <2>4, BodyType, ElementIn DEF DbInv
  <2> QED BY <2>4, <2>5
<1> QED BY <1>1, <1>2

\* A step that leaves the locals of the refreshes as they are, except that some
\* may be disturbed.
LEMMA OthersOwnInv ==
    ASSUME DbInv, JobInv, OwnInv, [Next]_vars,
           UNCHANGED <<pc, on, body, bindA, fresh>>,
           \/ disturbed' = disturbed \cup Refreshing(Subs)
           \/ disturbed \subseteq disturbed' /\ UNCHANGED <<node, tsub, active>>
    PROVE  OwnInv'
<1>1. FreshInv'
  BY NodeGrows DEF OwnInv, FreshInv
<1>2. AloneInv'
  BY DEF OwnInv, AloneInv
<1>3. BoundInv'
  <2>1. CASE disturbed' = disturbed \cup Refreshing(Subs)
    <3>1. \A w \in Workers \ disturbed' : pc[w] = "idle"
      BY <2>1 DEF Refreshing, JobInv
    <3>2. \A w \in Workers \ disturbed' : bindA[w] = {}
      BY <3>1 DEF OwnInv, BoundInv, Unread
    <3> QED BY <3>2 DEF OwnInv, BoundInv
  <2>2. CASE disturbed \subseteq disturbed' /\ UNCHANGED <<node, tsub, active>>
    BY <2>2 DEF OwnInv, BoundInv
  <2> QED BY <2>1, <2>2
<1> QED BY <1>1, <1>2, <1>3 DEF OwnInv

\* Once a refresh has returned, nothing is said about it.  Active nodes may
\* have been cleared.
LEMMA ReturnOwnInv ==
    ASSUME DbInv, JobInv, OwnInv, NEW w \in Workers, Return(w), UNCHANGED <<node, tsub, active>>
    PROVE  OwnInv'
<1>1. /\ \A v \in Workers \ {w} : pc'[v] = pc[v] /\ on'[v] = on[v] /\ body'[v] = body[v]
                                  /\ bindA'[v] = bindA[v] /\ fresh'[v] = fresh[v]
      /\ pc'[w] = "idle" /\ bindA'[w] = {} /\ fresh'[w] = <<>>
      /\ disturbed' = disturbed \ {w}
  BY DEF Return, Goto, JobInv
<1>2. FreshInv'
  BY <1>1 DEF OwnInv, FreshInv
<1>3. AloneInv'
  BY <1>1 DEF OwnInv, AloneInv
<1>4. BoundInv'
  BY <1>1 DEF OwnInv, BoundInv
<1> QED BY <1>2, <1>3, <1>4 DEF OwnInv

\* A cancelled call ends the refresh.
LEMMA FailsOwnInv ==
    ASSUME DbInv, JobInv, OwnInv, NEW w \in Workers, NEW p, Fails(w, p)
    PROVE  OwnInv'
  BY ReturnOwnInv DEF Fails, dbVars

\* Two refreshes of one subscription are disturbed from where the second begins.
LEMMA BeginOwnInv ==
    ASSUME DbInv, JobInv, OwnInv, NEW w \in Workers, NEW s \in Subs, Begin(w, s)
    PROVE  OwnInv'
<1>1. /\ \A v \in Workers \ {w} : pc'[v] = pc[v] /\ on'[v] = on[v]
      /\ pc[w] = "idle" /\ pc'[w] = "get" /\ on'[w] = s
      /\ disturbed \subseteq disturbed'
      /\ \A v \in Workers \ {w} : pc[v] # "idle" /\ on[v] = s => v \in disturbed' /\ w \in disturbed'
      /\ UNCHANGED <<node, tsub, active, body, bindA, fresh>>
  BY DEF Begin, Goto, JobInv, Refreshing, dbVars
<1>2. FreshInv'
  BY <1>1 DEF OwnInv, FreshInv, Early
<1>3. AloneInv'
  BY <1>1 DEF OwnInv, AloneInv
<1>4. bindA[w] = {}
  BY <1>1 DEF OwnInv, BoundInv, Unread
<1>5. BoundInv'
  BY <1>1, <1>4 DEF OwnInv, BoundInv
<1> QED BY <1>2, <1>3, <1>5 DEF OwnInv

\* A step of a refresh from p to q that copies nothing and inserts nothing.
LEMMA GoOwnInv ==
    ASSUME DbInv, JobInv, OwnInv, NEW w \in Workers, NEW q, Goto(w, q),
           pc[w] # "idle", q # "idle",
           q \in Early => pc[w] \in Early,
           q \in Unread => pc[w] \in Unread,
           \/ body' = body
           \/ pc[w] \in Early /\ \E b : body' = [body EXCEPT ![w] = b],
           \A t \in Tunnels : active'[t] = 0 \/ active'[t] = active[t],
           UNCHANGED <<node, tsub, on, bindA, fresh, disturbed>>
    PROVE  OwnInv'
<1>1. /\ \A v \in Workers \ {w} : pc'[v] = pc[v] /\ body'[v] = body[v]
      /\ pc'[w] = q
      /\ body'[w] = body[w] \/ pc[w] \in Early
  BY DEF Goto, JobInv
<1>2. FreshInv'
  BY <1>1 DEF OwnInv, FreshInv
<1>3. AloneInv'
  BY <1>1 DEF OwnInv, AloneInv
<1>4. BoundInv'
  <2>1. \A v \in Workers : \A b \in bindA[v] : b[1] \in Tunnels
    BY DEF JobInv
  <2> QED BY <1>1, <2>1 DEF OwnInv, BoundInv
<1> QED BY <1>2, <1>3, <1>4 DEF OwnInv

\* The snapshot takes tunnels bound to the subscription only.
LEMMA SnapshotActiveOwnInv ==
    ASSUME DbInv, JobInv, OwnInv, NEW w \in Workers, SnapshotActive(w)
    PROVE  OwnInv'
<1>1. CASE Fails(w, "snapA")
  BY <1>1, FailsOwnInv
<1>2. CASE ~ Fails(w, "snapA")
  <2> DEFINE B == {<<t, node[active[t]].uri>> :
                      t \in {t \in exists : tsub[t] = on[w] /\ active[t] # 0}}
  <2>1. /\ \A v \in Workers \ {w} : pc'[v] = pc[v] /\ bindA'[v] = bindA[v]
        /\ pc[w] = "snapA" /\ pc'[w] = "snapT" /\ bindA'[w] = B
        /\ UNCHANGED <<node, tsub, active, on, body, fresh, disturbed>>
    BY <1>2 DEF SnapshotActive, Goto, JobInv, dbVars, histVars
  <2>2. \A b \in B : /\ tsub[b[1]] = on[w] /\ node[active[b[1]]].uri = b[2]
                     /\ \A c \in B : b[1] = c[1] => b = c
    OBVIOUS
  <2> HIDE DEF B
  <2>3. FreshInv'
    BY <2>1 DEF OwnInv, FreshInv, Early
  <2>4. AloneInv'
    BY <2>1 DEF OwnInv, AloneInv
  <2>5. BoundInv'
    BY <2>1, <2>2 DEF OwnInv, BoundInv, Unread
  <2> QED BY <2>3, <2>4, <2>5 DEF OwnInv
<1> QED BY <1>1, <1>2

\* The new ids are beyond all others and of the subscription.
LEMMA InsertNodesOwnInv ==
    ASSUME DbInv, JobInv, OwnInv, NEW w \in Workers, InsertNodes(w)
    PROVE  OwnInv'
<1>1. CASE Fails(w, "insert")
  BY <1>1, FailsOwnInv
<1>2. CASE ~ Fails(w, "insert")
  <2> DEFINE ids == [k \in DOMAIN body[w] |-> Len(node) + k]
  <2>1. /\ pc[w] = "insert" /\ Len(node) + Len(body[w]) <= MaxId
        /\ node' = node \o [k \in DOMAIN body[w] |-> [sub |-> on[w], uri |-> body[w][k]]]
        /\ fresh' = [fresh EXCEPT ![w] = ids]
        /\ Goto(w, "remap")
        /\ UNCHANGED <<tsub, active, on, body, bindA, disturbed>>
    BY <1>2 DEF InsertNodes, histVars
  <2>2. /\ \A i \in DOMAIN node : i \in DOMAIN node' /\ node'[i] = node[i]
        /\ \A k \in DOMAIN body[w] : /\ ids[k] \in DOMAIN node'
                                     /\ node'[ids[k]] = [sub |-> on[w], uri |-> body[w][k]]
    <3>1. [Next]_vars
      BY DEF Next, RefreshStep
    <3>2. \A i \in DOMAIN node : i \in DOMAIN node' /\ node'[i] = node[i]
      BY <3>1, NodeGrows
    <3>3. \A k \in DOMAIN body[w] : /\ Len(node) + k \in DOMAIN node'
                                    /\ node'[Len(node) + k] = [sub |-> on[w], uri |-> body[w][k]]
      BY <2>1, Inserted
    <3> QED BY <3>2, <3>3
  <2>3. DOMAIN ids = DOMAIN body[w]
    OBVIOUS
  <2> HIDE DEF ids
  <2>4. /\ \A v \in Workers \ {w} : pc'[v] = pc[v] /\ fresh'[v] = fresh[v]
        /\ pc'[w] = "remap" /\ fresh'[w] = ids
    BY <2>1 DEF Goto, JobInv
  <2>5. FreshInv'
    <3>1. "remap" \notin Early
      BY DEF Early
    <3>2. ASSUME NEW v \in Workers
          PROVE  /\ pc'[v] \in Early => fresh'[v] = <<>>
                 /\ \A k \in DOMAIN fresh'[v] :
                       /\ k \in DOMAIN body'[v] /\ fresh'[v][k] \in DOMAIN node'
                       /\ node'[fresh'[v][k]] = [sub |-> on'[v], uri |-> body'[v][k]]
      <4>1. CASE v = w
        BY <2>1, <2>2, <2>3, <2>4, <3>1, <4>1
      <4>2. CASE v # w
        <5>1. /\ pc'[v] = pc[v] /\ fresh'[v] = fresh[v]
              /\ body'[v] = body[v] /\ on'[v] = on[v]
          BY <2>1, <2>4, <4>2
        <5>2. /\ pc[v] \in Early => fresh[v] = <<>>
              /\ \A k \in DOMAIN fresh[v] :
                    /\ k \in DOMAIN body[v] /\ fresh[v][k] \in DOMAIN node
                    /\ node[fresh[v][k]] = [sub |-> on[v], uri |-> body[v][k]]
          BY DEF OwnInv, FreshInv
        <5> QED BY <2>2, <5>1, <5>2
      <4> QED BY <4>1, <4>2
    <3> QED BY <3>2 DEF FreshInv
  <2>6. AloneInv'
    BY <2>1, <2>4 DEF OwnInv, AloneInv
  <2>7. BoundInv'
    <3>1. \A v \in Workers : \A b \in bindA[v] :
             active[b[1]] # 0 => node'[active[b[1]]] = node[active[b[1]]]
      <4>1. \A v \in Workers : \A b \in bindA[v] : b[1] \in Tunnels
        BY DEF JobInv
      <4> QED BY <2>2, <4>1 DEF DbInv
    <3>2. "remap" \notin Unread
      BY DEF Unread
    <3>3. /\ \A v \in Workers : pc'[v] \in Unread => pc[v] \in Unread
          /\ UNCHANGED <<tsub, active, on, bindA, disturbed>>
      BY <2>1, <2>4, <3>2
    <3> QED BY <3>1, <3>3 DEF OwnInv, BoundInv
  <2> QED BY <2>5, <2>6, <2>7 DEF OwnInv
<1> QED BY <1>1, <1>2

\* The node a refresh finds for a URI has that URI and is its subscription's.
LEMMA NewIdOwn ==
    ASSUME DbInv, JobInv, OwnInv, NEW w \in Workers, NEW u, NewId(w, u) # 0
    PROVE  /\ NewId(w, u) \in DOMAIN node
           /\ node[NewId(w, u)].sub = on[w] /\ node[NewId(w, u)].uri = u
<1>1. PICK k \in DOMAIN fresh[w] : body[w][k] = u /\ NewId(w, u) = fresh[w][k]
  BY NewIdIs
<1>2. fresh[w][k] \in DOMAIN node /\ node[fresh[w][k]] = [sub |-> on[w], uri |-> body[w][k]]
  BY <1>1 DEF OwnInv, FreshInv
<1> QED BY <1>1, <1>2

\* How a step of RemapActive that neither fails nor ends changes active_node_id.
LEMMA RemapIs ==
    ASSUME DbInv, JobInv, OwnInv, NEW w \in Workers, RemapActive(w), ~ Return(w), bindA[w] # {}
    PROVE  \E b \in bindA[w] :
              LET t == b[1]
                  id == NewId(w, b[2])
                  hits == id # 0 /\ t \in exists /\ tsub[t] = on[w]
              IN /\ t \in Tunnels
                 /\ hits => id \in live
                 /\ active' = IF hits THEN [active EXCEPT ![t] = id] ELSE active
                 /\ bindA' = [bindA EXCEPT ![w] = @ \ {b}]
                 /\ UNCHANGED <<pc, on, row, body, bindT, fresh, cancelled, disturbed, before>>
                 /\ UNCHANGED <<sub, node, live, exists, tsub, links>>
                 /\ pc[w] = "remap"
<1>1. \A b \in bindA[w] : b[1] \in Tunnels
  BY DEF JobInv
<1> QED BY <1>1 DEF RemapActive, Fails, histVars

\* A binding that is taken writes a node of its own URI.
LEMMA RemapActiveOwnInv ==
    ASSUME DbInv, JobInv, OwnInv, NEW w \in Workers, RemapActive(w)
    PROVE  OwnInv'
<1>1. CASE Return(w)
  <2>1. UNCHANGED <<node, tsub, active>>
    <3>1. pc[w] = "remap" /\ pc'[w] = "idle"
      BY <1>1 DEF RemapActive, Fails, Return, Goto, JobInv
    <3> QED BY <3>1 DEF RemapActive, Fails, dbVars, Goto, JobInv
  <2> QED BY <1>1, <2>1, ReturnOwnInv
<1>2. CASE bindA[w] = {}
  <2>1. /\ pc[w] = "remap" /\ Goto(w, "restore")
        /\ UNCHANGED <<dbVars, on, body, bindA, fresh, disturbed>>
    BY <1>2 DEF RemapActive, histVars
  <2>2. /\ "restore" \notin Early /\ "restore" \notin Unread
        /\ UNCHANGED <<node, tsub, active>>
    BY <2>1 DEF Early, Unread, dbVars
  <2> QED BY <2>1, <2>2, GoOwnInv
<1>3. CASE ~ Return(w) /\ bindA[w] # {}
  <2>1. PICK b \in bindA[w] :
           LET t == b[1]
               id == NewId(w, b[2])
               hits == id # 0 /\ t \in exists /\ tsub[t] = on[w]
           IN /\ t \in Tunnels
              /\ hits => id \in live
              /\ active' = IF hits THEN [active EXCEPT ![t] = id] ELSE active
              /\ bindA' = [bindA EXCEPT ![w] = @ \ {b}]
              /\ UNCHANGED <<pc, on, row, body, bindT, fresh, cancelled, disturbed, before>>
              /\ UNCHANGED <<sub, node, live, exists, tsub, links>>
              /\ pc[w] = "remap"
    BY <1>3, RemapIs
  <2>2. FreshInv' /\ AloneInv'
    BY <2>1 DEF OwnInv, FreshInv, AloneInv
  <2>3. /\ \A v \in Workers \ {w} : bindA'[v] = bindA[v]
        /\ bindA'[w] = bindA[w] \ {b}
    BY <2>1 DEF JobInv
  <2>4. \A v \in Workers : bindA'[v] \subseteq bindA[v]
    BY <2>3
  <2>5. ASSUME NEW v \in Workers \ disturbed, NEW c \in bindA'[v], active'[c[1]] # active[c[1]]
        PROVE  FALSE
    <3>1. c \in bindA[v] /\ tsub[c[1]] = on[v] /\ c[1] \in Tunnels
      <4>1. c \in bindA[v]
        BY <2>4
      <4>2. bindA[v] \in SUBSET (Tunnels \X Uris)
        BY DEF JobInv
      <4> QED BY <4>1, <4>2 DEF OwnInv, BoundInv
    <3>2. c[1] = b[1] /\ tsub[b[1]] = on[w]
      BY <2>1, <2>5, <3>1 DEF DbInv
    <3>3. v # w
      <4>1. v = w => c # b /\ b \in bindA[v]
        BY <2>3
      <4> QED BY <3>1, <3>2, <4>1 DEF OwnInv, BoundInv
    <3>4. pc[v] # "idle" /\ pc[w] # "idle" /\ on[v] = on[w]
      BY <2>1, <3>1, <3>2 DEF OwnInv, BoundInv, Unread
    <3> QED BY <3>3, <3>4 DEF OwnInv, AloneInv
  <2>6. UNCHANGED <<pc, on, tsub, node, disturbed>>
    BY <2>1
  <2>7. BoundInv'
    BY <2>4, <2>5, <2>6 DEF OwnInv, BoundInv
  <2> QED BY <2>2, <2>7 DEF OwnInv
<1> QED BY <1>1, <1>2, <1>3

\* Where the other steps of a refresh go.
LEMMA RefreshStepOwnInv ==
    ASSUME DbInv, JobInv, OwnInv, NEW w \in Workers, RefreshStep(w)
    PROVE  OwnInv'
<1> USE DEF Early, Unread
<1>1. CASE GetSub(w)
  <2>1. CASE Return(w)
    BY <1>1, <2>1, ReturnOwnInv DEF GetSub, dbVars
  <2>2. CASE ~ Return(w)
    <3>1. /\ pc[w] = "get" /\ Goto(w, "fetch")
          /\ UNCHANGED <<node, tsub, active, body, on, bindA, fresh, disturbed>>
      BY <1>1, <2>2 DEF GetSub, dbVars, histVars
    <3> QED BY <3>1, GoOwnInv
  <2> QED BY <2>1, <2>2
<1>2. CASE Fetch(w)
  <2>1. CASE Return(w)
    BY <1>2, <2>1, ReturnOwnInv DEF Fetch, dbVars
  <2>2. CASE ~ Return(w)
    <3>1. /\ pc[w] = "fetch" /\ (Goto(w, "snapA") \/ Goto(w, "fail"))
          /\ body' = body \/ \E b : body' = [body EXCEPT ![w] = b]
          /\ UNCHANGED <<node, tsub, active, on, bindA, fresh, disturbed>>
      BY <1>2, <2>2 DEF Fetch, dbVars, histVars
    <3> QED BY <3>1, GoOwnInv
  <2> QED BY <2>1, <2>2
<1>3. CASE RecordFailure(w) \/ FinalUpdate(w)
  BY <1>3, ReturnOwnInv DEF RecordFailure, FinalUpdate, WriteSub
<1>4. CASE SnapshotActive(w)
  BY <1>4, SnapshotActiveOwnInv
<1>5. CASE SnapshotLinks(w)
  <2>1. CASE Fails(w, "snapT")
    BY <2>1, FailsOwnInv
  <2>2. CASE ~ Fails(w, "snapT")
    <3>1. /\ pc[w] = "snapT" /\ Goto(w, "delete")
          /\ UNCHANGED <<node, tsub, active, body, on, bindA, fresh, disturbed>>
      BY <1>5, <2>2 DEF SnapshotLinks, dbVars, histVars
    <3> QED BY <3>1, GoOwnInv
  <2> QED BY <2>1, <2>2
<1>6. CASE DeleteNodes(w)
  <2>1. CASE Fails(w, "delete")
    BY <2>1, FailsOwnInv
  <2>2. CASE ~ Fails(w, "delete")
    <3>1. /\ pc[w] = "delete" /\ (Goto(w, "update") \/ Goto(w, "insert"))
          /\ \A t \in Tunnels : active'[t] = 0 \/ active'[t] = active[t]
          /\ UNCHANGED <<node, tsub, body, on, bindA, fresh, disturbed>>
      BY <1>6, <2>2 DEF DeleteNodes, histVars
    <3> QED BY <3>1, GoOwnInv
  <2> QED BY <2>1, <2>2
<1>7. CASE InsertNodes(w)
  BY <1>7, InsertNodesOwnInv
<1>8. CASE RemapActive(w)
  BY <1>8, RemapActiveOwnInv
<1>9. CASE RestoreLinks(w)
  <2>1. CASE Return(w)
    BY <1>9, <2>1, ReturnOwnInv DEF RestoreLinks, Fails, dbVars
  <2>2. CASE ~ Return(w)
    <3>1. /\ pc[w] = "restore" /\ Goto(w, "update")
          /\ UNCHANGED <<node, tsub, active, body, on, bindA, fresh, disturbed>>
      BY <1>9, <2>2 DEF RestoreLinks, Fails, dbVars, histVars
    <3> QED BY <3>1, GoOwnInv
  <2> QED BY <2>1, <2>2
<1> QED
  BY <1>1, <1>2, <1>3, <1>4, <1>5, <1>6, <1>7, <1>8, <1>9 DEF RefreshStep

\* Every step keeps OwnInv.
LEMMA NextOwnInv ==
    ASSUME DbInv, JobInv, OwnInv, [Next]_vars
    PROVE  OwnInv'
<1>1. ASSUME NEW w \in Workers, NEW s \in Subs, Begin(w, s) PROVE OwnInv'
  BY <1>1, BeginOwnInv
<1>2. ASSUME NEW w \in Workers, RefreshStep(w) PROVE OwnInv'
  BY <1>2, RefreshStepOwnInv
<1>3. ASSUME NEW w \in Workers, Cancel(w) PROVE OwnInv'
  BY <1>3, OthersOwnInv DEF Cancel, dbVars, histVars
<1>4. ASSUME NEW t \in Tunnels, NEW list \in Lists, AssignNodes(t, list) PROVE OwnInv'
  BY <1>4, OthersOwnInv DEF AssignNodes, jobVars
<1>5. ASSUME NEW t \in Tunnels, NEW s \in Subs \cup {NoSub}, NEW n \in 0 .. MaxId,
             PutTunnel(t, s, n)
      PROVE  OwnInv'
  BY <1>5, OthersOwnInv DEF PutTunnel, jobVars
<1>6. ASSUME NEW t \in Tunnels, DeleteTunnel(t) PROVE OwnInv'
  BY <1>6, OthersOwnInv DEF DeleteTunnel, jobVars
<1>7. ASSUME NEW s \in Subs, DeleteSub(s) PROVE OwnInv'
  BY <1>7, OthersOwnInv DEF DeleteSub, jobVars
<1>8. ASSUME UNCHANGED vars PROVE OwnInv'
  BY <1>8, OthersOwnInv DEF vars, dbVars, jobVars, histVars
<1> QED
  BY <1>1, <1>2, <1>3, <1>4, <1>5, <1>6, <1>7, <1>8 DEF Next

\* The rows for nodes of a subscription.
RowsOf(s) == {l \in LinkRow : l.node \in NodesOf(s)}

\* If the rows for a subscription's nodes stay, so do the references by URI.
LEMMA LinksToSame ==
    ASSUME DbInv, NEW s, Where(links, RowsOf(s))' = Where(links, RowsOf(s)),
           \A i \in DOMAIN node : node'[i] = node[i]
    PROVE  LinksTo(s)' = LinksTo(s)
<1> DEFINE mine == Where(links, RowsOf(s))
<1>1. mine \in Seq(RowsIn(live, exists) \cap RowsOf(s))
  BY WhereType DEF DbInv
<1>2. /\ LinksTo(s) = [k \in DOMAIN mine |->
            [tun |-> mine[k].tun, uri |-> node[mine[k].node].uri, pos |-> mine[k].pos]]
      /\ LinksTo(s)' = [k \in DOMAIN mine |->
            [tun |-> mine[k].tun, uri |-> node'[mine[k].node].uri, pos |-> mine[k].pos]]
  BY DEF LinksTo, RowsOf
<1> HIDE DEF mine
<1>3. \A k \in DOMAIN mine : mine[k].node \in DOMAIN node
  <2>1. \A k \in DOMAIN mine : mine[k] \in RowsIn(live, exists) \cap RowsOf(s)
    BY <1>1, ElementIn
  <2> QED BY <2>1 DEF RowsIn, DbInv
<1> QED BY <1>2, <1>3

\* What the steps of a refresh change in the tables: nothing, the row of the
\* subscription, or one of four things.
LEMMA StepKinds ==
    ASSUME DbInv, JobInv, OwnInv, NEW w \in Workers, RefreshStep(w)
    PROVE  \/ UNCHANGED dbVars
           \/ \E r : WriteSub(w, r) /\ pc[w] # "idle"
           \/ DeleteNodes(w) /\ ~ Fails(w, "delete")
           \/ InsertNodes(w) /\ ~ Fails(w, "insert")
           \/ RemapActive(w) /\ ~ Return(w) /\ bindA[w] # {}
           \/ RestoreLinks(w) /\ ~ Fails(w, "restore")
<1>1. CASE GetSub(w) \/ Fetch(w)
  BY <1>1 DEF GetSub, Fetch
<1>2. CASE SnapshotActive(w) \/ SnapshotLinks(w)
  BY <1>2 DEF SnapshotActive, SnapshotLinks, Fails, dbVars
<1>3. CASE RecordFailure(w) \/ FinalUpdate(w)
  BY <1>3 DEF RecordFailure, FinalUpdate
<1>4. CASE DeleteNodes(w) \/ InsertNodes(w) \/ RestoreLinks(w)
  BY <1>4 DEF Fails
<1>5. CASE RemapActive(w) /\ bindA[w] = {}
  BY <1>5 DEF RemapActive
<1>6. CASE RemapActive(w) /\ Return(w)
  <2>1. pc[w] = "remap" /\ pc'[w] = "idle"
    BY <1>6 DEF RemapActive, Fails, Return, Goto, JobInv
  <2> QED BY <1>6, <2>1 DEF RemapActive, Fails, dbVars, Goto, JobInv
<1> QED
  BY <1>1, <1>2, <1>3, <1>4, <1>5, <1>6 DEF RefreshStep

\* What a step of a refresh leaves alone of another subscription s.
Untouched(w, s) ==
    /\ NodesOf(s)' = NodesOf(s)
    /\ LinksTo(s)' = LinksTo(s)
    /\ sub'[s] = sub[s]
    /\ \A t \in Tunnels : w \notin disturbed /\ ActiveUri(s)[t] # NoUri =>
          active'[t] # 0 /\ node[active'[t]].uri = ActiveUri(s)[t]

\* An active node of a subscription, by id and by URI.
LEMMA ActiveIs ==
    ASSUME DbInv, NEW s, NEW t \in Tunnels, ActiveUri(s)[t] # NoUri
    PROVE  /\ active[t] # 0 /\ active[t] \in NodesOf(s)
           /\ active[t] \in live /\ node[active[t]].sub = s
           /\ ActiveUri(s)[t] = node[active[t]].uri
<1>1. active[t] \in NodesOf(s) /\ ActiveUri(s)[t] = node[active[t]].uri
  BY DEF ActiveUri
<1>2. 0 \notin live
  <2>1. Len(node) \in Nat /\ DOMAIN node = 1 .. Len(node)
    BY ElementIn DEF DbInv
  <2> QED BY <2>1 DEF DbInv
<1> QED BY <1>1, <1>2 DEF NodesOf

\* DeleteNodes takes away rows of its own subscription only.
LEMMA DeleteUntouched ==
    ASSUME DbInv, JobInv, OwnInv, NEW w \in Workers, NEW s \in Subs \ {on[w]},
           DeleteNodes(w), ~ Fails(w, "delete")
    PROVE  Untouched(w, s)
<1> DEFINE gone == NodesOf(on[w])
           T == {l \in LinkRow : l.node \notin gone}
<1>1. /\ active' = [t \in Tunnels |-> IF active[t] \in gone THEN 0 ELSE active[t]]
      /\ links' = Where(links, T)
      /\ live' = live \ gone
      /\ UNCHANGED <<sub, node, exists, tsub>>
  BY DEF DeleteNodes
<1>2. NodesOf(s)' = NodesOf(s)
  BY <1>1 DEF NodesOf
<1>3. RowsOf(s)' = RowsOf(s)
  BY <1>2 DEF RowsOf
<1>4. Where(Where(links, T), RowsOf(s)) = Where(links, RowsOf(s))
  <2>1. RowsIn(live, exists) \cap RowsOf(s) \subseteq T
    BY DEF RowsIn, RowsOf, NodesOf
  <2>2. links \in Seq(RowsIn(live, exists))
    BY DEF DbInv
  <2> HIDE DEF T
  <2> QED BY <2>1, <2>2, WhereTwice
<1>5. LinksTo(s)' = LinksTo(s)
  <2>1. Where(links, RowsOf(s))' = Where(links, RowsOf(s))
    BY <1>1, <1>3, <1>4
  <2> QED BY <1>1, <2>1, LinksToSame
<1>6. ASSUME NEW t \in Tunnels, ActiveUri(s)[t] # NoUri
      PROVE  active'[t] # 0 /\ node[active'[t]].uri = ActiveUri(s)[t]
  <2>1. active'[t] = active[t]
    BY <1>1, <1>6, ActiveIs DEF NodesOf
  <2> QED BY <1>6, <2>1, ActiveIs
<1> QED BY <1>1, <1>2, <1>5, <1>6 DEF Untouched

\* InsertNodes adds rows of its own subscription only.
LEMMA InsertUntouched ==
    ASSUME DbInv, JobInv, OwnInv, NEW w \in Workers, NEW s \in Subs \ {on[w]},
           InsertNodes(w), ~ Fails(w, "insert")
    PROVE  Untouched(w, s)
<1> DEFINE ids == [k \in DOMAIN body[w] |-> Len(node) + k]
<1>1. /\ pc[w] = "insert" /\ Len(node) + Len(body[w]) <= MaxId
      /\ node' = node \o [k \in DOMAIN body[w] |-> [sub |-> on[w], uri |-> body[w][k]]]
      /\ live' = live \cup Range(ids)
      /\ UNCHANGED <<sub, active, links>>
  BY DEF InsertNodes
<1>2. /\ \A i \in DOMAIN node : node'[i] = node[i]
      /\ \A k \in DOMAIN body[w] : node'[Len(node) + k].sub = on[w]
  BY <1>1, Inserted
<1>3. \A i \in Range(ids) : node'[i].sub = on[w]
  BY <1>2 DEF Range
<1> HIDE DEF ids
<1>4. NodesOf(s)' = NodesOf(s)
  <2>1. \A i \in live : node'[i] = node[i]
    BY <1>2 DEF DbInv
  <2> QED BY <1>1, <1>3, <2>1 DEF NodesOf
<1>5. LinksTo(s)' = LinksTo(s)
  <2>1. Where(links, RowsOf(s))' = Where(links, RowsOf(s))
    BY <1>1, <1>4 DEF RowsOf
  <2> QED BY <1>2, <2>1, LinksToSame
<1> QED BY <1>1, <1>4, <1>5, ActiveIs DEF Untouched

\* RemapActive replaces an active node only by one of the copied URI.
LEMMA RemapUntouched ==
    ASSUME DbInv, JobInv, OwnInv, NEW w \in Workers, NEW s \in Subs \ {on[w]},
           RemapActive(w), ~ Return(w), bindA[w] # {}
    PROVE  Untouched(w, s)
<1>1. PICK b \in bindA[w] :
         LET t == b[1]
             id == NewId(w, b[2])
             hits == id # 0 /\ t \in exists /\ tsub[t] = on[w]
         IN /\ t \in Tunnels
            /\ hits => id \in live
            /\ active' = IF hits THEN [active EXCEPT ![t] = id] ELSE active
            /\ UNCHANGED <<sub, node, live, exists, tsub, links>>
  BY RemapIs
<1>2. NodesOf(s)' = NodesOf(s) /\ LinksTo(s)' = LinksTo(s)
  BY <1>1 DEF NodesOf, LinksTo
<1>3. ASSUME NEW t \in Tunnels, w \notin disturbed, ActiveUri(s)[t] # NoUri
      PROVE  active'[t] # 0 /\ node[active'[t]].uri = ActiveUri(s)[t]
  <2>1. active[t] # 0 /\ ActiveUri(s)[t] = node[active[t]].uri
    BY <1>3, ActiveIs
  <2>2. CASE active'[t] = active[t]
    BY <2>1, <2>2
  <2>3. CASE active'[t] # active[t]
    <3> DEFINE id == NewId(w, b[2])
    <3>1. t = b[1] /\ id # 0 /\ active'[t] = id
      BY <1>1, <2>3 DEF DbInv
    <3>2. node[id].uri = b[2]
      <4>1. NewId(w, b[2]) # 0
        BY <3>1
      <4> QED BY <4>1, NewIdOwn
    <3>3. node[active[t]].uri = b[2]
      BY <1>3, <2>1, <3>1 DEF OwnInv, BoundInv
    <3> HIDE DEF id
    <3> QED BY <2>1, <3>1, <3>2, <3>3
  <2> QED BY <2>2, <2>3
<1> QED BY <1>1, <1>2, <1>3 DEF Untouched

\* The rows a refresh restores are for nodes of its own subscription.
LEMMA RestoredOwn ==
    ASSUME DbInv, JobInv, OwnInv, NEW w \in Workers,
           \A k \in DOMAIN Restored(w) :
              Restored(w)[k].tun \in exists /\ Restored(w)[k].node \in live
    PROVE  Restored(w) \in Seq(RowsIn(live, exists) \cap RowsOf(on[w]))
<1> DEFINE T == {b \in Binding : NewId(w, b.uri) # 0}
           kept == Where(bindT[w], T)
           new == Restored(w)
<1>1. new \in Seq(LinkRow)
  BY RestoredType
<1>2. new = [k \in DOMAIN kept |->
         [tun |-> kept[k].tun, node |-> NewId(w, kept[k].uri), pos |-> kept[k].pos]]
  BY DEF Restored
<1>3. kept \in Seq(Binding \cap T)
  BY WhereType DEF JobInv
<1>4. \A k \in DOMAIN new : new[k] \in LinkRow /\ new[k].tun \in exists /\ new[k].node \in live
  BY <1>1, ElementIn
<1> HIDE DEF new, kept
<1>5. \A k \in DOMAIN new : node[new[k].node].sub = on[w]
  <2> TAKE k \in DOMAIN new
  <2>1. k \in DOMAIN kept /\ new[k].node = NewId(w, kept[k].uri)
    BY <1>2
  <2>2. NewId(w, kept[k].uri) # 0
    BY <1>3, <2>1, ElementIn
  <2> QED BY <2>1, <2>2, NewIdOwn
<1>6. \A k \in DOMAIN new : new[k] \in RowsIn(live, exists) \cap RowsOf(on[w])
  BY <1>4, <1>5 DEF RowsIn, RowsOf, NodesOf
<1>7. new = [k \in DOMAIN new |-> new[k]]
  BY <1>1
<1>8. new \in Seq(RowsIn(live, exists) \cap RowsOf(on[w]))
  BY <1>1, <1>6, <1>7, MapType
<1> QED BY <1>8 DEF new

\* RestoreLinks adds rows for its own nodes only.
LEMMA RestoreUntouched ==
    ASSUME DbInv, JobInv, OwnInv, NEW w \in Workers, NEW s \in Subs \ {on[w]},
           RestoreLinks(w), ~ Fails(w, "restore")
    PROVE  Untouched(w, s)
<1> DEFINE new == Restored(w)
           fits == \A k \in DOMAIN new : new[k].tun \in exists /\ new[k].node \in live
<1>1. /\ IF fits THEN links' = links \o new ELSE UNCHANGED links
      /\ UNCHANGED <<sub, node, live, exists, tsub, active>>
  BY DEF RestoreLinks
<1>2. NodesOf(s)' = NodesOf(s)
  BY <1>1 DEF NodesOf
<1>3. RowsOf(s)' = RowsOf(s)
  BY <1>2 DEF RowsOf
<1>4. Where(links', RowsOf(s)) = Where(links, RowsOf(s))
  <2>1. CASE ~ fits
    BY <1>1, <2>1
  <2>2. CASE fits
    <3> DEFINE Good == RowsIn(live, exists)
    <3>1. new \in Seq(Good \cap RowsOf(on[w]))
      BY <2>2, RestoredOwn
    <3>2. links \in Seq(Good) /\ links' = links \o new
      BY <1>1, <2>2 DEF DbInv
    <3>3. (Good \cap RowsOf(on[w])) \cap RowsOf(s) = {}
      BY DEF RowsOf, NodesOf
    <3> HIDE DEF Good, new
    <3>4. new \in Seq(Good)
      BY <3>1, SeqMonotonic
    <3>5. Where(new, RowsOf(s)) = <<>>
      BY <3>1, <3>3, WhereNone
    <3>6. Where(links \o new, RowsOf(s)) = Where(links, RowsOf(s)) \o Where(new, RowsOf(s))
      BY <3>2, <3>4, WhereConcat
    <3>7. Where(links, RowsOf(s)) \in Seq(Good \cap RowsOf(s))
      BY <3>2, WhereType
    <3>8. Where(links, RowsOf(s)) \o <<>> = Where(links, RowsOf(s))
      BY <3>7, ConcatEmptySeq
    <3> QED BY <3>2, <3>5, <3>6, <3>8
  <2> QED BY <2>1, <2>2
<1>5. LinksTo(s)' = LinksTo(s)
  BY <1>1, <1>3, <1>4, LinksToSame
<1> QED BY <1>1, <1>2, <1>5, ActiveIs DEF Untouched

\* Every step of a refresh leaves the other subscriptions alone.
LEMMA StepUntouched ==
    ASSUME DbInv, JobInv, OwnInv, NEW w \in Workers, NEW s \in Subs \ {on[w]}, RefreshStep(w)
    PROVE  Untouched(w, s)
<1>1. CASE UNCHANGED dbVars
  <2>1. NodesOf(s)' = NodesOf(s) /\ LinksTo(s)' = LinksTo(s)
    BY <1>1 DEF NodesOf, LinksTo, dbVars
  <2> QED BY <1>1, <2>1, ActiveIs DEF Untouched, dbVars
<1>2. CASE \E r : WriteSub(w, r) /\ pc[w] # "idle"
  <2>1. /\ UNCHANGED <<node, live, exists, tsub, active, links>>
        /\ sub'[s] = sub[s]
    BY <1>2 DEF WriteSub, DbInv
  <2>2. NodesOf(s)' = NodesOf(s) /\ LinksTo(s)' = LinksTo(s)
    BY <2>1 DEF NodesOf, LinksTo
  <2> QED BY <2>1, <2>2, ActiveIs DEF Untouched
<1>3. CASE DeleteNodes(w) /\ ~ Fails(w, "delete")
  BY <1>3, DeleteUntouched
<1>4. CASE InsertNodes(w) /\ ~ Fails(w, "insert")
  BY <1>4, InsertUntouched
<1>5. CASE RemapActive(w) /\ ~ Return(w) /\ bindA[w] # {}
  BY <1>5, RemapUntouched
<1>6. CASE RestoreLinks(w) /\ ~ Fails(w, "restore")
  BY <1>6, RestoreUntouched
<1> QED
  BY <1>1, <1>2, <1>3, <1>4, <1>5, <1>6, StepKinds

RefreshInv == DbInv /\ JobInv /\ OwnInv

\* The invariants hold throughout.
LEMMA RefreshInvAlways == Spec => []RefreshInv
<1>1. Init => RefreshInv
  BY InitDbInv, InitJobInv, InitOwnInv DEF RefreshInv
<1>2. RefreshInv /\ [Next]_vars => RefreshInv'
  BY NextInv, NextOwnInv DEF RefreshInv
<1> QED BY <1>1, <1>2, PTL DEF Spec

\* However refreshes and requests interleave, and wherever a refresh stops, it
\* leaves the nodes of other subscriptions and the references to them alone,
\* and the URI of an active node of theirs unless a request interfered.
THEOREM RefreshTouchesOwnAlways == Spec => RefreshTouchesOwn
<1> DEFINE Step == \A w \in Workers : dbVars' # dbVars /\ RefreshStep(w) =>
                      \A s \in Subs \ {on[w]} : Untouched(w, s)
<1>1. RefreshInv /\ [Next]_vars => [Step]_vars
  BY StepUntouched DEF RefreshInv
<1>2. [][Step]_vars <=> RefreshTouchesOwn
  BY DEF RefreshTouchesOwn, Untouched
<1> HIDE DEF Step
<1> QED BY <1>1, <1>2, RefreshInvAlways, PTL DEF Spec

-----------------------------------------------------------------------------
(* A refresh nobody interferes with keeps the references.                   *)

Was == [links : Seq(Binding), active : [Tunnels -> Uris \cup {NoUri}]]

\* The URI an active node had is offered again.
Offered(w, u) == IF u \in Range(body[w]) THEN u ELSE NoUri

\* The tunnels whose active node is the refresh's to keep.
Mine(w, s, t) == tsub[t] = s /\ before[w].active[t] # NoUri

\* How far an undisturbed refresh of s is with the rows of tunnel_nodes: they
\* are those it began with; it has copied them; there are none; there are those
\* whose URIs are offered.
KeepLinks(w, s) ==
    LET was == before[w].links IN
    /\ pc[w] \in {"get", "fetch", "fail", "snapA", "snapT", "delete"} => LinksTo(s) = was
    /\ pc[w] \in {"delete", "insert", "remap", "restore"} => bindT[w] = was
    /\ pc[w] \in {"insert", "remap", "restore"} => LinksTo(s) = <<>>
    /\ pc[w] \in {"remap", "restore"} => DOMAIN fresh[w] = DOMAIN body[w]
    /\ pc[w] = "update" => LinksTo(s) = Where(was, {b \in Binding : b.uri \in Range(body[w])})

\* What it has copied of active_node_id.
KeepCopies(w, s) ==
    /\ pc[w] \in {"snapT", "delete", "insert"} =>
          \A t \in Tunnels : Mine(w, s, t) => <<t, before[w].active[t]>> \in bindA[w]
    /\ pc[w] \in {"snapT", "delete", "insert", "remap"} =>
          \A b \in bindA[w] : /\ b[1] \in exists
                              /\ Mine(w, s, b[1]) => b[2] = before[w].active[b[1]]

\* And how far it is with active_node_id.
KeepActive(w, s) ==
    /\ pc[w] \in {"get", "fetch", "fail", "snapA", "snapT", "delete"} =>
          \A t \in Tunnels : tsub[t] = s => ActiveUri(s)[t] = before[w].active[t]
    /\ pc[w] = "insert" => \A t \in Tunnels : tsub[t] = s => active[t] \notin NodesOf(s)
    /\ pc[w] = "remap" =>
          \A t \in Tunnels : Mine(w, s, t) =>
             IF <<t, before[w].active[t]>> \in bindA[w]
             THEN active[t] \notin NodesOf(s)
             ELSE ActiveUri(s)[t] = Offered(w, before[w].active[t])
    /\ pc[w] \in {"restore", "update"} =>
          \A t \in Tunnels : Mine(w, s, t) => ActiveUri(s)[t] = Offered(w, before[w].active[t])

KeepInv(w, s) == KeepLinks(w, s) /\ KeepCopies(w, s) /\ KeepActive(w, s)

KeepsInv ==
    /\ before \in [Workers -> Was]
    /\ \A w \in Workers \ disturbed, s \in Subs : on[w] = s => KeepInv(w, s)

\* Initially there is nothing to keep.
LEMMA InitKeepsInv ==
    ASSUME Init
    PROVE  KeepsInv
<1>1. Nothing \in Was
  BY DEF Nothing, Was
<1>2. before \in [Workers -> Was]
  BY <1>1 DEF Init
<1>3. \A w \in Workers : pc[w] = "idle"
  BY DEF Init
<1>4. \A w \in Workers, s \in Subs : KeepInv(w, s)
  BY <1>3 DEF KeepInv, KeepLinks, KeepCopies, KeepActive
<1> QED BY <1>2, <1>4 DEF KeepsInv

\* The active nodes by URI.
LEMMA ActiveUriType ==
    ASSUME DbInv, NEW s
    PROVE  ActiveUri(s) \in [Tunnels -> Uris \cup {NoUri}]
<1>1. \A i \in NodesOf(s) : node[i].uri \in Uris
  <2>1. \A i \in DOMAIN node : node[i] \in [sub : Subs, uri : Uris]
    BY ElementIn DEF DbInv
  <2> QED BY <2>1 DEF NodesOf, DbInv
<1> QED BY <1>1 DEF ActiveUri

\* The initial record of a refresh has its type, and no step changes it.
LEMMA BeforeType ==
    ASSUME DbInv, JobInv, KeepsInv, [Next]_vars
    PROVE  before' \in [Workers -> Was]
<1>1. Nothing \in Was
  BY DEF Nothing, Was
<1>2. \A s \in Subs : [links |-> LinksTo(s), active |-> ActiveUri(s)] \in Was
  BY LinksToType, ActiveUriType DEF Was
<1>3. \/ before' = before
      \/ \E w \in Workers : before' = [before EXCEPT ![w] = Nothing]
      \/ \E w \in Workers, s \in Subs :
            before' = [before EXCEPT ![w] = [links |-> LinksTo(s), active |-> ActiveUri(s)]]
  <2>1. ASSUME NEW w \in Workers, RefreshStep(w) PROVE before' = before \/ Return(w)
    BY <2>1 DEF RefreshStep, histVars, GetSub, Fetch, RecordFailure, SnapshotActive, SnapshotLinks,
          DeleteNodes, InsertNodes, RemapActive, RestoreLinks, FinalUpdate, Fails
  <2>2. ASSUME NEW w \in Workers, Return(w) PROVE before' = [before EXCEPT ![w] = Nothing]
    BY <2>2 DEF Return
  <2>3. ASSUME NEW w \in Workers, NEW s \in Subs, Begin(w, s)
        PROVE  before' = [before EXCEPT ![w] = [links |-> LinksTo(s), active |-> ActiveUri(s)]]
    BY <2>3 DEF Begin
  <2>4. ASSUME UNCHANGED vars PROVE before' = before
    BY <2>4 DEF vars, histVars
  <2> QED
    BY <2>1, <2>2, <2>3, <2>4 DEF Next, histVars, Cancel, AssignNodes, PutTunnel, DeleteTunnel,
          DeleteSub
<1> QED BY <1>1, <1>2, <1>3 DEF KeepsInv

\* Nothing a refresh of s has to keep changes.
Frame(s) ==
    /\ UNCHANGED <<tsub, exists>>
    /\ NodesOf(s)' = NodesOf(s)
    /\ LinksTo(s)' = LinksTo(s)
    /\ \A t \in Tunnels : tsub[t] = s =>
          /\ ActiveUri(s)'[t] = ActiveUri(s)[t]
          /\ active'[t] \in NodesOf(s) <=> active[t] \in NodesOf(s)

\* The locals of a refresh stay as they are.
Locals(w) ==
    /\ on'[w] = on[w] /\ body'[w] = body[w] /\ bindA'[w] = bindA[w]
    /\ bindT'[w] = bindT[w] /\ fresh'[w] = fresh[w] /\ before'[w] = before[w]

\* Such a step of somebody else leaves a refresh where it is.
LEMMA FrameKeeps ==
    ASSUME NEW w \in Workers, NEW s \in Subs, KeepInv(w, s), Frame(s), Locals(w), pc'[w] = pc[w]
    PROVE  KeepInv(w, s)'
<1>1. \A t : Mine(w, s, t)' <=> Mine(w, s, t)
  BY DEF Frame, Locals, Mine
<1>2. \A u : Offered(w, u)' = Offered(w, u)
  BY DEF Locals, Offered
<1>3. \A t \in Tunnels : Mine(w, s, t) => tsub[t] = s
  BY DEF Mine
<1>4. KeepLinks(w, s)'
  BY DEF KeepInv, KeepLinks, Locals, Frame
<1>5. KeepCopies(w, s)'
  BY <1>1 DEF KeepInv, KeepCopies, Locals, Frame
<1>6. KeepActive(w, s)'
  BY <1>1, <1>2, <1>3 DEF KeepInv, KeepActive, Locals, Frame
<1> QED BY <1>4, <1>5, <1>6 DEF KeepInv

\* What a refresh of another subscription does is within the frame.
LEMMA StepFrame ==
    ASSUME DbInv, JobInv, OwnInv, NEW v \in Workers, NEW s \in Subs, s # on[v], RefreshStep(v)
    PROVE  Frame(s)
<1>1. Untouched(v, s)
  BY StepUntouched
<1>2. NodesOf(s)' = NodesOf(s) /\ LinksTo(s)' = LinksTo(s)
  BY <1>1 DEF Untouched
<1>3. UNCHANGED <<tsub, exists>>
  BY StepKinds DEF dbVars, WriteSub, DeleteNodes, InsertNodes, RestoreLinks, RemapActive, Fails
<1>4. 0 \notin live /\ (\A i \in NodesOf(s) : i \in live /\ i \in DOMAIN node)
  <2>1. Len(node) \in Nat /\ DOMAIN node = 1 .. Len(node)
    BY ElementIn DEF DbInv
  <2> QED BY <2>1 DEF DbInv, NodesOf
<1>5. \A i \in DOMAIN node : node'[i] = node[i]
  <2>1. [Next]_vars
    BY DEF Next
  <2> QED BY <2>1, NodeGrows
<1>6. ASSUME NEW t \in Tunnels, tsub[t] = s
      PROVE  \/ active'[t] = active[t]
             \/ active[t] \notin NodesOf(s) /\ active'[t] \notin NodesOf(s)
  <2>1. CASE UNCHANGED dbVars \/ \E r : WriteSub(v, r) /\ pc[v] # "idle"
    BY <2>1 DEF dbVars, WriteSub
  <2>2. CASE DeleteNodes(v) /\ ~ Fails(v, "delete")
    <3>1. active'[t] = active[t] \/ (active'[t] = 0 /\ active[t] \in NodesOf(on[v]))
      BY <2>2 DEF DeleteNodes
    <3>2. active[t] \in NodesOf(on[v]) => active[t] \notin NodesOf(s)
      BY DEF NodesOf
    <3> QED BY <1>4, <3>1, <3>2
  <2>3. CASE InsertNodes(v) /\ ~ Fails(v, "insert")
    BY <2>3 DEF InsertNodes
  <2>4. CASE RemapActive(v) /\ ~ Return(v) /\ bindA[v] # {}
    <3>1. PICK b \in bindA[v] :
             LET x == b[1]
                 id == NewId(v, b[2])
                 hits == id # 0 /\ x \in exists /\ tsub[x] = on[v]
             IN active' = IF hits THEN [active EXCEPT ![x] = id] ELSE active
      BY <2>4, RemapIs
    <3> QED BY <1>6, <3>1
  <2>5. CASE RestoreLinks(v) /\ ~ Fails(v, "restore")
    BY <2>5 DEF RestoreLinks
  <2> QED BY <2>1, <2>2, <2>3, <2>4, <2>5, StepKinds
<1>7. ASSUME NEW t \in Tunnels, tsub[t] = s
      PROVE  /\ ActiveUri(s)'[t] = ActiveUri(s)[t]
             /\ active'[t] \in NodesOf(s) <=> active[t] \in NodesOf(s)
  <2>1. active'[t] \in NodesOf(s) <=> active[t] \in NodesOf(s)
    BY <1>6, <1>7
  <2>2. active[t] \in NodesOf(s) => active'[t] = active[t] /\ node'[active[t]] = node[active[t]]
    BY <1>4, <1>5, <1>6, <1>7
  <2>3. /\ ActiveUri(s)'[t] = IF active'[t] \in NodesOf(s)' THEN node'[active'[t]].uri ELSE NoUri
        /\ ActiveUri(s)[t] = IF active[t] \in NodesOf(s) THEN node[active[t]].uri ELSE NoUri
    BY DEF ActiveUri
  <2> QED BY <1>2, <2>1, <2>2, <2>3
<1> QED BY <1>2, <1>3, <1>7 DEF Frame

\* A refresh changes only its own locals and the record of its own history.
LEMMA StepLocals ==
    ASSUME JobInv, KeepsInv, NEW v \in Workers, RefreshStep(v), NEW w \in Workers, w # v
    PROVE  /\ Locals(w) /\ pc'[w] = pc[w] /\ pc[v] # "idle"
           /\ w \in disturbed' <=> w \in disturbed
<1> USE DEF JobInv, KeepsInv, Locals, Goto, histVars
<1>1. ASSUME Return(v) PROVE Locals(w) /\ pc'[w] = pc[w] /\ (w \in disturbed' <=> w \in disturbed)
  BY <1>1 DEF Return
<1>2. CASE GetSub(v)
  BY <1>1, <1>2 DEF GetSub
<1>3. CASE Fetch(v)
  BY <1>1, <1>3 DEF Fetch
<1>4. CASE RecordFailure(v) \/ FinalUpdate(v)
  BY <1>1, <1>4 DEF RecordFailure, FinalUpdate
<1>5. CASE SnapshotActive(v)
  BY <1>1, <1>5 DEF SnapshotActive, Fails
<1>6. CASE SnapshotLinks(v)
  BY <1>1, <1>6 DEF SnapshotLinks, Fails
<1>7. CASE DeleteNodes(v)
  BY <1>1, <1>7 DEF DeleteNodes, Fails
<1>8. CASE InsertNodes(v)
  BY <1>1, <1>8 DEF InsertNodes, Fails
<1>9. CASE RemapActive(v)
  BY <1>1, <1>9 DEF RemapActive, Fails
<1>10. CASE RestoreLinks(v)
  BY <1>1, <1>10 DEF RestoreLinks, Fails
<1> QED
  BY <1>2, <1>3, <1>4, <1>5, <1>6, <1>7, <1>8, <1>9, <1>10 DEF RefreshStep

\* A step of another refresh does not disturb one that is undisturbed after it.
LEMMA OtherKeeps ==
    ASSUME DbInv, JobInv, OwnInv, KeepsInv, NEW v \in Workers, RefreshStep(v),
           NEW w \in Workers \ {v}, NEW s \in Subs, w \notin disturbed', on'[w] = s
    PROVE  KeepInv(w, s)'
<1>1. Locals(w) /\ pc'[w] = pc[w] /\ pc[v] # "idle" /\ w \notin disturbed
  BY StepLocals
<1>2. on[w] = s /\ KeepInv(w, s)
  BY <1>1 DEF Locals, KeepsInv
<1>3. CASE pc[w] = "idle"
  BY <1>1, <1>3 DEF KeepInv, KeepLinks, KeepCopies, KeepActive
<1>4. CASE pc[w] # "idle"
  <2>1. on[v] # s
    BY <1>1, <1>2, <1>4 DEF OwnInv, AloneInv
  <2>2. Frame(s)
    BY <2>1, StepFrame
  <2> QED BY <1>1, <1>2, <2>2, FrameKeeps
<1> QED BY <1>3, <1>4

\* Where a refresh begins.
LEMMA BeginKeeps ==
    ASSUME DbInv, JobInv, KeepsInv, NEW v \in Workers, NEW x \in Subs, Begin(v, x),
           NEW w \in Workers, NEW s \in Subs, w \notin disturbed', on'[w] = s
    PROVE  KeepInv(w, s)'
<1>1. UNCHANGED dbVars
  BY DEF Begin
<1>2. /\ NodesOf(s)' = NodesOf(s) /\ LinksTo(s)' = LinksTo(s) /\ ActiveUri(s)' = ActiveUri(s)
      /\ UNCHANGED <<tsub, exists, active>>
  BY <1>1 DEF NodesOf, LinksTo, ActiveUri, dbVars
<1>3. Frame(s)
  BY <1>2 DEF Frame
<1>4. CASE w = v
  <2>1. /\ s = x /\ pc'[w] = "get"
        /\ before'[w] = [links |-> LinksTo(s), active |-> ActiveUri(s)]
    BY <1>4 DEF Begin, Goto, JobInv, KeepsInv
  <2> QED BY <1>2, <2>1 DEF KeepInv, KeepLinks, KeepCopies, KeepActive
<1>5. CASE w # v
  <2>1. Locals(w) /\ pc'[w] = pc[w] /\ w \notin disturbed
    BY <1>5 DEF Begin, Goto, Locals, JobInv, KeepsInv
  <2>2. KeepInv(w, s)
    BY <2>1 DEF Locals, KeepsInv
  <2> QED BY <1>3, <2>1, <2>2, FrameKeeps
<1> QED BY <1>4, <1>5

\* Requests that change the tunnels disturb every refresh in progress; the other
\* events leave the references alone.
LEMMA EventKeeps ==
    ASSUME DbInv, JobInv, KeepsInv,
           UNCHANGED <<jobVars, before>> \/ \E v \in Workers : Cancel(v),
           \/ disturbed' = disturbed \cup Refreshing(Subs)
           \/ /\ disturbed \subseteq disturbed'
              /\ UNCHANGED <<node, live, exists, tsub, active, links>>,
           NEW w \in Workers, NEW s \in Subs, w \notin disturbed', on'[w] = s
    PROVE  KeepInv(w, s)'
<1>1. Locals(w) /\ pc'[w] = pc[w]
  BY DEF Locals, jobVars, Cancel, histVars
<1>2. on[w] = s /\ w \notin disturbed
  BY <1>1 DEF Locals
<1>3. KeepInv(w, s)
  BY <1>2 DEF KeepsInv
<1>4. CASE disturbed' = disturbed \cup Refreshing(Subs)
  <2>1. pc'[w] = "idle"
    BY <1>1, <1>2, <1>4 DEF Refreshing
  <2> QED BY <2>1 DEF KeepInv, KeepLinks, KeepCopies, KeepActive
<1>5. CASE UNCHANGED <<node, live, exists, tsub, active, links>>
  <2>1. /\ NodesOf(s)' = NodesOf(s) /\ LinksTo(s)' = LinksTo(s) /\ ActiveUri(s)' = ActiveUri(s)
        /\ UNCHANGED <<tsub, exists, active>>
    BY <1>5 DEF NodesOf, LinksTo, ActiveUri
  <2>2. Frame(s)
    BY <2>1 DEF Frame
  <2> QED BY <1>1, <1>3, <2>2, FrameKeeps
<1> QED BY <1>4, <1>5

\* A refresh that returns is no longer about a subscription.
LEMMA ReturnKeeps ==
    ASSUME JobInv, NEW w \in Workers, Return(w), NEW s \in Subs, on'[w] = s
    PROVE  FALSE
  BY SubsAssumption DEF Return, JobInv

\* A step of a refresh that changes nothing it has to keep, on to q.
LEMMA GoKeeps ==
    ASSUME JobInv, KeepsInv, NEW w \in Workers, NEW q, Goto(w, q), NEW s \in Subs,
           w \notin disturbed, on[w] = s,
           UNCHANGED <<node, live, exists, tsub, active, links, on, before, disturbed>>
    PROVE  /\ KeepInv(w, s) /\ pc'[w] = q /\ before'[w] = before[w]
           /\ NodesOf(s)' = NodesOf(s) /\ LinksTo(s)' = LinksTo(s) /\ ActiveUri(s)' = ActiveUri(s)
           /\ \A t : Mine(w, s, t)' <=> Mine(w, s, t)
  BY DEF KeepsInv, Goto, JobInv, NodesOf, LinksTo, ActiveUri, Mine

\* Reading the subscription and downloading the list.
LEMMA GetFetchKeeps ==
    ASSUME JobInv, KeepsInv, NEW w \in Workers, GetSub(w) \/ Fetch(w),
           NEW s \in Subs, w \notin disturbed', on'[w] = s
    PROVE  KeepInv(w, s)'
<1>1. ~ Return(w)
  BY ReturnKeeps
<1>2. PICK q \in {"fetch", "fail", "snapA"} :
        /\ Goto(w, q) /\ pc[w] \in {"get", "fetch"}
        /\ UNCHANGED <<node, live, exists, tsub, active, links, on, before, disturbed>>
  BY <1>1 DEF GetSub, Fetch, dbVars, histVars
<1>3. on[w] = s /\ w \notin disturbed
  BY <1>2
<1>4. /\ KeepInv(w, s) /\ pc'[w] = q /\ before'[w] = before[w]
      /\ LinksTo(s)' = LinksTo(s) /\ ActiveUri(s)' = ActiveUri(s)
  BY <1>2, <1>3, GoKeeps
<1>5. KeepLinks(w, s)'
  BY <1>2, <1>4 DEF KeepInv, KeepLinks
<1>6. KeepCopies(w, s)'
  BY <1>4 DEF KeepCopies
<1>7. KeepActive(w, s)'
  BY <1>2, <1>4 DEF KeepInv, KeepActive
<1> QED BY <1>5, <1>6, <1>7 DEF KeepInv

\* After the first snapshot every active node to keep is among the copies.
LEMMA SnapshotActiveKeeps ==
    ASSUME DbInv, JobInv, KeepsInv, NEW w \in Workers, SnapshotActive(w),
           NEW s \in Subs, w \notin disturbed', on'[w] = s
    PROVE  KeepInv(w, s)'
<1>1. ~ Fails(w, "snapA")
  BY ReturnKeeps DEF Fails
<1> DEFINE B == {<<t, node[active[t]].uri>> :
                    t \in {t \in exists : tsub[t] = on[w] /\ active[t] # 0}}
<1>2. /\ pc[w] = "snapA" /\ Goto(w, "snapT") /\ bindA' = [bindA EXCEPT ![w] = B]
      /\ UNCHANGED <<node, live, exists, tsub, active, links, on, before, disturbed>>
  BY <1>1 DEF SnapshotActive, dbVars, histVars
<1>3. on[w] = s /\ w \notin disturbed
  BY <1>2
<1>4. /\ KeepInv(w, s) /\ pc'[w] = "snapT" /\ before'[w] = before[w]
      /\ LinksTo(s)' = LinksTo(s) /\ ActiveUri(s)' = ActiveUri(s)
      /\ \A t : Mine(w, s, t)' <=> Mine(w, s, t)
  BY <1>2, <1>3, GoKeeps
<1>5. bindA'[w] = B
  BY <1>2 DEF JobInv
<1>6. \A t \in Tunnels : tsub[t] = s => ActiveUri(s)[t] = before[w].active[t]
  BY <1>2, <1>4 DEF KeepInv, KeepActive
<1>7. \A t \in Tunnels : Mine(w, s, t) => <<t, before[w].active[t]>> \in B
  <2> SUFFICES ASSUME NEW t \in Tunnels, Mine(w, s, t) PROVE <<t, before[w].active[t]>> \in B
    OBVIOUS
  <2>1. tsub[t] = s /\ ActiveUri(s)[t] = before[w].active[t] /\ ActiveUri(s)[t] # NoUri
    BY <1>6 DEF Mine
  <2>2. active[t] # 0 /\ ActiveUri(s)[t] = node[active[t]].uri /\ t \in exists
    BY <2>1, ActiveIs DEF DbInv
  <2> QED BY <1>3, <2>1, <2>2
<1>8. \A b \in B : b[1] \in exists /\ (Mine(w, s, b[1]) => b[2] = before[w].active[b[1]])
  <2> SUFFICES ASSUME NEW t \in exists, tsub[t] = s, active[t] # 0, Mine(w, s, t)
               PROVE  node[active[t]].uri = before[w].active[t]
    BY <1>3
  <2>1. t \in Tunnels
    BY DEF DbInv
  <2>2. ActiveUri(s)[t] = before[w].active[t] /\ ActiveUri(s)[t] # NoUri
    BY <1>6, <2>1 DEF Mine
  <2> QED BY <2>1, <2>2, ActiveIs
<1> HIDE DEF B
<1>9. KeepLinks(w, s)'
  BY <1>2, <1>4 DEF KeepInv, KeepLinks
<1>10. KeepCopies(w, s)'
  BY <1>2, <1>4, <1>5, <1>7, <1>8 DEF KeepCopies
<1>11. KeepActive(w, s)'
  BY <1>2, <1>4 DEF KeepInv, KeepActive
<1> QED BY <1>9, <1>10, <1>11 DEF KeepInv

\* After the second the rows of tunnel_nodes are too.
LEMMA SnapshotLinksKeeps ==
    ASSUME DbInv, JobInv, KeepsInv, NEW w \in Workers, SnapshotLinks(w),
           NEW s \in Subs, w \notin disturbed', on'[w] = s
    PROVE  KeepInv(w, s)'
<1>1. ~ Fails(w, "snapT")
  BY ReturnKeeps DEF Fails
<1>2. /\ pc[w] = "snapT" /\ Goto(w, "delete") /\ bindT' = [bindT EXCEPT ![w] = LinksTo(on[w])]
      /\ UNCHANGED <<node, live, exists, tsub, active, links, on, bindA, before, disturbed>>
  BY <1>1 DEF SnapshotLinks, dbVars, histVars
<1>3. on[w] = s /\ w \notin disturbed
  BY <1>2
<1>4. /\ KeepInv(w, s) /\ pc'[w] = "delete" /\ before'[w] = before[w]
      /\ LinksTo(s)' = LinksTo(s) /\ ActiveUri(s)' = ActiveUri(s)
      /\ \A t : Mine(w, s, t)' <=> Mine(w, s, t)
  BY <1>2, <1>3, GoKeeps
<1>5. bindT'[w] = LinksTo(s)
  BY <1>2, <1>3 DEF JobInv
<1>6. KeepLinks(w, s)'
  BY <1>2, <1>4, <1>5 DEF KeepInv, KeepLinks
<1>7. KeepCopies(w, s)'
  BY <1>2, <1>4 DEF KeepInv, KeepCopies
<1>8. KeepActive(w, s)'
  BY <1>2, <1>4 DEF KeepInv, KeepActive
<1> QED BY <1>6, <1>7, <1>8 DEF KeepInv

\* A function on nothing is the empty sequence.
LEMMA EmptyFunction ==
    ASSUME NEW f, DOMAIN f = {}, f = [k \in DOMAIN f |-> f[k]]
    PROVE  f = <<>>
<1>1. f \in [1 .. 0 -> {}]
  OBVIOUS
<1>2. f \in Seq({}) /\ Len(f) = 0
  BY <1>1
<1> QED BY <1>2, EmptySeq

\* DeleteNodes leaves no reference to the subscription.
LEMMA DeleteNodesKeeps ==
    ASSUME DbInv, JobInv, KeepsInv, NEW w \in Workers, DeleteNodes(w),
           NEW s \in Subs, w \notin disturbed', on'[w] = s
    PROVE  KeepInv(w, s)'
<1>1. ~ Fails(w, "delete")
  BY ReturnKeeps DEF Fails
<1>2. /\ pc[w] = "delete" /\ Goto(w, IF body[w] = <<>> THEN "update" ELSE "insert")
      /\ live' = live \ NodesOf(on[w])
      /\ UNCHANGED <<node, exists, tsub, on, body, bindA, bindT, before, disturbed>>
  BY <1>1 DEF DeleteNodes, histVars
<1>3. on[w] = s /\ w \notin disturbed
  BY <1>2
<1>4. KeepInv(w, s) /\ pc'[w] = IF body[w] = <<>> THEN "update" ELSE "insert"
  BY <1>2, <1>3 DEF KeepsInv, Goto, JobInv
<1>5. NodesOf(s)' = {}
  BY <1>2, <1>3 DEF NodesOf
<1>6. DbInv'
  BY DeleteNodesInv
<1>7. LinksTo(s)' = <<>>
  <2> DEFINE T == {l \in LinkRow : l.node \in NodesOf(s)'}
             mine == Where(links', T)
  <2>1. RowsIn(live', exists') \cap T = {} /\ links' \in Seq(RowsIn(live', exists'))
    BY <1>5, <1>6 DEF DbInv
  <2>2. mine = <<>>
    <3> HIDE DEF T
    <3> QED BY <2>1, WhereNone
  <2>3. LinksTo(s)' = [k \in DOMAIN mine |->
           [tun |-> mine[k].tun, uri |-> node'[mine[k].node].uri, pos |-> mine[k].pos]]
    BY DEF LinksTo
  <2> HIDE DEF mine
  <2>4. DOMAIN (LinksTo(s)') = {} /\ LinksTo(s)' = [k \in DOMAIN (LinksTo(s)') |-> LinksTo(s)'[k]]
    BY <2>2, <2>3
  <2> QED BY <2>4, EmptyFunction
<1>8. \A t \in Tunnels : ActiveUri(s)'[t] = NoUri
  BY <1>5 DEF ActiveUri
<1>9. \A t : Mine(w, s, t)' <=> Mine(w, s, t)
  BY <1>2 DEF Mine
<1>10. body[w] = <<>> => Range(body[w]) = {}
  BY DEF Range
<1>11. KeepLinks(w, s)'
  <2>1. bindT[w] = before[w].links
    BY <1>2, <1>4 DEF KeepInv, KeepLinks
  <2>2. body[w] = <<>> => Where(before[w].links, {b \in Binding : b.uri \in Range(body[w])}) = <<>>
    <3>1. before[w].links \in Seq(Binding)
      BY DEF KeepsInv, Was
    <3>2. Range(body[w]) = {} => Binding \cap {b \in Binding : b.uri \in Range(body[w])} = {}
      OBVIOUS
    <3> QED BY <1>10, <3>1, <3>2, WhereNone
  <2> QED BY <1>2, <1>4, <1>7, <2>1, <2>2 DEF KeepLinks
<1>12. KeepCopies(w, s)'
  BY <1>2, <1>4, <1>9 DEF KeepInv, KeepCopies
<1>13. KeepActive(w, s)'
  BY <1>2, <1>4, <1>5, <1>8, <1>10 DEF KeepActive, Offered
<1> QED BY <1>11, <1>12, <1>13 DEF KeepInv

\* InsertNodes adds nodes nothing refers to yet.
LEMMA InsertNodesKeeps ==
    ASSUME DbInv, JobInv, OwnInv, KeepsInv, NEW w \in Workers, InsertNodes(w),
           NEW s \in Subs, w \notin disturbed', on'[w] = s
    PROVE  KeepInv(w, s)'
<1>1. ~ Fails(w, "insert")
  BY ReturnKeeps DEF Fails
<1> DEFINE ids == [k \in DOMAIN body[w] |-> Len(node) + k]
<1>2. /\ pc[w] = "insert" /\ Goto(w, "remap")
      /\ Len(node) + Len(body[w]) <= MaxId
      /\ node' = node \o [k \in DOMAIN body[w] |-> [sub |-> on[w], uri |-> body[w][k]]]
      /\ live' = live \cup Range(ids)
      /\ fresh' = [fresh EXCEPT ![w] = ids]
      /\ UNCHANGED <<exists, tsub, active, links, on, body, bindA, bindT, before, disturbed>>
  BY <1>1 DEF InsertNodes, histVars
<1>3. on[w] = s /\ w \notin disturbed
  BY <1>2
<1>4. KeepInv(w, s) /\ pc'[w] = "remap" /\ DOMAIN fresh'[w] = DOMAIN body[w]
  BY <1>2, <1>3 DEF KeepsInv, Goto, JobInv
<1>5. /\ \A i \in DOMAIN node : node'[i] = node[i]
      /\ \A k \in DOMAIN body[w] : Len(node) + k \notin DOMAIN node /\ Len(node) + k # 0
  BY <1>2, Inserted
<1>6. \A i \in Range(ids) : i \notin DOMAIN node /\ i # 0
  BY <1>5 DEF Range
<1> HIDE DEF ids
<1>7. \A i \in live : i \in NodesOf(s)' <=> i \in NodesOf(s)
  BY <1>2, <1>5 DEF NodesOf, DbInv
<1>8. LinksTo(s)' = LinksTo(s)
  <2>1. \A l \in RowsIn(live, exists) : (l \in RowsOf(s)') <=> (l \in RowsOf(s))
    BY <1>7 DEF RowsIn, RowsOf
  <2>2. links \in Seq(RowsIn(live, exists)) /\ links' = links
    BY <1>2 DEF DbInv
  <2>3. Where(links, RowsOf(s)') = Where(links, RowsOf(s))
    BY <2>1, <2>2, WhereSame
  <2> QED BY <1>5, <2>2, <2>3, LinksToSame
<1>9. \A t : Mine(w, s, t)' <=> Mine(w, s, t)
  BY <1>2 DEF Mine
<1>10. \A t \in Tunnels : tsub[t] = s => active'[t] \notin NodesOf(s)'
  <2>1. \A t \in Tunnels : tsub[t] = s => active[t] \notin NodesOf(s)
    BY <1>2, <1>4 DEF KeepInv, KeepActive
  <2>2. \A t \in Tunnels : active[t] # 0 => active[t] \in live
    BY DEF DbInv
  <2>3. 0 \notin NodesOf(s)'
    <3>1. 0 \notin DOMAIN node
      <4>1. DOMAIN node = 1 .. Len(node) /\ Len(node) \in Nat
        BY ElementIn DEF DbInv
      <4> QED BY <4>1
    <3> QED BY <1>2, <1>6, <3>1 DEF NodesOf, DbInv
  <2> QED BY <1>2, <1>7, <2>1, <2>2, <2>3
<1>11. KeepLinks(w, s)'
  BY <1>2, <1>4, <1>8 DEF KeepInv, KeepLinks
<1>12. KeepCopies(w, s)'
  BY <1>2, <1>4, <1>9 DEF KeepInv, KeepCopies
<1>13. KeepActive(w, s)'
  <2>1. \A t \in Tunnels : Mine(w, s, t) => <<t, before[w].active[t]>> \in bindA[w] /\ tsub[t] = s
    BY <1>2, <1>4 DEF KeepInv, KeepCopies, Mine
  <2> QED BY <1>2, <1>4, <1>9, <1>10, <2>1 DEF KeepActive
<1> QED BY <1>11, <1>12, <1>13 DEF KeepInv

\* An inserted node is found for a URI exactly if the list offers the URI.
LEMMA NewIdOffered ==
    ASSUME JobInv, OwnInv, NEW w \in Workers, DOMAIN fresh[w] = DOMAIN body[w], NEW u
    PROVE  NewId(w, u) # 0 <=> u \in Range(body[w])
<1>1. fresh[w] \in Seq(1 .. MaxId)
  BY DEF JobInv
<1>2. \A k \in DOMAIN fresh[w] : fresh[w][k] # 0
  <2>1. \A k \in DOMAIN fresh[w] : fresh[w][k] \in 1 .. MaxId
    BY <1>1, ElementIn
  <2> QED BY <2>1, BoundsAssumption
<1>3. u \in Range(body[w]) <=> \E k \in DOMAIN body[w] : body[w][k] = u
  BY DEF Range
<1> QED BY <1>2, <1>3, NewIdIs

\* Each binding taken gives its tunnel the node of the same URI, if it is offered.
LEMMA RemapActiveKeeps ==
    ASSUME DbInv, JobInv, OwnInv, KeepsInv, NEW w \in Workers, RemapActive(w),
           NEW s \in Subs, w \notin disturbed', on'[w] = s
    PROVE  KeepInv(w, s)'
<1>1. ~ Return(w)
  BY ReturnKeeps
<1>2. CASE bindA[w] = {}
  <2>1. /\ pc[w] = "remap" /\ Goto(w, "restore")
        /\ UNCHANGED <<node, live, exists, tsub, active, links, on, body, bindA, bindT, fresh,
                       before, disturbed>>
    BY <1>1, <1>2 DEF RemapActive, dbVars, histVars
  <2>2. on[w] = s /\ w \notin disturbed
    BY <2>1
  <2>3. /\ KeepInv(w, s) /\ pc'[w] = "restore" /\ before'[w] = before[w]
        /\ LinksTo(s)' = LinksTo(s) /\ ActiveUri(s)' = ActiveUri(s)
        /\ \A t : Mine(w, s, t)' <=> Mine(w, s, t)
    BY <2>1, <2>2, GoKeeps
  <2>4. KeepLinks(w, s)'
    BY <2>1, <2>3 DEF KeepInv, KeepLinks
  <2>5. KeepCopies(w, s)'
    BY <2>3 DEF KeepCopies
  <2>6. KeepActive(w, s)'
    <3>1. \A u : Offered(w, u)' = Offered(w, u)
      BY <2>1 DEF Offered
    <3>2. \A t \in Tunnels : Mine(w, s, t) => ActiveUri(s)[t] = Offered(w, before[w].active[t])
      BY <1>2, <2>1, <2>3 DEF KeepInv, KeepActive
    <3> QED BY <2>3, <3>1, <3>2 DEF KeepActive
  <2> QED BY <2>4, <2>5, <2>6 DEF KeepInv
<1>3. CASE bindA[w] # {}
  <2>1. PICK b \in bindA[w] :
           LET t == b[1]
               id == NewId(w, b[2])
               hits == id # 0 /\ t \in exists /\ tsub[t] = on[w]
           IN /\ t \in Tunnels
              /\ hits => id \in live
              /\ active' = IF hits THEN [active EXCEPT ![t] = id] ELSE active
              /\ bindA' = [bindA EXCEPT ![w] = @ \ {b}]
              /\ UNCHANGED <<pc, on, row, body, bindT, fresh, cancelled, disturbed, before>>
              /\ UNCHANGED <<sub, node, live, exists, tsub, links>>
              /\ pc[w] = "remap"
    BY <1>1, <1>3, RemapIs
  <2> DEFINE t0 == b[1]
             id == NewId(w, b[2])
  <2>2. on[w] = s /\ w \notin disturbed
    BY <2>1
  <2>3. KeepInv(w, s) /\ bindA'[w] = bindA[w] \ {b}
    BY <2>1, <2>2 DEF KeepsInv, JobInv
  <2>4. NodesOf(s)' = NodesOf(s) /\ LinksTo(s)' = LinksTo(s)
    BY <2>1 DEF NodesOf, LinksTo
  <2>5. (\A t : Mine(w, s, t)' <=> Mine(w, s, t)) /\ (\A u : Offered(w, u)' = Offered(w, u))
    BY <2>1 DEF Mine, Offered
  <2>6. KeepLinks(w, s)'
    BY <2>1, <2>3, <2>4 DEF KeepInv, KeepLinks
  <2>7. KeepCopies(w, s)'
    BY <2>1, <2>3, <2>5 DEF KeepInv, KeepCopies
  <2>8. /\ t0 \in exists /\ tsub[t0] = s
        /\ Mine(w, s, t0) => b[2] = before[w].active[t0] /\ b = <<t0, before[w].active[t0]>>
    <3>1. b \in Tunnels \X Uris
      BY DEF JobInv
    <3>2. t0 \in exists /\ (Mine(w, s, t0) => b[2] = before[w].active[t0])
      BY <2>1, <2>3 DEF KeepInv, KeepCopies
    <3>3. tsub[t0] = s
      BY <2>2 DEF OwnInv, BoundInv
    <3> QED BY <3>1, <3>2, <3>3
  <2>9. id # 0 <=> b[2] \in Range(body[w])
    <3>1. DOMAIN fresh[w] = DOMAIN body[w]
      BY <2>1, <2>3 DEF KeepInv, KeepLinks
    <3> QED BY <3>1, NewIdOffered
  <2>10. id # 0 => id \in NodesOf(s) /\ node[id].uri = b[2]
    <3>1. id # 0 => node[id].sub = s /\ node[id].uri = b[2]
      BY <2>2, NewIdOwn
    <3>2. id # 0 => id \in live
      BY <2>1, <2>2, <2>8
    <3> HIDE DEF id
    <3> QED BY <3>1, <3>2 DEF NodesOf
  <2>11. active' = IF id # 0 THEN [active EXCEPT ![t0] = id] ELSE active
    BY <2>1, <2>2, <2>8
  <2> HIDE DEF id
  <2>12. ASSUME NEW t \in Tunnels, Mine(w, s, t)
         PROVE  IF <<t, before[w].active[t]>> \in bindA'[w]
                THEN active'[t] \notin NodesOf(s)
                ELSE ActiveUri(s)'[t] = Offered(w, before[w].active[t])
    <3>1. IF <<t, before[w].active[t]>> \in bindA[w]
          THEN active[t] \notin NodesOf(s)
          ELSE ActiveUri(s)[t] = Offered(w, before[w].active[t])
      BY <2>1, <2>3, <2>12 DEF KeepInv, KeepActive
    <3>2. ActiveUri(s)'[t] = IF active'[t] \in NodesOf(s) THEN node[active'[t]].uri ELSE NoUri
      BY <2>1, <2>4 DEF ActiveUri
    <3>3. CASE t = t0
      <4>1. b = <<t, before[w].active[t]>> /\ b[2] = before[w].active[t] /\ b \notin bindA'[w]
        BY <2>3, <2>8, <2>12, <3>3
      <4>2. active[t] \notin NodesOf(s)
        BY <3>1, <4>1
      <4>3. CASE id # 0
        <5>1. active'[t] = id
          BY <2>11, <3>3, <4>3 DEF DbInv
        <5>2. ActiveUri(s)'[t] = b[2] /\ Offered(w, b[2]) = b[2]
          BY <2>9, <2>10, <3>2, <4>3, <5>1 DEF Offered
        <5> QED BY <4>1, <5>2
      <4>4. CASE id = 0
        <5>1. ActiveUri(s)'[t] = NoUri /\ Offered(w, b[2]) = NoUri
          BY <2>9, <2>11, <3>2, <4>2, <4>4 DEF Offered
        <5> QED BY <4>1, <5>1
      <4> QED BY <4>3, <4>4
    <3>4. CASE t # t0
      <4>1. active'[t] = active[t]
        BY <2>11, <3>4 DEF DbInv
      <4>2. <<t, before[w].active[t]>> # b
        BY <3>4
      <4>3. ActiveUri(s)'[t] = ActiveUri(s)[t]
        BY <3>2, <4>1 DEF ActiveUri
      <4> QED BY <2>3, <3>1, <4>1, <4>2, <4>3
    <3> QED BY <3>3, <3>4
  <2>13. KeepActive(w, s)'
    BY <2>1, <2>4, <2>5, <2>12 DEF KeepActive
  <2> QED BY <2>6, <2>7, <2>13 DEF KeepInv
<1> QED BY <1>2, <1>3

\* A restriction that every element meets changes nothing.
LEMMA WhereAll ==
    ASSUME NEW S, NEW T, NEW s \in Seq(S), S \subseteq T
    PROVE  Where(s, T) = s
<1> DEFINE P == {q \in Seq(S) : Where(q, T) = q}
<1>1. <<>> \in P
  BY WhereEmpty
<1>2. \A q \in Seq(S), e \in S : q \in P => Append(q, e) \in P
  <2> TAKE q \in Seq(S), e \in S
  <2> HAVE q \in P
  <2>1. Where(Append(q, e), T) = IF e \in T THEN Append(Where(q, T), e) ELSE Where(q, T)
    BY WhereAppend
  <2>2. Append(q, e) \in Seq(S) /\ e \in T /\ Where(q, T) = q
    OBVIOUS
  <2> QED BY <2>1, <2>2
<1> HIDE DEF P
<1>3. \A q \in Seq(S) : q \in P
  BY <1>1, <1>2, SeqInduction
<1> QED BY <1>3 DEF P

\* The rows a refresh restores stand for those of its copies whose URIs are
\* offered, in their order.
LEMMA RestoredIs ==
    ASSUME DbInv, JobInv, OwnInv, NEW w \in Workers, DOMAIN fresh[w] = DOMAIN body[w]
    PROVE  LET new == Restored(w)
               kept == Where(bindT[w], {b \in Binding : b.uri \in Range(body[w])})
           IN /\ DOMAIN new = DOMAIN kept
              /\ kept = [k \in DOMAIN new |->
                           [tun |-> new[k].tun, uri |-> node[new[k].node].uri, pos |-> new[k].pos]]
<1> DEFINE T == {b \in Binding : NewId(w, b.uri) # 0}
           U == {b \in Binding : b.uri \in Range(body[w])}
           new == Restored(w)
           kept == Where(bindT[w], T)
<1>1. bindT[w] \in Seq(Binding)
  BY DEF JobInv
<1>2. kept = Where(bindT[w], U)
  <2>1. \A b \in Binding : (b \in T) <=> (b \in U)
    BY NewIdOffered
  <2> HIDE DEF T, U
  <2> QED BY <1>1, <2>1, WhereSame
<1>3. kept \in Seq(Binding \cap T)
  BY <1>1, WhereType
<1>4. new = [k \in DOMAIN kept |->
         [tun |-> kept[k].tun, node |-> NewId(w, kept[k].uri), pos |-> kept[k].pos]]
  BY DEF Restored
<1> HIDE DEF new, kept
<1>5. DOMAIN new = DOMAIN kept
  BY <1>4
<1>6. \A k \in DOMAIN kept :
        kept[k] = [tun |-> new[k].tun, uri |-> node[new[k].node].uri, pos |-> new[k].pos]
  <2> TAKE k \in DOMAIN kept
  <2>1. kept[k] \in Binding /\ NewId(w, kept[k].uri) # 0
    BY <1>3, ElementIn
  <2>2. node[NewId(w, kept[k].uri)].uri = kept[k].uri
    BY <2>1, NewIdOwn
  <2>3. /\ new[k].tun = kept[k].tun /\ new[k].pos = kept[k].pos
        /\ new[k].node = NewId(w, kept[k].uri)
    BY <1>4
  <2> QED BY <2>1, <2>2, <2>3 DEF Binding
<1>7. kept = [k \in DOMAIN kept |-> kept[k]]
  BY <1>3
<1>8. kept = [k \in DOMAIN new |->
         [tun |-> new[k].tun, uri |-> node[new[k].node].uri, pos |-> new[k].pos]]
  BY <1>5, <1>6, <1>7
<1> QED BY <1>2, <1>5, <1>8 DEF new

\* RestoreLinks puts back the rows of tunnel_nodes.
LEMMA RestoreLinksKeeps ==
    ASSUME DbInv, JobInv, OwnInv, KeepsInv, NEW w \in Workers, RestoreLinks(w),
           NEW s \in Subs, w \notin disturbed', on'[w] = s
    PROVE  KeepInv(w, s)'
<1> DEFINE new == Restored(w)
           U == {b \in Binding : b.uri \in Range(body[w])}
<1>1. ~ Return(w)
  BY ReturnKeeps
<1>2. /\ pc[w] = "restore" /\ Goto(w, "update")
      /\ \A k \in DOMAIN new : new[k].tun \in exists /\ new[k].node \in live
      /\ links' = links \o new
      /\ UNCHANGED <<node, live, exists, tsub, active, on, body, before, disturbed>>
  BY <1>1 DEF RestoreLinks, Fails, histVars
<1>3. on[w] = s /\ w \notin disturbed
  BY <1>2
<1>4. KeepInv(w, s) /\ pc'[w] = "update"
  BY <1>2, <1>3 DEF KeepsInv, Goto, JobInv
<1>5. /\ LinksTo(s) = <<>> /\ bindT[w] = before[w].links
      /\ DOMAIN fresh[w] = DOMAIN body[w]
  BY <1>2, <1>4 DEF KeepInv, KeepLinks
<1>6. Where(links, RowsOf(s)) = <<>>
  <2> DEFINE mine == Where(links, RowsOf(s))
  <2>1. mine \in Seq(RowsIn(live, exists) \cap RowsOf(s))
    BY WhereType DEF DbInv
  <2>2. DOMAIN LinksTo(s) = DOMAIN mine
    BY DEF LinksTo, RowsOf
  <2> HIDE DEF mine
  <2>3. DOMAIN mine = {}
    BY <1>5, <2>2
  <2>4. mine = [k \in DOMAIN mine |-> mine[k]]
    BY <2>1
  <2>5. mine = <<>>
    BY <2>3, <2>4, EmptyFunction
  <2> QED BY <2>5 DEF mine
<1>7. new \in Seq(RowsIn(live, exists) \cap RowsOf(s))
  BY <1>2, <1>3, RestoredOwn
<1>8. RowsOf(s)' = RowsOf(s)
  BY <1>2 DEF RowsOf, NodesOf
<1> HIDE DEF new
<1>9. Where(links', RowsOf(s)) = new
  <2>1. Where(new, RowsOf(s)) = new
    BY <1>7, WhereAll
  <2>2. new \in Seq(RowsIn(live, exists))
    BY <1>7
  <2>3. links \in Seq(RowsIn(live, exists))
    BY DEF DbInv
  <2>4. Where(links \o new, RowsOf(s)) = Where(links, RowsOf(s)) \o Where(new, RowsOf(s))
    BY <2>2, <2>3, WhereConcat
  <2>5. <<>> \o new = new
    BY <1>7
  <2> QED BY <1>2, <1>6, <2>1, <2>4, <2>5
<1>10. LinksTo(s)' = Where(before[w].links, U)
  <2>1. LinksTo(s)' = [k \in DOMAIN new |->
           [tun |-> new[k].tun, uri |-> node[new[k].node].uri, pos |-> new[k].pos]]
    <3>1. Where(links, RowsOf(s))' = new
      BY <1>8, <1>9
    <3>2. LinksTo(s)' = [k \in DOMAIN Where(links, RowsOf(s))' |->
             [tun |-> Where(links, RowsOf(s))'[k].tun,
              uri |-> node'[Where(links, RowsOf(s))'[k].node].uri,
              pos |-> Where(links, RowsOf(s))'[k].pos]]
      BY DEF LinksTo, RowsOf
    <3> QED BY <1>2, <3>1, <3>2
  <2> QED BY <1>5, <2>1, RestoredIs DEF new
<1> HIDE DEF U
<1>11. /\ ActiveUri(s)' = ActiveUri(s)
       /\ \A t : Mine(w, s, t)' <=> Mine(w, s, t)
       /\ \A u : Offered(w, u)' = Offered(w, u)
  BY <1>2 DEF ActiveUri, NodesOf, Mine, Offered
<1>12. KeepLinks(w, s)'
  BY <1>2, <1>4, <1>10 DEF KeepLinks, U
<1>13. KeepCopies(w, s)'
  BY <1>4 DEF KeepCopies
<1>14. KeepActive(w, s)'
  BY <1>2, <1>4, <1>11 DEF KeepInv, KeepActive
<1> QED BY <1>12, <1>13, <1>14 DEF KeepInv

\* Every step keeps KeepsInv.
LEMMA NextKeepsInv ==
    ASSUME DbInv, JobInv, OwnInv, KeepsInv, [Next]_vars
    PROVE  KeepsInv'
<1>1. ASSUME NEW w \in Workers, NEW s \in Subs, w \notin disturbed', on'[w] = s
      PROVE  KeepInv(w, s)'
  <2>1. CASE \E v \in Workers, x \in Subs : Begin(v, x)
    BY <1>1, <2>1, BeginKeeps
  <2>2. CASE RefreshStep(w)
    <3>1. ~ Return(w)
      BY <1>1, ReturnKeeps
    <3>2. ~ RecordFailure(w) /\ ~ FinalUpdate(w)
      BY <3>1 DEF RecordFailure, FinalUpdate
    <3> QED BY <1>1, <2>2, <3>2, GetFetchKeeps, SnapshotActiveKeeps, SnapshotLinksKeeps,
               DeleteNodesKeeps, InsertNodesKeeps, RemapActiveKeeps, RestoreLinksKeeps
            DEF RefreshStep
  <2>3. CASE \E v \in Workers \ {w} : RefreshStep(v)
    BY <1>1, <2>3, OtherKeeps
  <2>4. CASE \E v \in Workers : Cancel(v)
    <3>1. disturbed \subseteq disturbed' /\ UNCHANGED <<node, live, exists, tsub, active, links>>
      BY <2>4 DEF Cancel, dbVars, histVars
    <3> QED BY <1>1, <2>4, <3>1, EventKeeps
  <2>5. CASE \/ \E t \in Tunnels, list \in Lists : AssignNodes(t, list)
             \/ \E t \in Tunnels, x \in Subs \cup {NoSub}, n \in 0 .. MaxId : PutTunnel(t, x, n)
             \/ \E t \in Tunnels : DeleteTunnel(t)
    <3>1. UNCHANGED <<jobVars, before>> /\ disturbed' = disturbed \cup Refreshing(Subs)
      BY <2>5 DEF AssignNodes, PutTunnel, DeleteTunnel
    <3> QED BY <1>1, <3>1, EventKeeps
  <2>6. CASE (\E x \in Subs : DeleteSub(x)) \/ UNCHANGED vars
    <3>1. /\ UNCHANGED <<jobVars, before>> /\ disturbed \subseteq disturbed'
          /\ UNCHANGED <<node, live, exists, tsub, active, links>>
      BY <2>6 DEF DeleteSub, vars, dbVars, histVars
    <3> QED BY <1>1, <3>1, EventKeeps
  <2> QED BY <2>1, <2>2, <2>3, <2>4, <2>5, <2>6 DEF Next
<1>2. before' \in [Workers -> Was]
  BY BeforeType
<1> QED BY <1>1, <1>2 DEF KeepsInv

\* KeepsInv holds throughout.
LEMMA KeepsInvAlways == Spec => []KeepsInv
<1>1. Init => KeepsInv
  BY InitKeepsInv
<1>2. RefreshInv /\ KeepsInv /\ [Next]_vars => KeepsInv'
  BY NextKeepsInv DEF RefreshInv
<1> QED BY <1>1, <1>2, RefreshInvAlways, PTL DEF Spec

\* A worker that does not refresh has no subscription.
IdleRests == \A w \in Workers : pc[w] = "idle" => on[w] = NoSub

\* Every step keeps that: a refresh takes its subscription when it begins and
\* drops it when it returns.
LEMMA NextIdleRests ==
    ASSUME JobInv, IdleRests, [Next]_vars
    PROVE  IdleRests'
<1> DEFINE Moves(w) == \E q \in Steps \ {"idle"} : pc' = [pc EXCEPT ![w] = q]
           Ends(w)  == pc' = [pc EXCEPT ![w] = "idle"] /\ on' = [on EXCEPT ![w] = NoSub]
<1>1. ASSUME NEW w \in Workers, Moves(w), \A v \in Workers \ {w} : on'[v] = on[v]
      PROVE  IdleRests'
  BY <1>1 DEF JobInv, IdleRests
<1>2. ASSUME NEW w \in Workers, Ends(w)
      PROVE  IdleRests'
  BY <1>2 DEF JobInv, IdleRests
<1>3. ASSUME UNCHANGED <<pc, on>> PROVE IdleRests'
  BY <1>3 DEF IdleRests
<1>4. \A w : Return(w) => Ends(w)
  BY DEF Return, Goto
<1>5. ASSUME NEW w \in Workers, NEW s \in Subs, Begin(w, s) PROVE IdleRests'
  <2>1. Moves(w)
    BY <1>5 DEF Begin, Goto, Steps
  <2>2. \A v \in Workers \ {w} : on'[v] = on[v]
    BY <1>5 DEF Begin, JobInv
  <2> QED BY <1>1, <2>1, <2>2
<1>6. ASSUME NEW w \in Workers, RefreshStep(w) PROVE IdleRests'
  <2>1. \/ Return(w) \/ UNCHANGED <<pc, on>>
        \/ on' = on /\ \E q \in Steps \ {"idle"} : Goto(w, q)
    <3>1. CASE GetSub(w) \/ Fetch(w) \/ RecordFailure(w)
      BY <3>1 DEF GetSub, Fetch, RecordFailure, Steps
    <3>2. CASE SnapshotActive(w) \/ SnapshotLinks(w) \/ InsertNodes(w)
      BY <3>2 DEF SnapshotActive, SnapshotLinks, InsertNodes, Fails, Steps
    <3>3. CASE DeleteNodes(w)
      <4>1. "update" \in Steps \ {"idle"} /\ "insert" \in Steps \ {"idle"}
        BY DEF Steps
      <4> QED BY <3>3, <4>1 DEF DeleteNodes, Fails
    <3>4. CASE RemapActive(w)
      BY <3>4 DEF RemapActive, Fails, Steps
    <3>5. CASE RestoreLinks(w) \/ FinalUpdate(w)
      BY <3>5 DEF RestoreLinks, FinalUpdate, Fails, Steps
    <3> QED BY <1>6, <3>1, <3>2, <3>3, <3>4, <3>5 DEF RefreshStep
  <2> QED BY <1>1, <1>2, <1>3, <1>4, <2>1 DEF Goto
<1>7. CASE UNCHANGED vars \/ (\E w \in Workers : Cancel(w)) \/ UNCHANGED jobVars
  BY <1>3, <1>7 DEF vars, jobVars, Cancel
<1>8. CASE \/ \E t \in Tunnels, list \in Lists : AssignNodes(t, list)
           \/ \E t \in Tunnels, s \in Subs \cup {NoSub}, n \in 0 .. MaxId : PutTunnel(t, s, n)
           \/ \E t \in Tunnels : DeleteTunnel(t)
           \/ \E s \in Subs : DeleteSub(s)
  <2>1. UNCHANGED jobVars
    BY <1>8 DEF AssignNodes, PutTunnel, DeleteTunnel, DeleteSub
  <2> QED BY <1>7, <2>1
<1> QED BY <1>5, <1>6, <1>7, <1>8 DEF Next

\* IdleRests holds throughout.
LEMMA IdleRestsAlways == Spec => []IdleRests
<1>1. Init => IdleRests
  BY DEF Init, IdleRests
<1>2. RefreshInv /\ IdleRests /\ [Next]_vars => IdleRests'
  BY NextIdleRests DEF RefreshInv
<1> QED BY <1>1, <1>2, RefreshInvAlways, PTL DEF Spec

\* What the property says of a state: which references a reader finds.
Readable(w, s) ==
    LET was  == before[w].links
        stay == Where(was, {b \in Binding : b.uri \in Range(body[w])})
    IN  /\ LinksTo(s) \in {was, <<>>, stay}
        /\ \A t \in Tunnels : Mine(w, s, t) => ActiveUri(s)[t] \in {before[w].active[t], NoUri}

\* Each transaction of an undisturbed refresh leaves references one may read.
LEMMA KeepsReadable ==
    ASSUME JobInv, IdleRests, KeepsInv, NEW w \in Workers \ disturbed, NEW s \in Subs, on[w] = s
    PROVE  Readable(w, s)
<1>1. KeepInv(w, s)
  BY DEF KeepsInv
<1>2. pc[w] \in Steps /\ pc[w] # "idle"
  BY SubsAssumption DEF JobInv, IdleRests
<1>3. LinksTo(s) \in {before[w].links, <<>>,
                      Where(before[w].links, {b \in Binding : b.uri \in Range(body[w])})}
  BY <1>1, <1>2 DEF KeepInv, KeepLinks, Steps
<1>4. ASSUME NEW t \in Tunnels, Mine(w, s, t)
      PROVE  ActiveUri(s)[t] \in {before[w].active[t], NoUri}
  <2>1. CASE pc[w] \in {"get", "fetch", "fail", "snapA", "snapT", "delete"}
    BY <1>1, <1>4, <2>1 DEF KeepInv, KeepActive, Mine
  <2>2. active[t] \notin NodesOf(s) => ActiveUri(s)[t] = NoUri
    BY DEF ActiveUri
  <2>3. CASE pc[w] = "insert"
    BY <1>1, <1>4, <2>2, <2>3 DEF KeepInv, KeepActive, Mine
  <2>4. CASE pc[w] \in {"remap", "restore", "update"}
    BY <1>1, <1>4, <2>2, <2>4 DEF KeepInv, KeepActive, Offered
  <2> QED BY <1>2, <2>1, <2>3, <2>4 DEF Steps
<1> QED BY <1>3, <1>4 DEF Readable

\* A refresh nobody interferes with leaves every tunnel with the nodes it had,
\* in the same order and at the same positions, except those no longer offered,
\* and so too the active node of a tunnel bound to the subscription
\* (FetchAndUpdate, from its first read to its final update).  Between its
\* transactions the tunnel_nodes rows of its nodes are those there were, none, or
\* those that stay.
THEOREM RefreshKeepsBindingsAlways == Spec => RefreshKeepsBindings
<1> DEFINE Step == \A w \in Workers, s \in Subs : on[w] = s /\ w \notin disturbed =>
         LET was  == before[w].links
             stay == Where(was, {b \in Binding : b.uri \in Range(body[w])})
             kept(u) == IF u \in Range(body[w]) THEN u ELSE NoUri
             mine == {t \in Tunnels : tsub[t] = s /\ before[w].active[t] # NoUri}
         IN
         /\ LinksTo(s) \in {was, <<>>, stay}
         /\ \A t \in mine : ActiveUri(s)[t] \in {before[w].active[t], NoUri}
         /\ FinalUpdate(w) =>
               /\ LinksTo(s)' = stay
               /\ \A t \in mine : ActiveUri(s)'[t] = kept(before[w].active[t])
<1>1. ASSUME RefreshInv, IdleRests, KeepsInv PROVE Step
  <2>1. ASSUME NEW w \in Workers, NEW s \in Subs, on[w] = s, w \notin disturbed
        PROVE  Readable(w, s)
    BY <1>1, <2>1, KeepsReadable DEF RefreshInv
  <2>2. ASSUME NEW w \in Workers, NEW s \in Subs, on[w] = s, w \notin disturbed, FinalUpdate(w)
        PROVE  /\ LinksTo(s)' = Where(before[w].links, {b \in Binding : b.uri \in Range(body[w])})
               /\ \A t \in Tunnels :
                     Mine(w, s, t) => ActiveUri(s)'[t] = Offered(w, before[w].active[t])
    <3>1. KeepInv(w, s) /\ pc[w] = "update"
      BY <1>1, <2>2 DEF KeepsInv, FinalUpdate
    <3>2. LinksTo(s)' = LinksTo(s) /\ ActiveUri(s)' = ActiveUri(s)
      BY <2>2 DEF FinalUpdate, WriteSub, LinksTo, ActiveUri, NodesOf
    <3> QED BY <3>1, <3>2 DEF KeepInv, KeepLinks, KeepActive
  <2> QED BY <2>1, <2>2 DEF Readable, Mine, Offered
<1>2. RefreshInv /\ IdleRests /\ KeepsInv /\ [Next]_vars => [Step]_vars
  BY <1>1
<1>3. [][Step]_vars <=> RefreshKeepsBindings
  BY DEF RefreshKeepsBindings
<1> HIDE DEF Step
<1> QED BY <1>2, <1>3, RefreshInvAlways, IdleRestsAlways, KeepsInvAlways, PTL DEF Spec
=============================================================================
