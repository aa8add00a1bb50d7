----------------------------- MODULE FundsProofs -----------------------------
(***************************************************************************)
(* Machine-checked proofs about the money, as long as one account pays:    *)
(* payees get what the file says, an operator's preview is kept, and a     *)
(* transfer that was alone when it was recorded never reverts, for any     *)
(* amounts, prices, deposits and allowances.                               *)
(*                                                                         *)
(* Sums come first: what SumFunctionOnSet is, by induction over subsets.   *)
(***************************************************************************)
EXTENDS PipelineSafety, Funds, Induction

USE DEF TxPending, TxDropped, TxFailed, TxConfirmed

------------------------------------------------------------------------------
(* Sums *)

(* h sums f over the subsets of D. *)
Sums(f, D, h) ==
    h = [s \in SUBSET D |-> IF s = {} THEN 0
                            ELSE f[CHOOSE x \in s : TRUE] + h[s \ {CHOOSE x \in s : TRUE}]]

SumsOf(f, S) == CHOOSE h : Sums(f, S, h)

LEMMA SumIsOfSums == ASSUME NEW f, NEW S PROVE SumFunctionOnSet(f, S) = SumsOf(f, S)[S]
BY DEF SumsOf, SumFunctionOnSet, FoldFunctionOnSet, MapThenFoldSet, Sums

Pick(s) == CHOOSE x \in s : TRUE

LEMMA SumsAgree ==
    ASSUME NEW f, NEW D, NEW E \in SUBSET D, IsFiniteSet(E),
           NEW h, Sums(f, D, h), NEW k, Sums(f, E, k)
    PROVE  \A s \in SUBSET E : h[s] = k[s]
<1> DEFINE Good == {s \in SUBSET E : h[s] = k[s]}
<1>1. ASSUME NEW s \in SUBSET E, \A t \in SUBSET s : t # s => t \in Good
      PROVE  s \in Good
  <2>1. CASE s = {}
    BY <2>1 DEF Sums
  <2>2. CASE s # {}
    <3>1. Pick(s) \in s
      BY <2>2 DEF Pick
    <3>2. s \ {Pick(s)} \in Good
      BY <1>1, <3>1
    <3>3. h[s] = f[Pick(s)] + h[s \ {Pick(s)}] /\ k[s] = f[Pick(s)] + k[s \ {Pick(s)}]
      BY <2>2 DEF Sums, Pick
    <3>4. QED
      BY <3>2, <3>3
  <2>3. QED
    BY <2>1, <2>2
<1> HIDE DEF Good
<1>2. SUBSET E \subseteq Good
  BY <1>1, SubsetInduction
<1>3. QED
  BY <1>2 DEF Good

LEMMA SumsExist ==
    ASSUME NEW f, NEW S, IsFiniteSet(S)
    PROVE  \A D \in SUBSET S : \E h : Sums(f, D, h)
<1> DEFINE Good == {D \in SUBSET S : \E h : Sums(f, D, h)}
<1>1. ASSUME NEW D \in SUBSET S, \A E \in SUBSET D : E # D => E \in Good
      PROVE  D \in Good
  <2> DEFINE value(E) == IF E = {} THEN 0
                         ELSE f[Pick(E)] + SumsOf(f, E \ {Pick(E)})[E \ {Pick(E)}]
             k == [E \in SUBSET D |-> value(E)]
  <2>1. \A E \in SUBSET D : E # D => Sums(f, E, SumsOf(f, E))
    BY <1>1 DEF SumsOf
  <2>2. ASSUME NEW E \in SUBSET D, E # {}
        PROVE  k[E] = f[Pick(E)] + k[E \ {Pick(E)}]
    <3> DEFINE R == E \ {Pick(E)}
    <3>1. Pick(E) \in E
      BY <2>2 DEF Pick
    <3>2. R \in SUBSET D /\ R # D /\ Sums(f, R, SumsOf(f, R))
      BY <2>1, <3>1
    <3>3. k[E] = f[Pick(E)] + SumsOf(f, R)[R]
      BY <2>2
    <3>4. CASE R = {}
      <4>1. SumsOf(f, R)[R] = 0
        BY <3>2, <3>4 DEF Sums
      <4>2. k[R] = 0
        BY <3>2, <3>4
      <4>3. QED
        BY <3>3, <4>1, <4>2
    <3>5. CASE R # {}
      <4> DEFINE Q == R \ {Pick(R)}
      <4>1. Pick(R) \in R /\ Q \in SUBSET R
        BY <3>5 DEF Pick
      <4>2. Q \in SUBSET D /\ Q # D /\ Sums(f, Q, SumsOf(f, Q))
        BY <2>1, <3>2, <4>1
      <4>3. SumsOf(f, R)[R] = f[Pick(R)] + SumsOf(f, R)[Q]
        BY <3>2, <3>5 DEF Sums, Pick
      <4>4. IsFiniteSet(Q)
        BY <4>2, FS_Subset
      <4>5. SumsOf(f, R)[Q] = SumsOf(f, Q)[Q]
        <5> HIDE DEF Q, R
        <5>1. QED
          BY <3>2, <4>1, <4>2, <4>4, SumsAgree
      <4>6. k[R] = f[Pick(R)] + SumsOf(f, Q)[Q]
        BY <3>2, <3>5
      <4>7. QED
        BY <3>3, <4>3, <4>5, <4>6
    <3>6. QED
      BY <3>4, <3>5
  <2>3. {} \in SUBSET D => k[{}] = 0
    OBVIOUS
  <2>4. k = [E \in SUBSET D |-> IF E = {} THEN 0 ELSE f[Pick(E)] + k[E \ {Pick(E)}]]
    <3>1. \A E \in SUBSET D : k[E] = IF E = {} THEN 0 ELSE f[Pick(E)] + k[E \ {Pick(E)}]
      BY <2>2, <2>3, Zenon
    <3>2. k = [E \in SUBSET D |-> k[E]]
      OBVIOUS
    <3> HIDE DEF k
    <3>3. QED
      BY <3>1, <3>2
  <2>5. Sums(f, D, k)
    BY <2>4 DEF Sums, Pick
  <2>6. QED
    BY <2>5
<1> HIDE DEF Good
<1>2. SUBSET S \subseteq Good
  BY <1>1, SubsetInduction
<1>3. QED
  BY <1>2 DEF Good

LEMMA SumStep ==
    ASSUME NEW f, NEW S, IsFiniteSet(S)
    PROVE  SumFunctionOnSet(f, S) =
             IF S = {} THEN 0 ELSE f[Pick(S)] + SumFunctionOnSet(f, S \ {Pick(S)})
<1> DEFINE R == S \ {Pick(S)}
<1>1. Sums(f, S, SumsOf(f, S)) /\ Sums(f, R, SumsOf(f, R))
  BY SumsExist DEF SumsOf
<1>2. SumFunctionOnSet(f, S) = SumsOf(f, S)[S] /\ SumFunctionOnSet(f, R) = SumsOf(f, R)[R]
  BY SumIsOfSums
<1>3. IsFiniteSet(R)
  BY FS_Subset
<1>4. SumsOf(f, S)[R] = SumsOf(f, R)[R]
  <2> HIDE DEF R
  <2>1. R \in SUBSET R /\ R \in SUBSET S
    BY DEF R
  <2>2. QED
    BY <1>1, <1>3, <2>1, SumsAgree
<1>5. SumsOf(f, S)[S] = IF S = {} THEN 0 ELSE f[Pick(S)] + SumsOf(f, S)[R]
  BY <1>1 DEF Sums, Pick
<1>6. QED
  BY <1>2, <1>4, <1>5

(* A sum of naturals is a natural, whatever is summed first. *)
LEMMA SumType ==
    ASSUME NEW f, NEW S, IsFiniteSet(S), \A x \in S : f[x] \in Nat
    PROVE  \A T \in SUBSET S : SumFunctionOnSet(f, T) \in Nat
<1> DEFINE Good == {T \in SUBSET S : SumFunctionOnSet(f, T) \in Nat}
<1>1. ASSUME NEW T \in SUBSET S, \A U \in SUBSET T : U # T => U \in Good
      PROVE  T \in Good
  <2>1. IsFiniteSet(T)
    BY FS_Subset
  <2>2. CASE T = {}
    <3>1. SumFunctionOnSet(f, T) = 0
      BY <2>1, <2>2, SumStep
    <3>2. QED
      BY <3>1
  <2>3. CASE T # {}
    <3>1. Pick(T) \in T
      BY <2>3 DEF Pick
    <3>2. T \ {Pick(T)} \in Good
      BY <1>1, <3>1
    <3>3. SumFunctionOnSet(f, T) = f[Pick(T)] + SumFunctionOnSet(f, T \ {Pick(T)})
      BY <2>1, <2>3, SumStep
    <3>4. QED
      BY <3>1, <3>2, <3>3
  <2>4. QED
    BY <2>2, <2>3
<1> HIDE DEF Good
<1>2. SUBSET S \subseteq Good
  BY <1>1, SubsetInduction
<1>3. QED
  BY <1>2 DEF Good

LEMMA SumTakesOut ==
    ASSUME NEW f, NEW S, IsFiniteSet(S), \A x \in S : f[x] \in Nat
    PROVE  \A T \in SUBSET S : \A x \in T :
             SumFunctionOnSet(f, T) = f[x] + SumFunctionOnSet(f, T \ {x})
<1> DEFINE Good == {T \in SUBSET S : \A x \in T :
                      SumFunctionOnSet(f, T) = f[x] + SumFunctionOnSet(f, T \ {x})}
<1>1. ASSUME NEW T \in SUBSET S, \A U \in SUBSET T : U # T => U \in Good
      PROVE  T \in Good
  <2>1. SUFFICES ASSUME NEW x \in T
                 PROVE  SumFunctionOnSet(f, T) = f[x] + SumFunctionOnSet(f, T \ {x})
    OBVIOUS
  <2> DEFINE p == Pick(T)
             both == (T \ {x}) \ {p}
  <2>2. p \in T /\ IsFiniteSet(T) /\ T # {}
    BY FS_Subset DEF Pick
  <2>3. SumFunctionOnSet(f, T) = f[p] + SumFunctionOnSet(f, T \ {p})
    BY <2>2, SumStep
  <2>4. CASE p = x
    BY <2>3, <2>4
  <2>5. CASE p # x
    <3>1. x \in T \ {p} /\ p \in T \ {x} /\ both = (T \ {p}) \ {x}
      BY <2>2, <2>5
    <3>2. T \ {p} \in Good /\ T \ {x} \in Good
      BY <1>1, <2>2
    <3>3. SumFunctionOnSet(f, T \ {p}) = f[x] + SumFunctionOnSet(f, both)
      BY <3>1, <3>2
    <3>4. SumFunctionOnSet(f, T \ {x}) = f[p] + SumFunctionOnSet(f, both)
      BY <3>1, <3>2
    <3>5. f[x] \in Nat /\ f[p] \in Nat /\ SumFunctionOnSet(f, both) \in Nat
      <4>1. both \in SUBSET S
        OBVIOUS
      <4>2. QED
        BY <2>2, <4>1, SumType
    <3> HIDE DEF p, both, Good
    <3>6. QED
      BY <2>3, <3>3, <3>4, <3>5
  <2>6. QED
    BY <2>4, <2>5
<1> HIDE DEF Good
<1>2. SUBSET S \subseteq Good
  BY <1>1, SubsetInduction
<1>3. QED
  BY <1>2 DEF Good

LEMMA SumOfNone == ASSUME NEW f PROVE SumFunctionOnSet(f, {}) = 0
BY SumStep, FS_EmptySet

LEMMA SumOfOne ==
    ASSUME NEW f, NEW x, f[x] \in Nat
    PROVE  SumFunctionOnSet(f, {x}) = f[x]
<1>1. SumFunctionOnSet(f, {x}) = f[x] + SumFunctionOnSet(f, {})
  <2>1. IsFiniteSet({x}) /\ Pick({x}) = x /\ {x} # {} /\ {x} \ {x} = {}
    BY FS_Singleton DEF Pick
  <2>2. QED
    BY <2>1, SumStep
<1>2. QED
  BY <1>1, SumOfNone

LEMMA Quotient ==
    ASSUME NEW a \in Nat, NEW p \in Nat \ {0}
    PROVE  /\ a \div p \in Nat
           /\ p * (a \div p) <= a /\ a < p * (a \div p) + p
OBVIOUS

LEMMA QuotientIsLargest ==
    ASSUME NEW a \in Nat, NEW p \in Nat \ {0}, NEW q \in Nat, p * q <= a
    PROVE  q <= a \div p
<1> DEFINE d == a \div p
<1>1. d \in Nat /\ a < p * d + p
  BY Quotient
<1>2. CASE d + 1 <= q
  <2>1. p * (d + 1) <= p * q
    <3> HIDE DEF d
    <3>1. QED
      BY <1>1, <1>2
  <2>2. p * (d + 1) = p * d + p
    <3> HIDE DEF d
    <3>1. QED
      BY <1>1
  <2> HIDE DEF d
  <2>3. QED
    BY <1>1, <2>1, <2>2
<1>3. QED
  BY <1>1, <1>2

(* The larger the amount and the smaller the price, the more tokens.       *)
LEMMA QuotientGrows ==
    ASSUME NEW a \in Nat, NEW b \in Nat, a <= b,
           NEW p \in Nat \ {0}, NEW q \in Nat \ {0}, q <= p
    PROVE  a \div p <= b \div q
<1> DEFINE d == a \div p
<1>1. d \in Nat /\ p * d <= a
  BY Quotient
<1> HIDE DEF d
<1>2. q * d <= p * d
  BY <1>1
<1>3. q * d <= b /\ q * d \in Nat
  BY <1>1, <1>2
<1>4. d <= b \div q
  BY <1>1, <1>3, QuotientIsLargest
<1>5. QED
  BY <1>4 DEF d

(* Rounding down one by one gives no more than rounding down the whole.    *)
LEMMA QuotientsAdd ==
    ASSUME NEW a \in Nat, NEW b \in Nat, NEW p \in Nat \ {0}
    PROVE  a \div p + b \div p <= (a + b) \div p
<1> DEFINE d == a \div p
           e == b \div p
<1>1. d \in Nat /\ p * d <= a /\ e \in Nat /\ p * e <= b
  BY Quotient
<1> HIDE DEF d, e
<1>2. p * (d + e) = p * d + p * e
  BY <1>1
<1>3. p * (d + e) <= a + b /\ d + e \in Nat /\ a + b \in Nat
  BY <1>1, <1>2
<1>4. d + e <= (a + b) \div p
  BY <1>3, QuotientIsLargest
<1>5. QED
  BY <1>4 DEF d, e

LEMMA SumOfQuotients ==
    ASSUME NEW S, IsFiniteSet(S), NEW f \in [S -> Nat], NEW p \in Nat \ {0}
    PROVE  \A T \in SUBSET S :
             SumFunctionOnSet([x \in S |-> f[x] \div p], T) <= SumFunctionOnSet(f, T) \div p
<1> DEFINE q == [x \in S |-> f[x] \div p]
           Good == {T \in SUBSET S : SumFunctionOnSet(q, T) <= SumFunctionOnSet(f, T) \div p}
<1>1. \A x \in S : f[x] \in Nat /\ q[x] \in Nat /\ q[x] = f[x] \div p
  BY Quotient
<1> HIDE DEF q
<1>2. ASSUME NEW T \in SUBSET S, \A U \in SUBSET T : U # T => U \in Good
      PROVE  T \in Good
  <2>1. CASE T = {}
    <3>1. SumFunctionOnSet(q, T) = 0 /\ SumFunctionOnSet(f, T) = 0
      BY <2>1, SumOfNone
    <3>2. 0 \div p \in Nat
      BY Quotient
    <3>3. QED
      BY <3>1, <3>2
  <2>2. CASE T # {}
    <3>1. PICK x \in T : TRUE
      BY <2>2
    <3> DEFINE R == T \ {x}
               a == SumFunctionOnSet(f, R)
               b == SumFunctionOnSet(q, R)
    <3>2. /\ SumFunctionOnSet(f, T) = f[x] + a
          /\ SumFunctionOnSet(q, T) = q[x] + b
      BY <1>1, SumTakesOut
    <3>3. a \in Nat /\ b \in Nat
      <4>1. R \in SUBSET S
        OBVIOUS
      <4>2. QED
        BY <1>1, <4>1, SumType
    <3>4. b <= a \div p
      BY <1>2
    <3>5. x \in S /\ f[x] \in Nat /\ q[x] \in Nat /\ q[x] = f[x] \div p
      BY <1>1
    <3> HIDE DEF a, b
    <3>6. f[x] \div p + a \div p <= (f[x] + a) \div p
      BY <3>3, <3>5, QuotientsAdd
    <3>7. a \div p \in Nat /\ (f[x] + a) \div p \in Nat
      BY <3>3, <3>5, Quotient
    <3>8. q[x] + b <= (f[x] + a) \div p
      BY <3>3, <3>4, <3>5, <3>6, <3>7
    <3>9. QED
      BY <3>2, <3>8
  <2>3. QED
    BY <2>1, <2>2
<1> HIDE DEF Good
<1>3. SUBSET S \subseteq Good
  BY <1>2, SubsetInduction
<1>4. QED
  BY <1>3 DEF Good, q

(* A sum over more is no less. *)
LEMMA SumGrows ==
    ASSUME NEW f, NEW S, IsFiniteSet(S), \A x \in S : f[x] \in Nat, NEW T \in SUBSET S
    PROVE  \A U \in SUBSET S : T \subseteq U =>
             SumFunctionOnSet(f, T) <= SumFunctionOnSet(f, U)
<1> DEFINE Good == {U \in SUBSET S : T \subseteq U =>
                      SumFunctionOnSet(f, T) <= SumFunctionOnSet(f, U)}
<1>1. ASSUME NEW U \in SUBSET S, \A V \in SUBSET U : V # U => V \in Good
      PROVE  U \in Good
  <2>1. SUFFICES ASSUME T \subseteq U, T # U
                 PROVE  SumFunctionOnSet(f, T) <= SumFunctionOnSet(f, U)
    BY SumType
  <2>2. PICK x \in U : x \notin T
    BY <2>1
  <2> DEFINE R == U \ {x}
  <2>3. R \in SUBSET S /\ f[x] \in Nat /\ T \subseteq R
    BY <2>1, <2>2
  <2>4. SumFunctionOnSet(f, T) <= SumFunctionOnSet(f, R)
    BY <1>1, <2>2, <2>3
  <2>5. SumFunctionOnSet(f, U) = f[x] + SumFunctionOnSet(f, R)
    BY SumTakesOut
  <2>6. SumFunctionOnSet(f, T) \in Nat /\ SumFunctionOnSet(f, R) \in Nat
    BY <2>3, SumType
  <2> HIDE DEF R
  <2>7. QED
    BY <2>3, <2>4, <2>5, <2>6
<1> HIDE DEF Good
<1>2. SUBSET S \subseteq Good
  BY <1>1, SubsetInduction
<1>3. QED
  BY <1>2 DEF Good

------------------------------------------------------------------------------
(* What is owed, and the invariants *)

UnpaidGroups == {g \in Groups : PaidTo(g) = {}}

(* The tokens that pay whoever has not been paid, at a price.              *)
Owed(price) == SumFunctionOnSet([g \in Groups |-> FromUSD(USD[g], price)], UnpaidGroups)

MoneyInv ==
    /\ FundsTypeOK
    /\ IsFiniteSet(mined)

(* While a transfer recorded alone can be mined it is the next one, so the *)
(* money that was there when it was recorded is there still.               *)
AloneInv ==
    \A t \in alone :
        /\ rows[t] # "none" /\ t \notin reverted
        /\ rows[t] = TxPending =>
             /\ \A u \in PendingRows : t.nonce <= u.nonce
             /\ pc = "create" => t.nonce <= target.nonce
             /\ Minable(t) => Tokens(t) <= Balance /\ Tokens(t) <= Allowance

(* While a preview is vouched for, the money it counted covers everyone    *)
(* who is not paid yet, and nothing under way costs more than it counted.  *)
PromiseInv ==
    promise # NoQuote =>
        /\ promise <= market
        /\ cached # NoQuote => promise <= cached
        /\ Owed(promise) <= Balance /\ Owed(promise) <= Allowance
        /\ \A t \in Sent : Minable(t) => promise <= t.price
        /\ pc = "send" => promise <= inflight.price

FundsInv == MoneyInv /\ AloneInv /\ PromiseInv

------------------------------------------------------------------------------
(* Amounts *)

LEMMA AmountTypes ==
    /\ \A g \in Groups : USD[g] \in Nat
    /\ \A p \in Prices : p \in Nat \ {0}
    /\ \A t \in Txs : /\ t.spender \in Spenders /\ t.group \in Groups
                      /\ t.price \in Prices /\ t.nonce \in Nat
    /\ \A g \in Groups, p \in Prices : FromUSD(USD[g], p) \in Nat
    /\ \A t \in Txs : Tokens(t) \in Nat
<1>1. \A g \in Groups : USD[g] \in Nat
  BY FundsAssumption
<1>2. \A p \in Prices : p \in Nat \ {0}
  BY FundsAssumption
<1>3. \A t \in Txs : /\ t.spender \in Spenders /\ t.group \in Groups
                     /\ t.price \in Prices /\ t.nonce \in Nat
  BY DEF Txs, Nonces
<1>4. \A g \in Groups, p \in Prices : FromUSD(USD[g], p) \in Nat
  BY <1>1, <1>2, Quotient DEF FromUSD
<1>5. \A t \in Txs : Tokens(t) \in Nat
  BY <1>3, <1>4 DEF Tokens
<1>6. QED
  BY <1>1, <1>2, <1>3, <1>4, <1>5

(* A payment adds its tokens to what was paid. *)
LEMMA PaidTokens ==
    ASSUME NEW S \in SUBSET Txs, IsFiniteSet(S)
    PROVE  /\ TokensOf(S) \in Nat
           /\ \A t \in Txs \ S : TokensOf(S \union {t}) = TokensOf(S) + Tokens(t)
<1> DEFINE f == [t \in Txs |-> Tokens(t)]
<1>1. \A t \in Txs : f[t] = Tokens(t) /\ f[t] \in Nat
  BY AmountTypes
<1>2. \A T : TokensOf(T) = SumFunctionOnSet(f, T)
  BY DEF TokensOf
<1> HIDE DEF f
<1>3. TokensOf(S) \in Nat
  <2>1. SumFunctionOnSet(f, S) \in Nat
    BY <1>1, SumType
  <2>2. QED
    BY <1>2, <2>1
<1>4. ASSUME NEW t \in Txs \ S
      PROVE  TokensOf(S \union {t}) = TokensOf(S) + Tokens(t)
  <2> DEFINE U == S \union {t}
  <2>1. IsFiniteSet(U) /\ U \in SUBSET U /\ t \in U /\ U \ {t} = S
    BY FS_AddElement
  <2>2. \A x \in U : f[x] \in Nat
    BY <1>1
  <2>3. SumFunctionOnSet(f, U) = f[t] + SumFunctionOnSet(f, S)
    <3> HIDE DEF U
    <3>1. QED
      BY <2>1, <2>2, SumTakesOut
  <2>4. QED
    BY <1>1, <1>2, <1>3, <2>3
<1>5. QED
  BY <1>3, <1>4

(* What is owed: to nobody less than nothing, to each unpaid group its     *)
(* tokens; a group that is paid is owed no more.                           *)
LEMMA OwedToEach ==
    ASSUME NEW p \in Prices, NEW D \in SUBSET Groups
    PROVE  LET f == [g \in Groups |-> FromUSD(USD[g], p)]
           IN  /\ SumFunctionOnSet(f, D) \in Nat
               /\ \A g \in D : /\ SumFunctionOnSet(f, D) =
                                    FromUSD(USD[g], p) + SumFunctionOnSet(f, D \ {g})
                               /\ SumFunctionOnSet(f, D \ {g}) \in Nat
                               /\ FromUSD(USD[g], p) <= SumFunctionOnSet(f, D)
<1> DEFINE f == [g \in Groups |-> FromUSD(USD[g], p)]
<1>1. \A g \in Groups : f[g] = FromUSD(USD[g], p) /\ f[g] \in Nat
  BY AmountTypes
<1>2. IsFiniteSet(Groups)
  BY FundsAssumption
<1> HIDE DEF f
<1>3. \A E \in SUBSET Groups : SumFunctionOnSet(f, E) \in Nat
  BY <1>1, <1>2, SumType
<1>4. \A g \in D : SumFunctionOnSet(f, D) = f[g] + SumFunctionOnSet(f, D \ {g})
  BY <1>1, <1>2, SumTakesOut
<1>5. ASSUME NEW g \in D
      PROVE  /\ SumFunctionOnSet(f, D) = FromUSD(USD[g], p) + SumFunctionOnSet(f, D \ {g})
             /\ SumFunctionOnSet(f, D \ {g}) \in Nat
             /\ FromUSD(USD[g], p) <= SumFunctionOnSet(f, D)
  <2>1. SumFunctionOnSet(f, D \ {g}) \in Nat /\ g \in Groups
    BY <1>3
  <2>2. f[g] = FromUSD(USD[g], p) /\ f[g] \in Nat
    BY <1>1, <2>1
  <2>3. QED
    BY <1>4, <2>1, <2>2
<1>6. QED
  BY <1>3, <1>5 DEF f

(* What the preview counts covers what is owed. *)
LEMMA PreviewCoversOwed ==
    ASSUME TypeOK, StoreInv, NEW p \in Prices
    PROVE  Owed(p) <= FromUSD(PendingUSD, p) /\ Owed(p) \in Nat /\ FromUSD(PendingUSD, p) \in Nat
<1> DEFINE unfinished == {g \in Groups : final[g] = NoTx}
           f == [g \in Groups |-> FromUSD(USD[g], p)]
<1>1. IsFiniteSet(Groups) /\ USD \in [Groups -> Nat] /\ p \in Nat \ {0}
  BY FundsAssumption
<1>2. UnpaidGroups \subseteq unfinished
  <2> SUFFICES ASSUME NEW g \in Groups, final[g] # NoTx PROVE PaidTo(g) # {}
    BY DEF UnpaidGroups
  <2>1. final[g] \in Txs /\ final[g].group = g /\ rows[final[g]] = TxConfirmed
    BY DEF TypeOK, DBTypeOK, StoreInv, AttachedInv
  <2>2. final[g] \in Paid
    BY <2>1 DEF StoreInv, SettledInv
  <2>3. QED
    BY <2>1, <2>2 DEF PaidTo
<1>3. UnpaidGroups \in SUBSET Groups /\ unfinished \in SUBSET Groups
  BY DEF UnpaidGroups
<1>4. Owed(p) = SumFunctionOnSet(f, UnpaidGroups) /\ PendingUSD = SumFunctionOnSet(USD, unfinished)
  BY DEF Owed, PendingUSD
<1>5. f = [g \in Groups |-> USD[g] \div p]
  BY DEF FromUSD
<1> HIDE DEF f, unfinished
<1>6. Owed(p) <= SumFunctionOnSet(USD, UnpaidGroups) \div p
  BY <1>1, <1>3, <1>4, <1>5, SumOfQuotients
<1>7. /\ SumFunctionOnSet(USD, UnpaidGroups) \in Nat /\ PendingUSD \in Nat
      /\ SumFunctionOnSet(USD, UnpaidGroups) <= PendingUSD
  BY <1>1, <1>2, <1>3, <1>4, SumType, SumGrows
<1>8. SumFunctionOnSet(USD, UnpaidGroups) \div p <= PendingUSD \div p
  BY <1>1, <1>7, QuotientGrows
<1>9. Owed(p) \in Nat
  BY <1>3, OwedToEach DEF Owed
<1>10. SumFunctionOnSet(USD, UnpaidGroups) \div p \in Nat /\ PendingUSD \div p \in Nat
  BY <1>1, <1>7, Quotient
<1>11. QED
  BY <1>6, <1>8, <1>9, <1>10 DEF FromUSD

------------------------------------------------------------------------------
(* Every step is a step of the pipeline, or ends the run for want of money *)

StopsShort ==
    /\ Return("amount") \/ Return("short")
    /\ UNCHANGED <<chainVars, dbVars, fresh>>

LEMMA FundsStepIsPipelineStep ==
    ASSUME FundsTypeOK, [FundsNext]_<<vars, fundVars>>
    PROVE  [Next]_vars \/ StopsShort
<1>1. CASE \/ \E price \in Prices : MarketMoves(price)
           \/ TopsUp \/ Expires \/ Preview \/ getStorjPrice
           \/ UNCHANGED <<vars, fundVars>>
  BY <1>1 DEF MarketMoves, TopsUp, Expires, Preview, getStorjPrice
<1>2. CASE NetworkMoves
  BY <1>2 DEF NetworkMoves, Next
<1>3. CASE \E s \in Spenders, d \in Drains : Run(s, d)
  BY <1>3 DEF Run, Next
<1>4. CASE sendTransaction
  <2>1. cached \in Prices
    BY <1>4 DEF sendTransaction, FundsTypeOK
  <2>2. CASE \E tokens : Recorded(tokens)
    BY <2>1, <2>2 DEF Recorded, Next, SendStep
  <2>3. CASE \E tokens : AmountTooSmall(tokens) \/ BalanceTooSmall(tokens)
                           \/ AllowanceTooSmall(tokens)
    BY <2>3 DEF AmountTooSmall, BalanceTooSmall, AllowanceTooSmall, StopsShort
  <2>4. QED
    BY <1>4, <2>2, <2>3 DEF sendTransaction
<1>5. CASE OtherStep
  BY <1>5 DEF OtherStep, Next, SendStep
<1>6. QED
  BY <1>1, <1>2, <1>3, <1>4, <1>5 DEF FundsNext

LEMMA FundsKeepPipeline ==
    ASSUME TypeOK, StoreInv, RunInv, SpenderFixed, [Next]_vars \/ StopsShort
    PROVE  TypeOK' /\ StoreInv' /\ RunInv'
<1>1. CASE [Next]_vars
  BY <1>1, TypeNext, InvNext
<1>2. CASE StopsShort
  <2>1. TypeOK'
    <3>1. PICK why \in Results : Return(why)
      BY <1>2 DEF StopsShort, Results
    <3>2. UNCHANGED <<chainVars, dbVars, fresh>>
      BY <1>2 DEF StopsShort
    <3>3. QED
      BY <3>1, <3>2, ReturnType
  <2>2. StoreInv' /\ RunInv'
    BY <1>2, EndedInv DEF StopsShort, Return
  <2>3. QED
    BY <2>1, <2>2
<1>3. QED
  BY <1>1, <1>2

------------------------------------------------------------------------------
(* Steps of the pipeline that move no money *)

(* Nothing is mined, nothing is recorded, and what a node is given is what *)
(* was recorded last.                                                      *)
MovesNoMoney ==
    /\ UNCHANGED <<chainNonce, mined, reverted, market, deposited, granted, promise, alone>>
    /\ cached' \in {cached, NoQuote} /\ ready' \in BOOLEAN
    /\ \A t \in Sent' : t \in Sent \/ (pc = "send" /\ t = inflight)
    /\ \A t \in Txs : rows[t] # "none" => rows'[t] # "none"
    /\ PendingRows' \subseteq PendingRows
    /\ pc' = "send" => pc = "send" /\ inflight' = inflight
    /\ pc' = "create" /\ (pc # "create" \/ target' # target) =>
         \A t \in PendingRows : (\A u \in PendingRows : t.nonce <= u.nonce) =>
            t.nonce <= target'.nonce

LEMMA NoMoneyMoved ==
    ASSUME TypeOK, FundsInv, MovesNoMoney
    PROVE  FundsInv'
<1> USE DEF FundsInv
<1>1. UNCHANGED <<Paid, UnpaidGroups, Balance, Allowance>>
  BY DEF MovesNoMoney, Paid, UnpaidGroups, PaidTo, Balance, Allowance
<1>2. MoneyInv'
  <2>1. ready' \in BOOLEAN
    BY DEF MovesNoMoney
  <2>2. QED
    BY <1>1, <2>1 DEF MovesNoMoney, MoneyInv, FundsTypeOK
<1>3. AloneInv'
  <2> SUFFICES ASSUME NEW t \in alone
               PROVE  /\ rows'[t] # "none" /\ t \notin reverted
                      /\ rows'[t] = TxPending =>
                           /\ \A u \in PendingRows' : t.nonce <= u.nonce
                           /\ pc' = "create" => t.nonce <= target'.nonce
                           /\ Minable(t)' => Tokens(t) <= Balance' /\ Tokens(t) <= Allowance'
    BY DEF AloneInv, MovesNoMoney, Tokens
  <2>1. t \in Txs /\ rows[t] # "none" /\ t \notin reverted /\ rows'[t] # "none"
    BY DEF MoneyInv, FundsTypeOK, AloneInv, MovesNoMoney
  <2>2. SUFFICES ASSUME rows'[t] = TxPending
                 PROVE  /\ \A u \in PendingRows' : t.nonce <= u.nonce
                        /\ pc' = "create" => t.nonce <= target'.nonce
                        /\ Minable(t)' => Tokens(t) <= Balance' /\ Tokens(t) <= Allowance'
    BY <2>1
  <2>3. t \in PendingRows /\ rows[t] = TxPending
    BY <2>1, <2>2 DEF MovesNoMoney, PendingRows
  <2>4. /\ \A u \in PendingRows : t.nonce <= u.nonce
        /\ pc = "create" => t.nonce <= target.nonce
        /\ Minable(t) => Tokens(t) <= Balance /\ Tokens(t) <= Allowance
    BY <2>3 DEF AloneInv
  <2>5. pc' = "create" => t.nonce <= target'.nonce
    BY <2>3, <2>4 DEF MovesNoMoney
  <2>6. Minable(t)' = Minable(t)
    BY DEF Minable, MovesNoMoney
  <2>7. QED
    BY <1>1, <2>4, <2>5, <2>6 DEF MovesNoMoney
<1>4. PromiseInv'
  <2> SUFFICES ASSUME promise # NoQuote PROVE PromiseInv'
    BY DEF PromiseInv, MovesNoMoney
  <2>1. /\ promise <= market
        /\ cached # NoQuote => promise <= cached
        /\ Owed(promise) <= Balance /\ Owed(promise) <= Allowance
        /\ \A t \in Sent : Minable(t) => promise <= t.price
        /\ pc = "send" => promise <= inflight.price
    BY DEF PromiseInv
  <2>2. Owed(promise)' = Owed(promise)
    BY <1>1 DEF Owed, MovesNoMoney
  <2>3. \A t \in Sent' : Minable(t)' => promise <= t.price
    BY <2>1 DEF MovesNoMoney, Minable
  <2>4. QED
    BY <1>1, <2>1, <2>2, <2>3 DEF PromiseInv, MovesNoMoney
<1>5. QED
  BY <1>2, <1>3, <1>4

(* The process goes on with what it was sending, or sends nothing.         *)
Quiet ==
    /\ UNCHANGED <<chainVars, dbVars>>
    /\ pc' \notin {"create", "send"} \/ UNCHANGED <<pc, target, inflight>>

MoneyUntouched ==
    /\ KeepQuote
    /\ UNCHANGED <<market, deposited, granted, promise, alone>>

LEMMA QuietMoves ==
    ASSUME FundsTypeOK, Quiet, MoneyUntouched, ready' \in {ready, FALSE}
    PROVE  MovesNoMoney
<1>1. ready' \in BOOLEAN
  BY DEF FundsTypeOK
<1>2. UNCHANGED <<chainNonce, mined, reverted, Sent, rows, PendingRows>>
  BY DEF Quiet, chainVars, dbVars, Sent, PendingRows
<1>3. pc' \in {"create", "send"} => UNCHANGED <<pc, target, inflight>>
  BY DEF Quiet
<1>4. QED
  BY <1>1, <1>2, <1>3 DEF MoneyUntouched, KeepQuote, MovesNoMoney

(* A group found dropped has a pending row at the nonce it is paid at.     *)
LEMMA DroppedMoves ==
    ASSUME TypeOK, RunInv, FundsTypeOK, CheckDropped, MoneyUntouched, ready' = ready
    PROVE  MovesNoMoney
<1>1. /\ UNCHANGED <<chainVars, dbVars>> /\ pc = "check" /\ pc' = "create"
      /\ target' = [group |-> nonceGroups[cursor].group, nonce |-> cursor]
  BY DEF CheckDropped, Checked
<1>2. cursor \in DOMAIN nonceGroups /\ nonceGroups[cursor].txs # {}
  <2>1. cursor \in Nat
    BY DEF TypeOK, Nonces
  <2>2. QED
    BY <1>1, <2>1 DEF RunInv, CheckInv
<1>3. PICK u \in nonceGroups[cursor].txs :
        u \in Txs /\ rows[u] = TxPending /\ u.nonce = cursor
  BY <1>1, <1>2 DEF RunInv, MemoryInv, TypeOK, NonceGroups
<1>4. u \in PendingRows /\ target'.nonce = cursor
  BY <1>1, <1>3 DEF PendingRows
<1>5. UNCHANGED <<chainNonce, mined, reverted, Sent, rows, PendingRows>>
  BY <1>1 DEF chainVars, dbVars, Sent, PendingRows
<1>6. ready' \in BOOLEAN
  BY DEF FundsTypeOK
<1>7. QED
  BY <1>1, <1>3, <1>4, <1>5, <1>6 DEF MoneyUntouched, KeepQuote, MovesNoMoney

(* Settling rows leaves fewer of them pending. *)
LEMMA FinalMoves ==
    ASSUME TypeOK, RunInv, FundsTypeOK, MoneyUntouched, ready' = ready,
           NEW verdict \in {TxFailed, TxConfirmed}, CheckFinal(verdict)
    PROVE  MovesNoMoney
<1>1. UNCHANGED <<chainVars, target, inflight>> /\ pc' \in {"check", "checked"}
  BY DEF CheckFinal, CheckFrom
<1>2. rows' = [t \in Txs |-> IF t \in DOMAIN statuses THEN statuses[t] ELSE rows[t]]
  BY DEF CheckFinal, FinalizeNonceGroup
<1>3. \A t \in DOMAIN statuses : statuses[t] \in TxStates
  BY DEF TypeOK
<1>4. \A t \in Txs : rows[t] # "none" => rows'[t] # "none"
  BY <1>2, <1>3 DEF TxStates
<1>5. PendingRows' \subseteq PendingRows
  <2>1. \A t \in DOMAIN statuses : rows[t] = TxPending
    BY DEF CheckFinal, Checked, RunInv, MemoryInv, CheckInv
  <2>2. SUFFICES ASSUME NEW t \in Txs, rows'[t] = TxPending PROVE rows[t] = TxPending
    BY DEF PendingRows
  <2>3. QED
    BY <1>2, <2>1, <2>2
<1>6. UNCHANGED <<chainNonce, mined, reverted, Sent>>
  BY <1>1 DEF chainVars, Sent
<1>7. ready' \in BOOLEAN
  BY DEF FundsTypeOK
<1>8. QED
  BY <1>1, <1>4, <1>5, <1>6, <1>7 DEF MoneyUntouched, KeepQuote, MovesNoMoney

(* A new group gets the nonce after the pending ones, or there are none. *)
LEMMA FillMoves ==
    ASSUME TypeOK, RunInv, FundsTypeOK, MoneyUntouched, ready' = ready,
           NEW g \in Groups, NEW n \in Nonces,
           FillFromLast(g, n) \/ FillFromChain(g, n)
    PROVE  MovesNoMoney
<1> USE DEF FillFromLast, FillFromChain, Fill
<1>1. UNCHANGED <<chainVars, dbVars>> /\ pc = "fill"
  BY DEF Return
<1>2. UNCHANGED <<chainNonce, mined, reverted, Sent, rows, PendingRows>>
  BY <1>1 DEF chainVars, dbVars, Sent, PendingRows
<1>3. \A t \in PendingRows : t.nonce \in DOMAIN nonceGroups /\ t.nonce \in Nat
  BY <1>1 DEF RunInv, MemoryInv, PendingRows, Txs, Nonces
<1>4. ready' \in BOOLEAN
  BY DEF FundsTypeOK
<1>5. /\ pc' # "send"
      /\ pc' = "create" => \A t \in PendingRows : t.nonce <= target'.nonce
  <2>1. CASE FillFromLast(g, n)
    <3>1. pc' = "create" /\ target'.nonce = n + 1 /\ \A m \in DOMAIN nonceGroups : m <= n
      BY <2>1
    <3>2. QED
      BY <1>3, <3>1 DEF Nonces
  <2>2. CASE FillFromChain(g, n)
    <3>1. PendingRows = {}
      BY <1>3, <2>2
    <3>2. pc' \in {"create", "stopped"}
      BY <2>2 DEF Return
    <3>3. QED
      BY <3>1, <3>2
  <2>3. QED
    BY <2>1, <2>2
<1>6. QED
  BY <1>2, <1>4, <1>5 DEF MoneyUntouched, KeepQuote, MovesNoMoney

LEMMA SendMoves ==
    ASSUME TypeOK, FundsTypeOK, MoneyUntouched, ready' = ready, SendAccepted \/ SendRefused
    PROVE  MovesNoMoney
<1>1. UNCHANGED <<chainNonce, mined, reverted, rows, PendingRows>> /\ pc = "send"
  BY DEF SendAccepted, SendRefused, Accept, Refuse, dbVars, PendingRows
<1>2. Sent' \subseteq Sent \union {inflight}
  BY DEF SendAccepted, SendRefused, Accept, Refuse, Sent
<1>3. pc' \in {"stopped", "checked", "fill"}
  BY DEF SendAccepted, SendRefused
<1>4. ready' \in BOOLEAN
  BY DEF FundsTypeOK
<1>5. QED
  BY <1>1, <1>2, <1>3, <1>4 DEF MoneyUntouched, KeepQuote, MovesNoMoney

LEMMA OtherMoves ==
    ASSUME TypeOK, RunInv, FundsTypeOK, OtherStep
    PROVE  MovesNoMoney
<1> USE DEF Quiet
<1>1. MoneyUntouched /\ ready' = ready
  BY DEF OtherStep, MoneyUntouched
<1>2. ASSUME NEW t \in Txs, NEW state \in TxStates, Query(t, state) PROVE Quiet
  BY <1>2 DEF Query, dbVars
<1>3. ASSUME CheckError \/ CheckPending \/ CheckDroppedTooYoung \/ CheckEnds PROVE Quiet
  BY <1>3 DEF CheckError, CheckPending, CheckDroppedTooYoung, CheckEnds, BreakCheckLoop,
              CheckFrom, Return
<1>4. ASSUME Step \/ FillEnds PROVE Quiet
  BY <1>4 DEF Step, FillEnds, CheckFrom, Return
<1>5. ASSUME Abort \/ \E t \in Txs : Age(t) PROVE Quiet
  BY <1>5 DEF Abort, Age, runVars
<1>6. CASE CheckStep
  BY <1>1, <1>2, <1>3, <1>6, QuietMoves, DroppedMoves, FinalMoves DEF CheckStep
<1>7. CASE FillStep
  BY <1>1, <1>4, <1>7, QuietMoves, FillMoves DEF FillStep
<1>8. CASE SendAccepted \/ SendRefused
  BY <1>1, <1>8, SendMoves
<1>9. CASE Abort \/ \E t \in Txs : Age(t)
  BY <1>1, <1>5, <1>9, QuietMoves
<1>10. QED
  BY <1>6, <1>7, <1>8, <1>9 DEF OtherStep

(* A new run, and sendTransaction when it records nothing. *)
LEMMA RunMoves ==
    ASSUME FundsTypeOK, NEW s \in Spenders, NEW d \in Drains, Run(s, d)
    PROVE  MovesNoMoney
<1>1. Quiet
  BY DEF Run, Start, CheckFrom, Quiet
<1>2. MoneyUntouched /\ ready' = FALSE
  BY DEF Run, MoneyUntouched
<1>3. QED
  BY <1>1, <1>2, QuietMoves

LEMMA ShortMoves ==
    ASSUME FundsTypeOK, sendTransaction, UNCHANGED <<chainVars, dbVars, alone>>, pc' = "stopped"
    PROVE  MovesNoMoney
<1>1. Quiet
  BY DEF Quiet
<1>2. MoneyUntouched /\ ready' = ready
  BY DEF sendTransaction, MoneyUntouched
<1>3. QED
  BY <1>1, <1>2, QuietMoves

------------------------------------------------------------------------------
(* Steps of the world, the preview and the quoter *)

(* What was paid, and what is left of deposit and grant. *)
LEMMA Books ==
    ASSUME TypeOK, MoneyInv
    PROVE  /\ Paid \in SUBSET Txs /\ IsFiniteSet(Paid)
           /\ TokensOf(Paid) \in Nat
           /\ Balance \in Nat /\ Allowance \in Nat
           /\ deposited \in Nat /\ granted \in Nat
           /\ \A p \in Prices : Owed(p) \in Nat
<1>1. Paid \in SUBSET Txs /\ IsFiniteSet(Paid)
  BY FS_Subset DEF Paid, MoneyInv, TypeOK, ChainTypeOK
<1>2. TokensOf(Paid) \in Nat
  BY <1>1, PaidTokens
<1>3. deposited \in Nat /\ granted \in Nat
  BY FundsAssumption DEF MoneyInv, FundsTypeOK
<1>4. \A p \in Prices : Owed(p) \in Nat
  <2> SUFFICES ASSUME NEW p \in Prices PROVE Owed(p) \in Nat
    OBVIOUS
  <2>1. UnpaidGroups \in SUBSET Groups
    BY DEF UnpaidGroups
  <2>2. QED
    BY <2>1, OwedToEach DEF Owed
<1>5. QED
  BY <1>1, <1>2, <1>3, <1>4 DEF MoneyInv, FundsTypeOK

LEMMA SamePipeline ==
    ASSUME UNCHANGED vars
    PROVE  /\ UNCHANGED <<chainNonce, mined, reverted, Sent, rows, PendingRows, Paid>>
           /\ UNCHANGED <<pc, target, inflight, UnpaidGroups, TokensOf(Paid)>>
           /\ \A p : Owed(p)' = Owed(p)
           /\ \A t : Minable(t)' = Minable(t)
<1>1. UNCHANGED <<chainVars, dbVars, pc, runVars>>
  BY DEF vars
<1>2. UNCHANGED <<chainNonce, mined, reverted, Sent, rows, PendingRows, Paid>>
  BY <1>1 DEF chainVars, dbVars, Sent, PendingRows, Paid
<1>3. UNCHANGED <<pc, target, inflight, UnpaidGroups, TokensOf(Paid)>>
  BY <1>1, <1>2 DEF runVars, UnpaidGroups, PaidTo, TokensOf
<1>4. \A p : Owed(p)' = Owed(p)
  BY <1>3 DEF Owed
<1>5. \A t : Minable(t)' = Minable(t)
  BY <1>2 DEF Minable
<1>6. QED
  BY <1>2, <1>3, <1>4, <1>5

(* Whatever was alone stays so while the pipeline does nothing and money   *)
(* is not taken away.                                                      *)
LEMMA AloneKept ==
    ASSUME TypeOK, FundsInv, UNCHANGED vars, UNCHANGED <<alone, granted>>,
           deposited' \in Nat, deposited <= deposited'
    PROVE  AloneInv' /\ Balance <= Balance' /\ Balance' \in Nat /\ Allowance' = Allowance
<1>1. /\ UNCHANGED <<chainNonce, mined, reverted, rows, PendingRows, Paid>>
      /\ UNCHANGED <<pc, target, TokensOf(Paid)>>
      /\ \A t : Minable(t)' = Minable(t)
  BY SamePipeline
<1>2. deposited \in Nat /\ TokensOf(Paid) \in Nat /\ Balance \in Nat
  BY Books DEF FundsInv
<1>3. Balance <= Balance' /\ Balance' \in Nat /\ Allowance' = Allowance
  BY <1>1, <1>2 DEF Balance, Allowance
<1>4. \A t \in Txs : Tokens(t) \in Nat
  BY AmountTypes
<1>5. AloneInv'
  <2> SUFFICES ASSUME NEW t \in alone
               PROVE  /\ rows[t] # "none" /\ t \notin reverted
                      /\ rows[t] = TxPending =>
                           /\ \A u \in PendingRows : t.nonce <= u.nonce
                           /\ pc = "create" => t.nonce <= target.nonce
                           /\ Minable(t) => Tokens(t) <= Balance' /\ Tokens(t) <= Allowance'
    BY <1>1 DEF AloneInv, Tokens
  <2>1. t \in Txs
    BY DEF FundsInv, MoneyInv, FundsTypeOK
  <2>2. Tokens(t) <= Balance => Tokens(t) <= Balance'
    BY <1>2, <1>3, <1>4, <2>1
  <2>3. QED
    BY <1>3, <2>2 DEF FundsInv, AloneInv
<1>6. QED
  BY <1>3, <1>5

LEMMA MarketKeeps ==
    ASSUME TypeOK, FundsInv, NEW price \in Prices, MarketMoves(price)
    PROVE  FundsInv'
<1>1. UNCHANGED vars /\ UNCHANGED <<cached, deposited, granted, ready, alone>>
  BY DEF MarketMoves
<1>2. deposited' \in Nat /\ deposited <= deposited'
  BY <1>1, Books DEF FundsInv
<1>3. AloneInv' /\ Balance' = Balance /\ Allowance' = Allowance
  BY <1>1, <1>2, AloneKept, SamePipeline DEF Balance
<1>4. MoneyInv'
  <2>1. market' \in Prices /\ promise' \in {promise, NoQuote}
    BY DEF MarketMoves
  <2>2. ready' \in BOOLEAN
    BY <1>1 DEF FundsInv, MoneyInv, FundsTypeOK
  <2>3. QED
    BY <1>1, <1>3, <2>1, <2>2, SamePipeline DEF FundsInv, MoneyInv, FundsTypeOK
<1>5. PromiseInv'
  <2> SUFFICES ASSUME promise' # NoQuote PROVE PromiseInv'
    BY DEF PromiseInv
  <2>1. promise' = promise /\ promise # NoQuote /\ ~(price < promise) /\ market' = price
    BY DEF MarketMoves
  <2>2. promise <= price
    BY <2>1, AmountTypes DEF FundsInv, MoneyInv, FundsTypeOK
  <2>3. QED
    BY <1>1, <1>3, <2>1, <2>2, SamePipeline DEF FundsInv, PromiseInv
<1>6. QED
  BY <1>3, <1>4, <1>5 DEF FundsInv

LEMMA TopUpKeeps ==
    ASSUME TypeOK, FundsInv, TopsUp
    PROVE  FundsInv'
<1>1. UNCHANGED vars /\ UNCHANGED <<market, cached, granted, ready, promise, alone>>
  BY DEF TopsUp
<1>2. /\ deposited' \in Nat /\ deposited <= deposited' /\ deposited' = Deposit + TopUp
  BY FundsAssumption DEF TopsUp
<1>3. AloneInv' /\ Balance <= Balance' /\ Balance' \in Nat /\ Allowance' = Allowance
  BY <1>1, <1>2, AloneKept
<1>4. MoneyInv'
  <2>1. ready' \in BOOLEAN
    BY <1>1 DEF FundsInv, MoneyInv, FundsTypeOK
  <2>2. QED
    BY <1>1, <1>2, <1>3, <2>1, SamePipeline DEF FundsInv, MoneyInv, FundsTypeOK
<1>5. PromiseInv'
  <2> SUFFICES ASSUME promise # NoQuote PROVE PromiseInv'
    BY <1>1 DEF PromiseInv
  <2>1. promise \in Prices
    BY DEF FundsInv, MoneyInv, FundsTypeOK
  <2>2. Owed(promise) <= Balance => Owed(promise) <= Balance'
    BY <1>3, <2>1, Books DEF FundsInv
  <2>3. QED
    BY <1>1, <1>3, <2>2, SamePipeline DEF FundsInv, PromiseInv
<1>6. QED
  BY <1>3, <1>4, <1>5 DEF FundsInv

(* The cache empties, or is filled with what the market quotes. *)
LEMMA QuoteKeeps ==
    ASSUME TypeOK, FundsInv, Expires \/ getStorjPrice
    PROVE  FundsInv'
<1>1. UNCHANGED vars /\ UNCHANGED <<market, deposited, granted, ready, promise, alone>>
  BY DEF Expires, getStorjPrice
<1>2. cached' \in {NoQuote, market}
  BY DEF Expires, getStorjPrice, Fetch
<1>3. deposited' \in Nat /\ deposited <= deposited'
  BY <1>1, Books DEF FundsInv
<1>4. AloneInv' /\ Balance' = Balance /\ Allowance' = Allowance
  BY <1>1, <1>3, AloneKept, SamePipeline DEF Balance
<1>5. MoneyInv'
  <2>1. ready' \in BOOLEAN
    BY <1>1 DEF FundsInv, MoneyInv, FundsTypeOK
  <2>2. QED
    BY <1>1, <1>2, <1>4, <2>1, SamePipeline DEF FundsInv, MoneyInv, FundsTypeOK
<1>6. PromiseInv'
  BY <1>1, <1>2, <1>4, SamePipeline DEF FundsInv, PromiseInv
<1>7. QED
  BY <1>4, <1>5, <1>6 DEF FundsInv

(* A preview is only believed when it covers what is owed.                 *)
LEMMA PreviewKeeps ==
    ASSUME TypeOK, StoreInv, FundsInv, Preview
    PROVE  FundsInv'
<1>1. /\ UNCHANGED vars /\ UNCHANGED <<market, deposited, granted, alone>>
      /\ cached' = market /\ ready' = TRUE /\ pc = "stopped"
      /\ promise' = IF Vouches(market) THEN market ELSE NoQuote
  BY DEF Preview, Fetch
<1>2. deposited' \in Nat /\ deposited <= deposited'
  BY <1>1, Books DEF FundsInv
<1>3. AloneInv' /\ Balance' = Balance /\ Allowance' = Allowance
  BY <1>1, <1>2, AloneKept, SamePipeline DEF Balance
<1>4. MoneyInv'
  <2>1. ready' \in BOOLEAN
    BY <1>1
  <2>2. QED
    BY <1>1, <1>3, <2>1, SamePipeline DEF FundsInv, MoneyInv, FundsTypeOK
<1>5. PromiseInv'
  <2>1. SUFFICES ASSUME promise' # NoQuote PROVE PromiseInv'
    BY DEF PromiseInv
  <2>2. promise' = market /\ Vouches(market) /\ market \in Prices /\ market \in Nat
    BY <1>1, <2>1, AmountTypes DEF FundsInv, MoneyInv, FundsTypeOK
  <2>3. Owed(market) <= Balance /\ Owed(market) <= Allowance
    <3>1. /\ Owed(market) <= FromUSD(PendingUSD, market)
          /\ Owed(market) \in Nat /\ FromUSD(PendingUSD, market) \in Nat
      BY <2>2, PreviewCoversOwed
    <3>2. Balance >= FromUSD(PendingUSD, market) /\ Allowance >= FromUSD(PendingUSD, market)
      BY <2>2 DEF Vouches
    <3>3. Balance \in Nat /\ Allowance \in Nat
      BY Books DEF FundsInv
    <3>4. QED
      BY <3>1, <3>2, <3>3
  <2>4. \A t \in Sent : Minable(t) => market <= t.price
    <3>1. \A t \in Sent : t.price \in Nat
      BY AmountTypes DEF Sent, TypeOK, ChainTypeOK
    <3>2. QED
      BY <2>2, <3>1 DEF Vouches
  <2>5. QED
    BY <1>1, <1>3, <2>2, <2>3, <2>4, SamePipeline DEF PromiseInv
<1>6. QED
  BY <1>3, <1>4, <1>5 DEF FundsInv

------------------------------------------------------------------------------
(* Recording a transfer *)

(* A transfer is recorded when balance and allowance cover it; alone, it   *)
(* has the lowest nonce that is pending.                                   *)
LEMMA RecordKeeps ==
    ASSUME TypeOK, StoreInv, FundsInv, cached # NoQuote, KeepQuote,
           UNCHANGED <<market, deposited, granted, ready, promise>>,
           Covered(FromUSD(USD[target.group], cached)),
           Allowed(FromUSD(USD[target.group], cached)),
           Create(cached),
           alone' = IF NothingElseUnderWay(inflight') THEN alone \union {inflight'} ELSE alone
    PROVE  FundsInv'
<1> DEFINE u == TargetTx(cached)
<1>1. /\ pc = "create" /\ pc' = "send" /\ inflight' = u /\ UNCHANGED <<chainVars, target>>
      /\ rows[u] = "none" /\ rows' = [rows EXCEPT ![u] = TxPending] /\ UNCHANGED final
  BY DEF Create, CreateTransaction, HashTaken
<1>2. cached \in Prices /\ u \in Txs
  <2>1. cached \in Prices /\ target \in [group : Groups, nonce : Nonces]
    BY <1>1 DEF FundsInv, MoneyInv, FundsTypeOK, TypeOK
  <2>2. QED
    BY <2>1, TargetTxType
<1>3. u.nonce = target.nonce /\ u.price = cached /\ u.group = target.group
  BY DEF TargetTx
<1>4. Tokens(u) <= Balance /\ Tokens(u) <= Allowance
  BY <1>3 DEF Tokens, Covered, Allowed
<1>5. u \notin reverted
  BY <1>1, <1>2 DEF StoreInv, SettledInv, Sent, TypeOK, ChainTypeOK
<1> HIDE DEF u
<1>6. \A t \in Txs : rows'[t] = IF t = u THEN TxPending ELSE rows[t]
  BY <1>1, <1>2 DEF TypeOK, DBTypeOK
<1>7. PendingRows' = PendingRows \union {u}
  BY <1>2, <1>6 DEF PendingRows
<1>8. UNCHANGED <<chainNonce, mined, reverted, Sent, Paid>>
  BY <1>1 DEF chainVars, Sent, Paid
<1>9. UNCHANGED <<Balance, Allowance, UnpaidGroups>>
  BY <1>8 DEF Balance, Allowance, UnpaidGroups, PaidTo
<1>10. cached' = cached
  BY <1>1 DEF KeepQuote
<1>11. alone' \subseteq alone \union {u} /\ alone \subseteq Txs
  BY <1>1 DEF FundsInv, MoneyInv, FundsTypeOK
<1>12. MoneyInv'
  <2>1. alone' \subseteq Txs
    BY <1>2, <1>11
  <2>2. ready' \in BOOLEAN
    BY DEF FundsInv, MoneyInv, FundsTypeOK
  <2>3. QED
    BY <1>8, <1>9, <1>10, <2>1, <2>2 DEF FundsInv, MoneyInv, FundsTypeOK
<1>13. AloneInv'
  <2> SUFFICES ASSUME NEW t \in alone'
               PROVE  /\ rows'[t] # "none" /\ t \notin reverted
                      /\ rows'[t] = TxPending =>
                           /\ \A v \in PendingRows' : t.nonce <= v.nonce
                           /\ Minable(t) => Tokens(t) <= Balance /\ Tokens(t) <= Allowance
    BY <1>1, <1>8, <1>9 DEF AloneInv, Minable, Tokens
  <2>1. CASE t = u
    <3>1. u \in alone
          \/ \A v \in PendingRows : SameSlot(u, v)
      BY <1>1, <2>1 DEF NothingElseUnderWay
    <3>2. \A v \in PendingRows : SameSlot(u, v)
      BY <1>1, <3>1 DEF FundsInv, AloneInv
    <3>3. \A v \in PendingRows' : u.nonce <= v.nonce
      <4>1. u.nonce \in Nat
        BY <1>2, AmountTypes
      <4>2. QED
        BY <1>7, <3>2, <4>1 DEF SameSlot
    <3>4. rows'[u] # "none"
      BY <1>2, <1>6
    <3>5. QED
      BY <1>4, <1>5, <2>1, <3>3, <3>4
  <2>2. CASE t # u
    <3>1. t \in alone /\ t \in Txs /\ rows'[t] = rows[t]
      BY <1>6, <1>11, <2>2
    <3>2. QED
      BY <1>1, <1>3, <1>7, <3>1 DEF FundsInv, AloneInv
  <2>3. QED
    BY <2>1, <2>2
<1>14. PromiseInv'
  <2> SUFFICES ASSUME promise # NoQuote PROVE PromiseInv'
    BY DEF PromiseInv
  <2>1. promise <= cached
    BY DEF FundsInv, PromiseInv
  <2>2. Owed(promise)' = Owed(promise)
    BY <1>9 DEF Owed
  <2>3. QED
    BY <1>1, <1>3, <1>8, <1>9, <1>10, <2>1, <2>2 DEF FundsInv, PromiseInv, Minable
<1>15. QED
  BY <1>12, <1>13, <1>14 DEF FundsInv

(* sendTransaction records a transfer, or moves no money. *)
LEMMA SendKeeps ==
    ASSUME TypeOK, StoreInv, FundsInv, sendTransaction
    PROVE  FundsInv'
<1> DEFINE tokens == FromUSD(USD[target.group], cached)
<1>1. \/ AmountTooSmall(tokens) \/ BalanceTooSmall(tokens) \/ AllowanceTooSmall(tokens)
      \/ Recorded(tokens)
  BY DEF sendTransaction
<1>2. /\ cached # NoQuote /\ KeepQuote
      /\ UNCHANGED <<market, deposited, granted, ready, promise>>
  BY DEF sendTransaction
<1>3. CASE Recorded(tokens) /\ Create(cached)
  <2>1. CASE pc' = "send"
    <3>1. alone' = IF NothingElseUnderWay(inflight') THEN alone \union {inflight'} ELSE alone
      BY <1>3, <2>1 DEF Recorded, CreateRefused, Return
    <3>2. Covered(tokens) /\ Allowed(tokens)
      BY <1>3 DEF Recorded
    <3>3. QED
      BY <1>2, <1>3, <3>1, <3>2, RecordKeeps
  <2>2. QED
    BY <1>3, <2>1 DEF Create
<1>4. CASE ~(Recorded(tokens) /\ Create(cached))
  <2>1. UNCHANGED <<chainVars, dbVars, alone>> /\ pc' = "stopped"
    BY <1>1, <1>4 DEF AmountTooSmall, BalanceTooSmall, AllowanceTooSmall, Recorded,
                      CreateRefused, Return
  <2>2. QED
    BY <2>1, ShortMoves, NoMoneyMoved DEF FundsInv, MoneyInv
<1>5. QED
  BY <1>3, <1>4

------------------------------------------------------------------------------
(* Mining a transfer *)

(* Whoever is paid now was not paid before. *)
LEMMA MinedIsUnpaid ==
    ASSUME TypeOK, StoreInv, SpenderFixed, NEW t \in pool, t.nonce = chainNonce[t.spender]
    PROVE  /\ t \in Txs /\ t.group \in UnpaidGroups
           /\ t \in PendingRows /\ t \notin mined /\ Minable(t)
<1>1. t \in Txs /\ t.group \in Groups /\ t.nonce \in Nat /\ t.spender \in Spenders
  BY AmountTypes DEF TypeOK, ChainTypeOK
<1>2. rows[t] = TxPending /\ t \notin mined
  BY MinedIsPending
<1>3. t \in PendingRows /\ final[t.group] = NoTx
  BY <1>1, <1>2 DEF PendingRows, StoreInv, AttachedInv
<1>4. ASSUME NEW u \in Paid, u.group = t.group PROVE FALSE
  <2>1. u \in Txs /\ u \in mined /\ u.spender \in Spenders
    BY AmountTypes DEF TypeOK, ChainTypeOK, Paid
  <2>2. rows[u] = TxPending
    BY <1>3, <1>4, <2>1, NoTxIsNotATx DEF StoreInv, SettledInv
  <2>3. u.nonce = t.nonce
    BY <1>3, <1>4, <2>1, <2>2 DEF PendingRows, StoreInv, AttachedInv
  <2>4. u.spender = t.spender
    BY <1>1, <2>1 DEF SpenderFixed
  <2>5. u.nonce < chainNonce[u.spender]
    BY <2>1 DEF StoreInv, ChainInv
  <2>6. QED
    BY <1>1, <2>3, <2>4, <2>5
<1>5. t.group \in UnpaidGroups
  BY <1>1, <1>4 DEF UnpaidGroups, PaidTo
<1>6. Minable(t)
  BY <1>1 DEF Minable
<1>7. QED
  BY <1>1, <1>2, <1>3, <1>5, <1>6

(* What mining does to nonces and to what nodes have. *)
LEMMA MineNonces ==
    ASSUME TypeOK, SpenderFixed, NEW t \in Txs, Mine(t)
    PROVE  /\ mined' = mined \union {t} /\ Sent' \subseteq Sent
           /\ reverted' \in {reverted, reverted \union {t}}
           /\ \A u \in Txs : Minable(u)' => Minable(u) /\ ~(u.nonce <= t.nonce)
<1>1. /\ mined' = mined \union {t}
      /\ reverted' \in {reverted, reverted \union {t}}
  BY DEF Mine
<1>2. Sent' \subseteq Sent
  BY DEF Mine, Sent
<1>3. \A u \in Txs : u.spender = t.spender /\ u.nonce \in Nat /\ u.spender \in Spenders
  BY AmountTypes DEF SpenderFixed
<1>4. chainNonce'[t.spender] = t.nonce + 1 /\ chainNonce[t.spender] = t.nonce
  BY <1>3 DEF Mine, TypeOK, ChainTypeOK
<1>5. \A u \in Txs : Minable(u)' => Minable(u) /\ ~(u.nonce <= t.nonce)
  BY <1>3, <1>4 DEF Minable
<1>6. QED
  BY <1>1, <1>2, <1>5

(* What a payment does to the books. *)
LEMMA PaymentBooks ==
    ASSUME TypeOK, MoneyInv, NEW t \in Txs \ Paid, t.group \in UnpaidGroups,
           Paid' = Paid \union {t}, UNCHANGED <<deposited, granted>>,
           Tokens(t) <= Balance, Tokens(t) <= Allowance
    PROVE  /\ Balance' \in Nat /\ Balance' = Balance - Tokens(t)
           /\ Allowance' \in Nat /\ Allowance' = Allowance - Tokens(t)
           /\ UnpaidGroups' = UnpaidGroups \ {t.group}
           /\ \A p \in Prices : p <= t.price => Owed(p)' <= Owed(p) - Tokens(t) /\ Owed(p)' \in Nat
<1>1. /\ Paid \in SUBSET Txs /\ IsFiniteSet(Paid) /\ TokensOf(Paid) \in Nat
      /\ Balance \in Nat /\ Allowance \in Nat /\ deposited \in Nat /\ granted \in Nat
  BY Books
<1>2. Tokens(t) \in Nat
  BY AmountTypes
<1>3. TokensOf(Paid)' = TokensOf(Paid) + Tokens(t)
  <2>1. TokensOf(Paid)' = TokensOf(Paid \union {t})
    BY DEF TokensOf, Tokens
  <2>2. QED
    BY <1>1, <2>1, PaidTokens
<1>4. Balance' \in Nat /\ Balance' = Balance - Tokens(t)
  BY <1>1, <1>2, <1>3 DEF Balance
<1>5. Allowance' \in Nat /\ Allowance' = Allowance - Tokens(t)
  BY <1>1, <1>2, <1>3 DEF Allowance
<1>6. UnpaidGroups' = UnpaidGroups \ {t.group}
  BY DEF UnpaidGroups, PaidTo
<1>7. ASSUME NEW p \in Prices, p <= t.price
      PROVE  Owed(p)' <= Owed(p) - Tokens(t) /\ Owed(p)' \in Nat
  <2> DEFINE f == [g \in Groups |-> FromUSD(USD[g], p)]
             rest == SumFunctionOnSet(f, UnpaidGroups \ {t.group})
  <2>1. UnpaidGroups \in SUBSET Groups
    BY DEF UnpaidGroups
  <2>2. Owed(p) = FromUSD(USD[t.group], p) + rest /\ rest \in Nat
    BY <2>1, OwedToEach DEF Owed
  <2>3. Owed(p)' = rest
    BY <1>6 DEF Owed
  <2>4. Tokens(t) <= FromUSD(USD[t.group], p) /\ FromUSD(USD[t.group], p) \in Nat
    <3>1. /\ p \in Nat \ {0} /\ t.price \in Nat \ {0} /\ USD[t.group] \in Nat
      BY AmountTypes
    <3>2. USD[t.group] \div t.price <= USD[t.group] \div p
      <4>1. USD[t.group] <= USD[t.group]
        BY <3>1
      <4>2. QED
        BY ONLY <1>7, <3>1, <4>1, QuotientGrows
    <3>3. USD[t.group] \div p \in Nat
      BY <3>1, Quotient
    <3>4. QED
      BY <3>2, <3>3 DEF Tokens, FromUSD
  <2> HIDE DEF f, rest
  <2>5. QED
    BY <1>2, <2>2, <2>3, <2>4
<1>8. QED
  BY <1>4, <1>5, <1>6, <1>7

LEMMA MineKeeps ==
    ASSUME TypeOK, StoreInv, SpenderFixed, FundsInv, NEW t \in Txs, Mine(t), ReceiptOf(t),
           UNCHANGED <<rows, pc, target, inflight, fundVars>>
    PROVE  FundsInv'
<1> USE DEF FundsInv
<1>1. t \in pool /\ t.nonce = chainNonce[t.spender] /\ t \in Sent
  BY DEF Mine, Sent
<1>2. /\ t.group \in UnpaidGroups /\ t \in PendingRows /\ t \notin mined /\ Minable(t)
      /\ rows[t] = TxPending
  BY <1>1, MinedIsUnpaid DEF PendingRows
<1>3. /\ mined' = mined \union {t} /\ Sent' \subseteq Sent
      /\ reverted' \in {reverted, reverted \union {t}}
      /\ \A u \in Txs : Minable(u)' => Minable(u) /\ ~(u.nonce <= t.nonce)
  BY MineNonces
<1>4. UNCHANGED <<rows, pc, target, inflight, PendingRows>>
  BY DEF PendingRows
<1>5. UNCHANGED <<market, cached, deposited, granted, ready, promise, alone>>
  BY DEF fundVars
<1>6. alone \subseteq Txs /\ reverted \subseteq mined /\ \A u \in Sent : u \in Txs
  BY DEF MoneyInv, FundsTypeOK, TypeOK, ChainTypeOK, Sent
<1>7. promise # NoQuote => \A u \in Sent' : Minable(u)' => promise <= u.price
  BY <1>3, <1>6 DEF PromiseInv
<1>8. IsFiniteSet(mined')
  BY <1>3, FS_AddElement DEF MoneyInv
<1>9. CASE t \in Paid'
  <2>1. Tokens(t) <= Balance /\ Tokens(t) <= Allowance
    BY <1>9 DEF ReceiptOf
  <2>2. reverted' = reverted
    BY <1>3, <1>9 DEF Paid
  <2>3. Paid' = Paid \union {t} /\ t \notin Paid
    BY <1>2, <1>3, <1>6, <2>2 DEF Paid
  <2>4. /\ Balance' \in Nat /\ Balance' = Balance - Tokens(t)
        /\ Allowance' \in Nat /\ Allowance' = Allowance - Tokens(t)
        /\ \A p \in Prices :
             p <= t.price => Owed(p)' <= Owed(p) - Tokens(t) /\ Owed(p)' \in Nat
    BY <1>2, <1>5, <2>1, <2>3, PaymentBooks
  <2>5. MoneyInv'
    <3>1. ready' \in BOOLEAN
      BY <1>5 DEF MoneyInv, FundsTypeOK
    <3>2. QED
      BY <1>5, <1>8, <2>4, <3>1 DEF MoneyInv, FundsTypeOK
  <2>6. AloneInv'
    <3> SUFFICES ASSUME NEW u \in alone
                 PROVE  /\ rows[u] # "none" /\ u \notin reverted
                        /\ rows[u] = TxPending =>
                             /\ \A v \in PendingRows : u.nonce <= v.nonce
                             /\ pc = "create" => u.nonce <= target.nonce
                             /\ ~Minable(u)'
      BY <1>4, <1>5, <2>2 DEF AloneInv
    <3>1. rows[u] = TxPending => u.nonce <= t.nonce
      BY <1>2 DEF AloneInv
    <3>2. QED
      BY <1>3, <1>6, <3>1 DEF AloneInv
  <2>7. PromiseInv'
    <3> SUFFICES ASSUME promise # NoQuote PROVE PromiseInv'
      BY <1>5 DEF PromiseInv
    <3>1. promise \in Prices /\ promise <= t.price
      BY <1>1, <1>2 DEF PromiseInv, MoneyInv, FundsTypeOK
    <3>2. /\ Owed(promise)' <= Owed(promise) - Tokens(t) /\ Owed(promise)' \in Nat
      BY <1>5, <2>4, <3>1
    <3>3. /\ Owed(promise) \in Nat /\ Balance \in Nat /\ Allowance \in Nat /\ Tokens(t) \in Nat
      BY <3>1, Books, AmountTypes
    <3>4. Owed(promise) <= Balance /\ Owed(promise) <= Allowance
      BY DEF PromiseInv
    <3>5. Owed(promise)' <= Balance' /\ Owed(promise)' <= Allowance'
      BY <2>4, <3>2, <3>3, <3>4
    <3>6. QED
      BY <1>4, <1>5, <1>7, <3>5 DEF PromiseInv
  <2>8. QED
    BY <2>5, <2>6, <2>7
<1>10. CASE t \notin Paid'
  <2>1. ~(Tokens(t) <= Balance /\ Tokens(t) <= Allowance)
    BY <1>10 DEF ReceiptOf
  <2>2. t \notin alone
    BY <1>2, <2>1 DEF AloneInv
  <2>3. Paid' = Paid /\ reverted' \subseteq reverted \union {t}
    BY <1>2, <1>3, <1>6, <1>10 DEF Paid
  <2>4. UNCHANGED <<Balance, Allowance, UnpaidGroups>>
    BY <1>5, <2>3 DEF Balance, Allowance, UnpaidGroups, PaidTo
  <2>5. MoneyInv'
    <3>1. ready' \in BOOLEAN
      BY <1>5 DEF MoneyInv, FundsTypeOK
    <3>2. QED
      BY <1>5, <1>8, <2>4, <3>1 DEF MoneyInv, FundsTypeOK
  <2>6. AloneInv'
    <3> SUFFICES ASSUME NEW u \in alone
                 PROVE  /\ rows[u] # "none" /\ u \notin reverted'
                        /\ rows[u] = TxPending =>
                             /\ \A v \in PendingRows : u.nonce <= v.nonce
                             /\ pc = "create" => u.nonce <= target.nonce
                             /\ Minable(u)' => Tokens(u) <= Balance /\ Tokens(u) <= Allowance
      BY <1>4, <1>5, <2>4 DEF AloneInv, Tokens
    <3>1. u # t /\ u \in Txs
      BY <1>6, <2>2
    <3>2. QED
      BY <1>3, <2>3, <3>1 DEF AloneInv
  <2>7. PromiseInv'
    <3>1. \A p : Owed(p)' = Owed(p)
      BY <2>4 DEF Owed
    <3>2. QED
      BY <1>4, <1>5, <1>7, <2>4, <3>1 DEF PromiseInv
  <2>8. QED
    BY <2>5, <2>6, <2>7
<1>11. QED
  BY <1>9, <1>10

LEMMA NetworkKeeps ==
    ASSUME TypeOK, StoreInv, SpenderFixed, FundsInv, NetworkMoves
    PROVE  FundsInv'
<1>1. PICK t \in Txs : Mine(t) \/ Evict(t) \/ Reappear(t)
  BY DEF NetworkMoves, ChainStep, ChainNext
<1>2. UNCHANGED <<rows, pc, target, inflight, fundVars>>
  BY DEF NetworkMoves, ChainStep, dbVars, runVars
<1>3. CASE Mine(t)
  <2>1. t \in mined' \ mined
    <3>1. t \in pool /\ t.nonce = chainNonce[t.spender] /\ mined' = mined \union {t}
      BY <1>3 DEF Mine
    <3>2. QED
      BY <3>1, MinedIsUnpaid
  <2>2. ReceiptOf(t)
    BY <2>1 DEF NetworkMoves
  <2>3. QED
    BY <1>2, <1>3, <2>2, MineKeeps
<1>4. CASE Evict(t) \/ Reappear(t)
  <2>1. UNCHANGED <<chainNonce, mined, reverted>> /\ Sent' \subseteq Sent
    BY <1>4 DEF Evict, Reappear, Sent
  <2>2. ready' \in BOOLEAN
    BY <1>2 DEF fundVars, FundsInv, MoneyInv, FundsTypeOK
  <2>3. MovesNoMoney
    BY <1>2, <2>1, <2>2 DEF MovesNoMoney, PendingRows, fundVars
  <2>4. QED
    BY <2>3, NoMoneyMoved
<1>5. QED
  BY <1>1, <1>3, <1>4

------------------------------------------------------------------------------
(* The invariant *)

LEMMA FundsStart == FundsInit => FundsInv
<1> SUFFICES ASSUME FundsInit PROVE FundsInv
  OBVIOUS
<1>1. mined = {} /\ alone = {} /\ promise = NoQuote /\ deposited = Deposit
  BY DEF FundsInit, Init, ChainInit
<1>2. Paid = {}
  BY <1>1 DEF Paid
<1>3. TokensOf(Paid) = 0
  BY <1>2, SumOfNone DEF TokensOf
<1>4. Balance \in Nat /\ Allowance \in Nat
  BY <1>1, <1>3, FundsAssumption DEF FundsInit, Balance, Allowance
<1>5. ready \in BOOLEAN
  BY DEF FundsInit
<1>6. MoneyInv
  BY <1>1, <1>4, <1>5, FS_EmptySet DEF FundsInit, MoneyInv, FundsTypeOK
<1>7. QED
  BY <1>1, <1>6 DEF FundsInv, AloneInv, PromiseInv

LEMMA FundsNextInv ==
    ASSUME TypeOK, StoreInv, RunInv, SpenderFixed, FundsInv, [FundsNext]_<<vars, fundVars>>
    PROVE  FundsInv'
<1>1. FundsTypeOK
  BY DEF FundsInv, MoneyInv
<1>2. ASSUME NEW price \in Prices, MarketMoves(price) PROVE FundsInv'
  BY <1>2, MarketKeeps
<1>3. ASSUME NEW s \in Spenders, NEW d \in Drains, Run(s, d) PROVE FundsInv'
  BY <1>1, <1>3, RunMoves, NoMoneyMoved
<1>4. CASE OtherStep
  BY <1>1, <1>4, OtherMoves, NoMoneyMoved
<1>5. CASE UNCHANGED <<vars, fundVars>>
  <2>1. UNCHANGED vars /\ UNCHANGED <<market, cached, deposited, granted, ready, promise, alone>>
    BY <1>5 DEF fundVars
  <2>2. UNCHANGED <<chainNonce, mined, reverted, Sent, rows, PendingRows, pc, target, inflight>>
    BY <2>1, SamePipeline
  <2>3. ready' \in BOOLEAN
    BY <1>1, <2>1 DEF FundsTypeOK
  <2>4. MovesNoMoney
    BY <2>1, <2>2, <2>3 DEF MovesNoMoney
  <2>5. QED
    BY <2>4, NoMoneyMoved
<1>6. QED
  BY <1>2, <1>3, <1>4, <1>5, TopUpKeeps, NetworkKeeps, QuoteKeeps, PreviewKeeps, SendKeeps
  DEF FundsNext

(* FundsInv is an invariant of every run of one paying account, together   *)
(* with the invariant of the pipeline: for any payouts, prices, deposits   *)
(* and allowances, whatever the market and the network do, and in          *)
(* particular neither the balance nor the allowance is ever overdrawn.     *)
THEOREM FundsInvCorrect == SpenderFixed => (FundsSpec => [](TypeOK /\ PipelineInv /\ FundsInv))
<1> SUFFICES ASSUME SpenderFixed PROVE FundsSpec => [](TypeOK /\ PipelineInv /\ FundsInv)
  OBVIOUS
<1> DEFINE Inv == TypeOK /\ StoreInv /\ RunInv /\ FundsInv
<1>1. FundsInit => Inv
  BY TypeInit, InvInit, FundsStart DEF FundsInit
<1>2. Inv /\ [FundsNext]_<<vars, fundVars>> => Inv'
  <2> SUFFICES ASSUME Inv, [FundsNext]_<<vars, fundVars>> PROVE Inv'
    OBVIOUS
  <2>1. [Next]_vars \/ StopsShort
    BY FundsStepIsPipelineStep DEF FundsInv, MoneyInv
  <2>2. TypeOK' /\ StoreInv' /\ RunInv'
    BY <2>1, FundsKeepPipeline
  <2>3. FundsInv'
    BY FundsNextInv
  <2>4. QED
    BY <2>2, <2>3
<1>3. Inv => TypeOK /\ PipelineInv /\ FundsInv
  BY DEF StoreInv, RunInv, PipelineInv
<1>4. QED
  BY <1>1, <1>2, <1>3, PTL DEF FundsSpec

(* A transfer that was alone under way when balance and allowance were     *)
(* checked never reverts: what sendTransaction checks for one transfer at  *)
(* a time is enough for it, whatever else happens before it is mined.      *)
THEOREM AloneSucceeds == SpenderFixed => (FundsSpec => []AloneNeverReverts)
<1> SUFFICES ASSUME SpenderFixed PROVE FundsSpec => []AloneNeverReverts
  OBVIOUS
<1>1. TypeOK /\ PipelineInv /\ FundsInv => AloneNeverReverts
  BY DEF FundsInv, AloneInv, AloneNeverReverts
<1>2. QED
  BY <1>1, FundsInvCorrect, PTL

------------------------------------------------------------------------------
(* What payees receive *)

LEMMA PaymentWorth ==
    ASSUME NEW t \in Txs
    PROVE  /\ Tokens(t) * t.price \in Nat
           /\ Tokens(t) * t.price <= USD[t.group]
           /\ USD[t.group] - Tokens(t) * t.price < t.price
<1> DEFINE a == USD[t.group]
           p == t.price
<1>1. a \in Nat /\ p \in Nat \ {0} /\ Tokens(t) = a \div p
  BY AmountTypes DEF Tokens, FromUSD
<1> HIDE DEF a, p
<1> DEFINE q == a \div p
<1>2. q \in Nat /\ p * q <= a /\ a < p * q + p
  BY <1>1, Quotient
<1> HIDE DEF q
<1>3. p * q = q * p /\ q * p \in Nat
  BY <1>1, <1>2
<1>4. q * p <= a /\ a - q * p < p
  BY <1>1, <1>2, <1>3
<1>5. QED
  BY <1>1, <1>3, <1>4 DEF a, p, q

LEMMA OnePaymentWorth ==
    ASSUME TypeOK, PipelineInv, SpenderFixed
    PROVE  WorthPaid
<1> SUFFICES ASSUME NEW g \in Groups
             PROVE  /\ ReceivedUSD(g) <= USD[g]
                    /\ final[g] # NoTx => USD[g] - ReceivedUSD(g) < final[g].price
  BY DEF WorthPaid
<1> DEFINE f == [t \in Txs |-> Tokens(t) * t.price]
           payments == {t \in Paid : t.group = g}
<1>1. ReceivedUSD(g) = SumFunctionOnSet(f, payments)
  BY DEF ReceivedUSD
<1>2. \A t \in payments : t \in Txs /\ t.group = g /\ \A u \in payments : u = t
  BY InvGivesSafety DEF NoDoublePay, TypeOK, ChainTypeOK, Paid
<1>3. final[g] # NoTx => final[g] \in payments
  BY InvGivesSafety DEF FinalIsPaid
<1>4. \A t \in Txs : f[t] = Tokens(t) * t.price
  OBVIOUS
<1> HIDE DEF f, payments
<1>5. CASE payments = {}
  <2>1. ReceivedUSD(g) = 0
    BY <1>1, <1>5, SumOfNone
  <2>2. QED
    BY <1>3, <1>5, <2>1, AmountTypes
<1>6. ASSUME NEW t \in payments
      PROVE  /\ ReceivedUSD(g) <= USD[g]
             /\ final[g] # NoTx => USD[g] - ReceivedUSD(g) < final[g].price
  <2>1. payments = {t} /\ t \in Txs /\ t.group = g /\ (final[g] # NoTx => final[g] = t)
    BY <1>2, <1>3
  <2>2. f[t] = Tokens(t) * t.price /\ f[t] \in Nat
    BY <1>4, <2>1, PaymentWorth
  <2>3. ReceivedUSD(g) = Tokens(t) * t.price
    BY <1>1, <2>1, <2>2, SumOfOne
  <2>4. QED
    BY <2>1, <2>3, PaymentWorth
<1>7. QED
  BY <1>5, <1>6

(* No payee receives more than the USD of the file at the price paid, and  *)
(* a payout that is final falls short by less than one token: rounding     *)
(* down, one payment per group and the final transaction being that        *)
(* payment, for any amounts and prices.                                    *)
THEOREM WorthIsPaid == SpenderFixed => (FundsSpec => []WorthPaid)
<1> SUFFICES ASSUME SpenderFixed PROVE FundsSpec => []WorthPaid
  OBVIOUS
<1>1. TypeOK /\ PipelineInv /\ FundsInv => WorthPaid
  BY OnePaymentWorth
<1>2. QED
  BY <1>1, FundsInvCorrect, PTL

------------------------------------------------------------------------------
(* What the operator was promised *)

(* What is owed to an unpaid group at a price no lower than the promised   *)
(* one is there.                                                           *)
LEMMA PromisedIsThere ==
    ASSUME TypeOK, FundsInv, promise # NoQuote, NEW g \in UnpaidGroups,
           NEW p \in Prices, promise <= p
    PROVE  FromUSD(USD[g], p) <= Balance /\ FromUSD(USD[g], p) <= Allowance
<1>1. promise \in Prices /\ g \in Groups /\ UnpaidGroups \in SUBSET Groups
  BY DEF FundsInv, MoneyInv, FundsTypeOK, UnpaidGroups
<1>2. FromUSD(USD[g], promise) <= Owed(promise)
  BY <1>1, OwedToEach DEF Owed
<1>3. FromUSD(USD[g], p) <= FromUSD(USD[g], promise)
  <2>1. USD[g] \in Nat /\ p \in Nat \ {0} /\ promise \in Nat \ {0} /\ USD[g] <= USD[g]
    BY <1>1, AmountTypes
  <2>2. USD[g] \div p <= USD[g] \div promise
    BY <2>1, QuotientGrows
  <2>3. QED
    BY <2>2 DEF FromUSD
<1>4. /\ FromUSD(USD[g], p) \in Nat /\ FromUSD(USD[g], promise) \in Nat
      /\ Owed(promise) \in Nat /\ Balance \in Nat /\ Allowance \in Nat
  BY <1>1, AmountTypes, Books DEF FundsInv
<1>5. Owed(promise) <= Balance /\ Owed(promise) <= Allowance
  BY DEF FundsInv, PromiseInv
<1>6. QED
  BY <1>2, <1>3, <1>4, <1>5

LEMMA NothingReverts ==
    ASSUME TypeOK, StoreInv, RunInv, SpenderFixed, FundsInv, promise # NoQuote,
           [FundsNext]_<<vars, fundVars>>
    PROVE  reverted' = reverted
<1>1. FundsTypeOK
  BY DEF FundsInv, MoneyInv
<1>2. CASE NetworkMoves
  <2>1. PICK t \in Txs : Mine(t) \/ Evict(t) \/ Reappear(t)
    BY <1>2 DEF NetworkMoves, ChainStep, ChainNext
  <2>2. CASE Mine(t)
    <3>1. t \in pool /\ t.nonce = chainNonce[t.spender] /\ t \in Sent
      BY <2>2 DEF Mine, Sent
    <3>2. t.group \in UnpaidGroups /\ t \notin mined /\ Minable(t)
      BY <3>1, MinedIsUnpaid
    <3>3. mined' = mined \union {t} /\ reverted' \in {reverted, reverted \union {t}}
      BY <2>2 DEF Mine
    <3>4. t.price \in Prices /\ promise <= t.price
      BY <3>1, <3>2, AmountTypes DEF FundsInv, PromiseInv
    <3>5. Tokens(t) <= Balance /\ Tokens(t) <= Allowance
      BY <3>2, <3>4, PromisedIsThere DEF Tokens
    <3>6. t \in Paid'
      BY <1>2, <3>2, <3>3, <3>5 DEF NetworkMoves, ReceiptOf
    <3>7. QED
      BY <3>3, <3>6 DEF Paid
  <2>3. CASE Evict(t) \/ Reappear(t)
    BY <2>3 DEF Evict, Reappear
  <2>4. QED
    BY <2>1, <2>2, <2>3
<1>3. CASE sendTransaction
  BY <1>3 DEF sendTransaction, AmountTooSmall, BalanceTooSmall, AllowanceTooSmall,
              Recorded, Create, CreateRefused, chainVars
<1>4. CASE OtherStep
  BY <1>1, <1>4, OtherMoves DEF MovesNoMoney
<1>5. CASE \E s \in Spenders, d \in Drains : Run(s, d)
  BY <1>1, <1>5, RunMoves DEF MovesNoMoney
<1>6. CASE UNCHANGED vars
  BY <1>6, SamePipeline
<1>7. QED
  BY <1>2, <1>3, <1>4, <1>5, <1>6
  DEF FundsNext, MarketMoves, TopsUp, Expires, Preview, getStorjPrice

(* Only the checks of sendTransaction end a run for want of money. *)
LEMMA ShortIsChecked ==
    ASSUME result # "short", result' = "short", [FundsNext]_<<vars, fundVars>>
    PROVE  /\ sendTransaction
           /\ LET tokens == FromUSD(USD[target.group], cached)
              IN  BalanceTooSmall(tokens) \/ AllowanceTooSmall(tokens)
<1>1. CASE sendTransaction
  BY <1>1 DEF sendTransaction, AmountTooSmall, BalanceTooSmall, AllowanceTooSmall,
              Recorded, Create, CreateRefused, Return
<1>2. CASE CheckStep
  BY <1>2 DEF CheckStep, Query, CheckError, CheckPending, CheckDroppedTooYoung, CheckDropped,
              CheckFinal, CheckEnds, BreakCheckLoop, Return
<1>3. CASE FillStep
  BY <1>3 DEF FillStep, Step, FillFromLast, FillFromChain, Fill, FillEnds, Return
<1>4. CASE SendAccepted \/ SendRefused \/ Abort \/ \E t \in Txs : Age(t)
  BY <1>4 DEF SendAccepted, SendRefused, Abort, Age
<1>5. CASE \E s \in Spenders, d \in Drains : Run(s, d)
  BY <1>5 DEF Run, Start
<1>6. CASE NetworkMoves
  BY <1>6 DEF NetworkMoves, ChainStep
<1>7. CASE UNCHANGED vars
  BY <1>7 DEF vars
<1>8. QED
  BY <1>1, <1>2, <1>3, <1>4, <1>5, <1>6, <1>7
  DEF FundsNext, OtherStep, MarketMoves, TopsUp, Expires, Preview, getStorjPrice

LEMMA ShortIsPaidAgain ==
    ASSUME TypeOK, FundsInv, promise # NoQuote, result # "short", result' = "short",
           [FundsNext]_<<vars, fundVars>>
    PROVE  \E t \in Paid : t.group = target.group
<1>1. /\ pc = "create" /\ cached # NoQuote
      /\ \/ ~(FromUSD(USD[target.group], cached) <= Balance)
         \/ ~(FromUSD(USD[target.group], cached) <= Allowance)
  BY ShortIsChecked DEF sendTransaction, BalanceTooSmall, AllowanceTooSmall, Covered, Allowed
<1>2. target.group \in Groups /\ cached \in Prices /\ promise <= cached
  BY <1>1 DEF TypeOK, FundsInv, MoneyInv, FundsTypeOK, PromiseInv
<1>3. target.group \notin UnpaidGroups
  BY <1>1, <1>2, PromisedIsThere
<1>4. QED
  BY <1>2, <1>3 DEF UnpaidGroups, PaidTo

(* What the operator confirmed holds: while the price does not fall below  *)
(* the previewed one, no transfer reverts, and a run stops for want of     *)
(* money only over a group that is paid already.                           *)
THEOREM PreviewIsKept == SpenderFixed => (FundsSpec => PreviewHolds)
<1> SUFFICES ASSUME SpenderFixed PROVE FundsSpec => PreviewHolds
  OBVIOUS
<1>1. TypeOK /\ PipelineInv /\ FundsInv /\ [FundsNext]_<<vars, fundVars>> => PromiseKept
  <2> SUFFICES ASSUME TypeOK, PipelineInv, FundsInv, [FundsNext]_<<vars, fundVars>>,
                      promise # NoQuote
               PROVE  /\ reverted' = reverted
                      /\ result # "short" /\ result' = "short" =>
                           \E t \in Paid : t.group = target.group
    BY DEF PromiseKept
  <2>1. StoreInv /\ RunInv
    BY DEF PipelineInv, StoreInv, RunInv
  <2>2. QED
    BY <2>1, NothingReverts, ShortIsPaidAgain
<1>2. QED
  BY <1>1, FundsInvCorrect, PTL DEF FundsSpec, PreviewHolds

==============================================================================
