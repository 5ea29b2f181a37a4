------------------------- MODULE CostEntriesProofs -------------------------
(* What the totals of the cost ledger do when one term changes, for any set  *)
(* of requests.                                                              *)
EXTENDS CostEntries, FiniteSetTheorems, FunctionTheorems, TLAPS

-----------------------------------------------------------------------------
(* Totals.                                                                   *)

(* The coins laid out for finitely many requests can be counted.             *)
LEMMA CoinsFinite ==
    ASSUME NEW f \in [RequestId -> Nat]
    PROVE  IsFiniteSet(Coins(f)) /\ Total(f) \in Nat
<1> DEFINE piles == {{id} \X (1 .. f[id]) : id \in RequestId}
           lay == [id \in RequestId |-> {id} \X (1 .. f[id])]
<1>1. lay \in Surjection(RequestId, piles)
  BY DEF Surjection
<1>2. IsFiniteSet(piles)
  BY <1>1, FS_Surjection, RequestIdAssumption
<1>3. \A pile \in piles : IsFiniteSet(pile)
  <2>1. SUFFICES ASSUME NEW id \in RequestId
                 PROVE  IsFiniteSet({id} \X (1 .. f[id]))
    OBVIOUS
  <2>2. IsFiniteSet({id})
    BY FS_Singleton
  <2>3. f[id] \in Nat
    OBVIOUS
  <2>4. IsFiniteSet(1 .. f[id])
    BY <2>3, FS_Interval
  <2> QED BY <2>2, <2>4, FS_Product
<1>4. IsFiniteSet(UNION piles)
  BY <1>2, <1>3, FS_UNION
<1> QED BY <1>4, FS_CardinalityType DEF Coins, Total

(* A total grows with every one of its terms.                                *)
LEMMA TotalMonotone ==
    ASSUME NEW f \in [RequestId -> Nat], NEW g \in [RequestId -> Nat],
           \A id \in RequestId : f[id] <= g[id]
    PROVE  Total(f) <= Total(g)
<1>1. \A id \in RequestId : 1 .. f[id] \subseteq 1 .. g[id]
  OBVIOUS
<1>2. Coins(f) \subseteq Coins(g)
  BY <1>1 DEF Coins
<1> QED BY <1>2, CoinsFinite, FS_Subset DEF Total

(* Raising a term that was zero by n raises the total by n.                  *)
LEMMA TotalRaise ==
    ASSUME NEW f \in [RequestId -> Nat], NEW g \in [RequestId -> Nat],
           NEW r \in RequestId, f[r] = 0,
           \A id \in RequestId \ {r} : g[id] = f[id]
    PROVE  Total(g) = Total(f) + g[r]
<1> DEFINE pile == {r} \X (1 .. g[r])
<1>1. Coins(g) = Coins(f) \cup pile
  <2>1. 1 .. f[r] = {}
    OBVIOUS
  <2> QED BY <2>1 DEF Coins
<1>2. Coins(f) \cap pile = {}
  <2>1. 1 .. f[r] = {}
    OBVIOUS
  <2> QED BY <2>1 DEF Coins
<1>3. IsFiniteSet(pile) /\ Cardinality(pile) = g[r]
  <2>1. IsFiniteSet({r}) /\ Cardinality({r}) = 1
    BY FS_Singleton
  <2>2. g[r] \in Nat
    OBVIOUS
  <2>3. IsFiniteSet(1 .. g[r]) /\ Cardinality(1 .. g[r]) = g[r]
    BY <2>2, FS_Interval
  <2>4. IsFiniteSet(pile) /\ Cardinality(pile) = 1 * g[r]
    BY <2>1, <2>3, FS_Product
  <2> QED BY <2>2, <2>4
<1>4. Cardinality(Coins(g)) = Cardinality(Coins(f)) + g[r] - Cardinality(Coins(f) \cap pile)
  BY <1>1, <1>3, CoinsFinite, FS_Union
<1>5. Cardinality(Coins(f) \cap pile) = 0
  BY <1>2, FS_EmptySet
<1> QED BY <1>4, <1>5, CoinsFinite DEF Total

(* Nothing costs nothing.                                                    *)
LEMMA TotalZero ==
    ASSUME NEW f \in [RequestId -> Nat], \A id \in RequestId : f[id] = 0
    PROVE  Total(f) = 0
<1>1. Coins(f) = {}
  BY DEF Coins
<1> QED BY <1>1, FS_EmptySet DEF Total

(* Equal terms give equal totals.                                            *)
LEMMA TotalSame ==
    ASSUME NEW f, NEW g, \A id \in RequestId : f[id] = g[id]
    PROVE  Total(f) = Total(g)
<1>1. Coins(f) = Coins(g)
  BY DEF Coins
<1> QED BY <1>1 DEF Total

(* A term that changes changes the total by as much.                         *)
LEMMA TotalChange ==
    ASSUME NEW f \in [RequestId -> Nat], NEW g \in [RequestId -> Nat], NEW r \in RequestId,
           \A id \in RequestId \ {r} : g[id] = f[id]
    PROVE  Total(g) + f[r] = Total(f) + g[r]
<1> DEFINE h == [id \in RequestId |-> IF id = r THEN 0 ELSE f[id]]
<1>1. h \in [RequestId -> Nat] /\ h[r] = 0
  OBVIOUS
<1>2. (\A id \in RequestId \ {r} : f[id] = h[id]) /\ (\A id \in RequestId \ {r} : g[id] = h[id])
  OBVIOUS
<1> HIDE DEF h
<1>3. Total(f) = Total(h) + f[r]
  BY <1>1, <1>2, TotalRaise
<1>4. Total(g) = Total(h) + g[r]
  BY <1>1, <1>2, TotalRaise
<1>5. Total(h) \in Nat /\ f[r] \in Nat /\ g[r] \in Nat
  BY <1>1, CoinsFinite
<1> QED BY <1>3, <1>4, <1>5

(* No term is larger than the total.                                         *)
LEMMA TotalBound ==
    ASSUME NEW f \in [RequestId -> Nat], NEW r \in RequestId
    PROVE  f[r] <= Total(f)
<1> DEFINE h == [id \in RequestId |-> IF id = r THEN 0 ELSE f[id]]
<1>1. h \in [RequestId -> Nat] /\ h[r] = 0 /\ \A id \in RequestId \ {r} : f[id] = h[id]
  OBVIOUS
<1> HIDE DEF h
<1>2. Total(f) = Total(h) + f[r] /\ Total(h) \in Nat /\ f[r] \in Nat
  BY <1>1, TotalRaise, CoinsFinite
<1> QED BY <1>2
=============================================================================
