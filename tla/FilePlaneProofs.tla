--------------------------- MODULE FilePlaneProofs ---------------------------
(***************************************************************************)
(* Proofs about FilePlane for any finite sets of tokens and requests and   *)
(* any limits: exact counting of promises and of bytes, the ceiling, the   *)
(* byte limit, single redemption, newest ticket only, nothing stale used,  *)
(* nothing renewed.                                                        *)
(*                                                                         *)
(* The byte budget is a sum over a set.  The induction theorems of the     *)
(* libraries take an operator and cannot be cited here, so the facts about *)
(* sums are proved by smallest counterexample: a non-empty set of subsets  *)
(* of a finite set has one that contains no other.                         *)
(***************************************************************************)
EXTENDS FilePlane, FiniteSetTheorems, WellFoundedInduction, TLAPS

(* The sum of f over S, and the table of sums by which it is defined.      *)
Total(f, S) == MapThenSumSet(LAMBDA x : f[x], S)
Pick(T) == CHOOSE x \in T : TRUE
Tallies(g, f, S) ==
    g = [T \in SUBSET S |-> IF T = {} THEN 0 ELSE f[Pick(T)] + g[T \ {Pick(T)}]]

(* Among subsets of a finite set, some one contains no other.              *)
LEMMA SmallestSubset ==
    ASSUME NEW S, IsFiniteSet(S), NEW Bad \in SUBSET (SUBSET S), Bad # {}
    PROVE  \E T \in Bad : \A U \in Bad : U \subseteq T => U = T
<1>1. FiniteSubsetsOf(S) = SUBSET S
    BY FS_FiniteSubsetsOfFinite
<1>2. IsWellFoundedOn(StrictSubsetOrdering(S), SUBSET S)
    BY <1>1, FS_StrictSubsetOrderingWellFounded
<1>3. PICK T \in Bad : \A U \in Bad : ~ (<<U, T>> \in StrictSubsetOrdering(S))
    BY <1>2, WFMin, Zenon
<1> QED
    BY <1>3 DEF StrictSubsetOrdering

(* The fold of the community modules takes its sum from such a table.      *)
LEMMA TotalIsTally ==
    ASSUME NEW f, NEW S
    PROVE  Total(f, S) = (CHOOSE g : Tallies(g, f, S))[S]
BY DEF Total, MapThenSumSet, MapThenFoldSet, Tallies, Pick

(* What a table says of a set depends on its smaller sets alone. *)
LEMMA TallyOf ==
    ASSUME NEW f, NEW S, NEW g, Tallies(g, f, S), NEW T \in SUBSET S
    PROVE  /\ g[{}] = 0
           /\ T # {} => /\ Pick(T) \in T
                        /\ T \ {Pick(T)} \in SUBSET T /\ T \ {Pick(T)} # T
                        /\ g[T] = f[Pick(T)] + g[T \ {Pick(T)}]
<1>0. g[{}] = 0
    BY DEF Tallies
<1>1. g[T] = IF T = {} THEN 0 ELSE f[Pick(T)] + g[T \ {Pick(T)}]
    BY DEF Tallies
<1>2. T # {} => Pick(T) \in T
    BY DEF Pick
<1> QED
    BY <1>0, <1>1, <1>2

(* Tables over a set and over a part of it say the same of the part.       *)
LEMMA TalliesAgree ==
    ASSUME NEW f, NEW S, IsFiniteSet(S), NEW R \in SUBSET S,
           NEW g, Tallies(g, f, S), NEW h, Tallies(h, f, R)
    PROVE  \A T \in SUBSET R : g[T] = h[T]
<1> DEFINE Bad == {T \in SUBSET R : g[T] # h[T]}
<1>1. SUFFICES Bad = {}
    OBVIOUS
<1>2. SUFFICES ASSUME Bad # {} PROVE FALSE
    OBVIOUS
<1>3. IsFiniteSet(R)
    BY FS_Subset
<1>4. PICK T \in Bad : \A U \in Bad : U \subseteq T => U = T
    <2>1. Bad \in SUBSET (SUBSET R)
        OBVIOUS
    <2> HIDE DEF Bad
    <2> QED
        BY <1>2, <1>3, <2>1, SmallestSubset
<1>5. T \in SUBSET R /\ T \in SUBSET S /\ g[T] # h[T]
    BY <1>4
<1>6. T # {}
    <2>1. g[{}] = 0 /\ h[{}] = 0
        BY <1>5, TallyOf
    <2> QED
        BY <1>5, <2>1
<1>7. /\ T \ {Pick(T)} \in SUBSET T /\ T \ {Pick(T)} # T
      /\ g[T] = f[Pick(T)] + g[T \ {Pick(T)}]
    BY <1>5, <1>6, TallyOf
<1>8. h[T] = f[Pick(T)] + h[T \ {Pick(T)}]
    BY <1>5, <1>6, TallyOf
<1>9. g[T \ {Pick(T)}] = h[T \ {Pick(T)}]
    BY <1>4, <1>5, <1>7
<1> QED
    BY <1>5, <1>7, <1>8, <1>9

(* The table exists, so that Total is what it is meant to be. *)
LEMMA TallyExists ==
    ASSUME NEW f, NEW S, IsFiniteSet(S)
    PROVE  \E g : Tallies(g, f, S)
<1> DEFINE Bad == {T \in SUBSET S : ~ \E g : Tallies(g, f, T)}
<1>1. SUFFICES ASSUME Bad # {} PROVE FALSE
    BY DEF Bad
<1>2. PICK T \in Bad : \A U \in Bad : U \subseteq T => U = T
    <2>1. Bad \in SUBSET (SUBSET S)
        OBVIOUS
    <2> HIDE DEF Bad
    <2> QED
        BY <1>1, <2>1, SmallestSubset
<1>3. T \in SUBSET S /\ ~ \E g : Tallies(g, f, T)
    BY <1>2
<1> DEFINE table(U) == CHOOSE g : Tallies(g, f, U)
<1>4. ASSUME NEW U \in SUBSET T, U # T PROVE Tallies(table(U), f, U)
    <2>1. U \notin Bad
        BY <1>2, <1>4
    <2>2. \E g : Tallies(g, f, U)
        BY <1>3, <2>1
    <2> QED
        BY <2>2
<1> DEFINE sum(U) == table(U)[U]
           whole == [U \in SUBSET T |-> IF U = {} THEN 0 ELSE f[Pick(U)] + sum(U \ {Pick(U)})]
<1>5. ASSUME NEW U \in SUBSET T, U # T PROVE whole[U] = sum(U)
    <2> DEFINE V == U \ {Pick(U)}
    <2> HIDE DEF table
    <2>1. Tallies(table(U), f, U) /\ U \in SUBSET U
        BY <1>4, <1>5
    <2>2. CASE U = {}
        <3>1. table(U)[{}] = 0
            BY <2>1, TallyOf
        <3> QED
            BY <2>2, <3>1
    <2>3. CASE U # {}
        <3>1. V \in SUBSET U /\ V # U /\ table(U)[U] = f[Pick(U)] + table(U)[V]
            BY <2>1, <2>3, TallyOf
        <3>2. Tallies(table(V), f, V) /\ V \in SUBSET V
            BY <1>4, <1>5, <3>1
        <3>3. IsFiniteSet(U)
            BY <1>3, FS_Subset
        <3>4. table(U)[V] = table(V)[V]
            BY <2>1, <3>1, <3>2, <3>3, TalliesAgree
        <3>5. whole[U] = f[Pick(U)] + sum(V)
            BY <2>3
        <3> QED
            BY <3>1, <3>4, <3>5
    <2> QED
        BY <2>2, <2>3
<1>6. Tallies(whole, f, T)
    <2>1. ASSUME NEW U \in SUBSET T, U # {}
          PROVE  whole[U \ {Pick(U)}] = sum(U \ {Pick(U)})
        <3>1. U \ {Pick(U)} \in SUBSET T /\ U \ {Pick(U)} # T
            BY <2>1 DEF Pick
        <3> QED
            BY <1>5, <3>1
    <2> HIDE DEF sum
    <2>2. whole = [U \in SUBSET T |-> IF U = {} THEN 0 ELSE f[Pick(U)] + whole[U \ {Pick(U)}]]
        BY <2>1
    <2> QED
        BY <2>2 DEF Tallies
<1> QED
    BY <1>3, <1>6

(* The recursive equation of the sum. *)
LEMMA TotalUnfolds ==
    ASSUME NEW f, NEW S, IsFiniteSet(S)
    PROVE  /\ S = {} => Total(f, S) = 0
           /\ S # {} => /\ Pick(S) \in S
                        /\ Total(f, S) = f[Pick(S)] + Total(f, S \ {Pick(S)})
<1> DEFINE table(U) == CHOOSE g : Tallies(g, f, U)
<1>1. ASSUME NEW U \in SUBSET S PROVE Tallies(table(U), f, U) /\ Total(f, U) = table(U)[U]
    <2>1. \E g : Tallies(g, f, U)
        BY TallyExists, FS_Subset
    <2> QED
        BY <2>1, TotalIsTally
<1> HIDE DEF table
<1>2. Tallies(table(S), f, S) /\ Total(f, S) = table(S)[S] /\ S \in SUBSET S
    BY <1>1
<1>3. CASE S = {}
    <2>1. table(S)[{}] = 0
        BY <1>2, TallyOf
    <2> QED
        BY <1>2, <1>3, <2>1
<1>4. CASE S # {}
    <2> DEFINE V == S \ {Pick(S)}
    <2>1. V \in SUBSET S /\ V # S /\ Pick(S) \in S /\ table(S)[S] = f[Pick(S)] + table(S)[V]
        BY <1>2, <1>4, TallyOf
    <2>2. Tallies(table(V), f, V) /\ Total(f, V) = table(V)[V] /\ V \in SUBSET V
        BY <1>1, <2>1
    <2>3. table(S)[V] = table(V)[V]
        <3> HIDE DEF V
        <3> QED
            BY <1>2, <2>1, <2>2, TalliesAgree
    <2> QED
        BY <1>2, <1>4, <2>1, <2>2, <2>3
<1> QED
    BY <1>3, <1>4

(* A sum of naturals is a natural. *)
LEMMA TotalIsNat ==
    ASSUME NEW f, NEW S, IsFiniteSet(S), \A x \in S : f[x] \in Nat
    PROVE  \A T \in SUBSET S : Total(f, T) \in Nat
<1> DEFINE Bad == {T \in SUBSET S : Total(f, T) \notin Nat}
<1>1. SUFFICES ASSUME Bad # {} PROVE FALSE
    OBVIOUS
<1>2. PICK T \in Bad : \A U \in Bad : U \subseteq T => U = T
    <2>1. Bad \in SUBSET (SUBSET S)
        OBVIOUS
    <2> HIDE DEF Bad
    <2> QED
        BY <1>1, <2>1, SmallestSubset
<1>3. T \in SUBSET S /\ Total(f, T) \notin Nat /\ IsFiniteSet(T)
    BY <1>2, FS_Subset
<1>4. T # {} /\ Pick(T) \in T /\ Total(f, T) = f[Pick(T)] + Total(f, T \ {Pick(T)})
    <2>1. T # {}
        <3>1. T = {} => Total(f, T) = 0
            BY <1>3, TotalUnfolds
        <3> QED
            BY <1>3, <3>1
    <2> QED
        BY <1>3, <2>1, TotalUnfolds
<1>5. Total(f, T \ {Pick(T)}) \in Nat
    BY <1>2, <1>3, <1>4
<1> QED
    BY <1>3, <1>4, <1>5

(* Any element can be taken out of a sum first. *)
LEMMA TotalTakesOne ==
    ASSUME NEW f, NEW S, IsFiniteSet(S), \A x \in S : f[x] \in Nat
    PROVE  \A T \in SUBSET S : \A x \in T : Total(f, T) = f[x] + Total(f, T \ {x})
<1> DEFINE Bad == {T \in SUBSET S : \E x \in T : Total(f, T) # f[x] + Total(f, T \ {x})}
<1>1. SUFFICES ASSUME Bad # {} PROVE FALSE
    OBVIOUS
<1>2. PICK T \in Bad : \A U \in Bad : U \subseteq T => U = T
    <2>1. Bad \in SUBSET (SUBSET S)
        OBVIOUS
    <2> HIDE DEF Bad
    <2> QED
        BY <1>1, <2>1, SmallestSubset
<1>3. T \in SUBSET S /\ IsFiniteSet(T)
    BY <1>2, FS_Subset
<1>4. PICK x \in T : Total(f, T) # f[x] + Total(f, T \ {x})
    BY <1>2
<1> DEFINE p == Pick(T)
<1>5. p \in T /\ Total(f, T) = f[p] + Total(f, T \ {p})
    BY <1>3, TotalUnfolds
<1>6. p # x
    BY <1>4, <1>5
<1> HIDE DEF p
<1>7. Total(f, T \ {p}) = f[x] + Total(f, (T \ {p}) \ {x})
    BY <1>2, <1>3, <1>5, <1>6
<1>8. Total(f, T \ {x}) = f[p] + Total(f, (T \ {x}) \ {p})
    BY <1>2, <1>3, <1>5, <1>6
<1>9. (T \ {p}) \ {x} = (T \ {x}) \ {p}
    OBVIOUS
<1>10. f[x] \in Nat /\ f[p] \in Nat /\ Total(f, (T \ {x}) \ {p}) \in Nat
    BY <1>3, <1>5, TotalIsNat
<1> QED
    BY <1>4, <1>5, <1>7, <1>8, <1>9, <1>10

(* The sum after some elements were cleared, and the rest left alone. *)
LEMMA TotalCleared ==
    ASSUME NEW f, NEW g, NEW S, NEW E \in SUBSET S, IsFiniteSet(S),
           \A x \in S : f[x] \in Nat,
           \A x \in E : g[x] = 0, \A x \in S \ E : g[x] = f[x]
    PROVE  Total(f, S) = Total(g, S) + Total(f, E)
<1> DEFINE Bad == {T \in SUBSET S : Total(f, T) # Total(g, T) + Total(f, T \cap E)}
<1>1. SUFFICES ASSUME Bad # {} PROVE FALSE
    <2>1. ASSUME Bad = {} PROVE Total(f, S) = Total(g, S) + Total(f, S \cap E)
        BY <2>1
    <2>2. S \cap E = E
        OBVIOUS
    <2> QED
        BY <2>1, <2>2
<1>2. PICK T \in Bad : \A U \in Bad : U \subseteq T => U = T
    <2>1. Bad \in SUBSET (SUBSET S)
        OBVIOUS
    <2> HIDE DEF Bad
    <2> QED
        BY <1>1, <2>1, SmallestSubset
<1>3. T \in SUBSET S /\ IsFiniteSet(T) /\ IsFiniteSet(T \cap E)
    BY <1>2, FS_Subset
<1>0. \A x \in S : g[x] \in Nat
    OBVIOUS
<1>00. Total(f, T) # Total(g, T) + Total(f, T \cap E)
    BY <1>2
<1>4. CASE T = {}
    <2>1. Total(f, {}) = 0 /\ Total(g, {}) = 0
        BY TotalUnfolds, FS_EmptySet
    <2> QED
        BY <1>2, <1>4, <2>1
<1>5. CASE T # {}
    <2>1. PICK x \in T : TRUE
        BY <1>5
    <2> DEFINE U == T \ {x}
    <2>2. U \in SUBSET S /\ U \subseteq T /\ U # T
        BY <1>3
    <2>3. Total(f, U) = Total(g, U) + Total(f, U \cap E)
        BY <1>2, <2>2
    <2>4. Total(f, T) = f[x] + Total(f, U) /\ Total(g, T) = g[x] + Total(g, U)
        BY <1>0, <1>3, TotalTakesOne
    <2>5. /\ Total(f, U) \in Nat /\ Total(g, U) \in Nat /\ Total(f, U \cap E) \in Nat
          /\ f[x] \in Nat /\ g[x] \in Nat
        BY <1>0, <1>3, <2>2, TotalIsNat
    <2>6. CASE x \in E
        <3>1. (T \cap E) \ {x} = U \cap E /\ x \in T \cap E /\ T \cap E \in SUBSET S
            BY <1>3, <2>6
        <3>2. Total(f, T \cap E) = f[x] + Total(f, U \cap E)
            BY <3>1, TotalTakesOne
        <3>3. g[x] = 0
            BY <1>3, <2>6
        <3> HIDE DEF U
        <3> QED
            BY <1>00, <2>3, <2>4, <2>5, <3>2, <3>3
    <2>7. CASE x \notin E
        <3>1. T \cap E = U \cap E /\ g[x] = f[x]
            BY <1>3, <2>7
        <3>2. Total(f, T \cap E) = Total(f, U \cap E)
            BY <3>1
        <3> HIDE DEF U
        <3> QED
            BY <1>00, <2>3, <2>4, <2>5, <3>1, <3>2
    <2> QED
        BY <2>6, <2>7
<1> QED
    BY <1>4, <1>5

(* The sum depends on the summands only. *)
LEMMA TotalSame ==
    ASSUME NEW f, NEW g, NEW S, IsFiniteSet(S),
           \A x \in S : f[x] \in Nat /\ g[x] = f[x]
    PROVE  Total(g, S) = Total(f, S)
<1>1. ASSUME NEW E, E = {} PROVE Total(f, S) = Total(g, S) + Total(f, E)
    <2>0. \A y \in S : f[y] \in Nat
        OBVIOUS
    <2>1. (\A y \in E : g[y] = 0) /\ (\A y \in S \ E : g[y] = f[y])
        BY <1>1
    <2>2. E \in SUBSET S
        BY <1>1
    <2> QED
        BY <2>0, <2>1, <2>2, TotalCleared
<1>2. Total(f, {}) = 0
    BY TotalUnfolds, FS_EmptySet
<1>3. Total(g, S) \in Nat
    BY TotalIsNat
<1>4. Total(f, S) = Total(g, S) + 0
    BY <1>1, <1>2
<1> QED
    BY <1>3, <1>4

(* A sum of zeros is zero. *)
LEMMA TotalOfNothing ==
    ASSUME NEW f, NEW S, IsFiniteSet(S), \A x \in S : f[x] = 0
    PROVE  Total(f, S) = 0
<1>1. (\A x \in S : f[x] \in Nat) /\ S \in SUBSET S
    OBVIOUS
<1>2. /\ \A x \in S : f[x] = 0
      /\ \A x \in S \ S : f[x] = f[x]
    OBVIOUS
<1>3. Total(f, S) = Total(f, S) + Total(f, S)
    BY <1>1, <1>2, TotalCleared
<1>4. Total(f, S) \in Nat
    BY <1>1, TotalIsNat
<1>5. \A t \in Nat : t = t + t => t = 0
    OBVIOUS
<1> QED
    BY <1>3, <1>4, <1>5

(* The sum after one element has changed. *)
LEMMA TotalChanged ==
    ASSUME NEW f, NEW g, NEW S, IsFiniteSet(S), NEW x \in S,
           \A y \in S : f[y] \in Nat /\ g[y] \in Nat,
           \A y \in S \ {x} : g[y] = f[y]
    PROVE  Total(g, S) = Total(f, S) - f[x] + g[x]
<1> DEFINE R == S \ {x}
<1>1. R \in SUBSET S /\ S \in SUBSET S /\ IsFiniteSet(R)
    BY FS_Subset
<1>2. Total(f, S) = f[x] + Total(f, R) /\ Total(g, S) = g[x] + Total(g, R)
    BY <1>1, TotalTakesOne
<1>3. Total(g, R) = Total(f, R)
    <2>1. \A y \in R : f[y] \in Nat /\ g[y] = f[y]
        OBVIOUS
    <2> QED
        BY <1>1, <2>1, TotalSame
<1>4. Total(f, R) \in Nat /\ Total(g, R) \in Nat /\ f[x] \in Nat
    BY <1>1, TotalIsNat
<1> QED
    BY <1>2, <1>3, <1>4

------------------------------------------------------------------------------
(* TypeOK without the byte counter. *)
CountedTypes ==
    /\ entry \in [Names -> [at : Places, bytes : Nat, age : 0..(Ttl + 1),
                            ticket : 0..MaxTickets]]
    /\ reserved \in Nat
    /\ req \in [Requests -> [holds : Holdings, name : Names \cup {NoName},
                             bytes : Nat, ticket : 0..MaxTickets]]
    /\ minted \subseteq Names
    /\ issued \in [Names -> 0..MaxTickets]
    /\ redeemed \in [Names -> Nat]

(* A value is in one place: in a map, in a claim, or gone; and only a      *)
(* value that is gone has been redeemed.                                   *)
NewNamesAreClean ==
    \A n \in Names : n \notin minted =>
        entry[n].at = "absent" /\ issued[n] = 0 /\ redeemed[n] = 0
PresentIsUnredeemed ==
    \A n \in Names : entry[n].at # "absent" => redeemed[n] = 0
ClaimedIsUnredeemed ==
    \A r \in Requests : req[r].holds = "claim" =>
        /\ req[r].name \in minted
        /\ entry[req[r].name].at = "absent"
        /\ redeemed[req[r].name] = 0
ClaimsAreExclusive ==
    \A r, q \in Requests :
        req[r].holds = "claim" /\ req[q].holds = "claim"
            /\ req[r].name = req[q].name => r = q

(* A staged value carries its newest ticket, and a body being sent was     *)
(* taken out of the maps for good.                                         *)
TicketIsNewest ==
    \A n \in Names : entry[n].at = "staged" => entry[n].ticket = issued[n]
BodyIsGone ==
    \A r \in Requests : req[r].holds = "body" =>
        /\ req[r].name \in minted
        /\ entry[req[r].name].at = "absent"
        /\ redeemed[req[r].name] = 1

ValueInv ==
    /\ CountedTypes /\ NewNamesAreClean /\ PresentIsUnredeemed
    /\ ClaimedIsUnredeemed /\ ClaimsAreExclusive /\ TicketIsNewest
    /\ BodyIsGone /\ RedeemedAtMostOnce /\ OnlyNewestTicketServes

CountInv == ReservedIsExact /\ CeilingHolds

------------------------------------------------------------------------------
LEMMA InitValueInv == Init => ValueInv
BY NamesAssumption, LimitsAssumption
   DEF Init, ValueInv, CountedTypes, NewNamesAreClean, PresentIsUnredeemed,
       ClaimedIsUnredeemed, ClaimsAreExclusive, TicketIsNewest, BodyIsGone,
       RedeemedAtMostOnce, OnlyNewestTicketServes, Absent, Nothing, Places,
       Holdings

(* Every step keeps each value in one place, and its tickets in order. *)
LEMMA NextValueInv == ValueInv /\ [Next]_vars => ValueInv'
<1> SUFFICES ASSUME ValueInv, [Next]_vars PROVE ValueInv'
    OBVIOUS
<1> USE NamesAssumption, LimitsAssumption
    DEF ValueInv, CountedTypes, NewNamesAreClean, PresentIsUnredeemed,
        ClaimedIsUnredeemed, ClaimsAreExclusive, TicketIsNewest, BodyIsGone,
        RedeemedAtMostOnce, OnlyNewestTicketServes, Absent, Nothing, Places,
        Holdings, HeldAs, Holding, SweptEntry, OneLess
<1>1. ASSUME Sweep PROVE ValueInv'
    BY <1>1 DEF Sweep
<1>2. ASSUME Tick PROVE ValueInv'
    BY <1>2 DEF Tick
<1>3. ASSUME NEW n \in Names, AuthorizeDownload(n) PROVE ValueInv'
    BY <1>3, SMTT(30) DEF AuthorizeDownload
<1>4. ASSUME NEW n \in Names, TakeReceived(n) PROVE ValueInv'
    BY <1>4 DEF TakeReceived
<1>5. ASSUME NEW n \in Names, NEW size \in UploadSizes, AuthorizeUpload(n, size) PROVE ValueInv'
    BY <1>5 DEF AuthorizeUpload
<1>6. ASSUME NEW r \in Requests, Reserve(r) PROVE ValueInv'
    BY <1>6 DEF Reserve
<1>7. ASSUME NEW r \in Requests, Release(r) PROVE ValueInv'
    BY <1>7 DEF Release
<1>8. ASSUME NEW r \in Requests, ReturnBytes(r) PROVE ValueInv'
    BY <1>8 DEF ReturnBytes
<1>9. ASSUME NEW r \in Requests, Complete(r) PROVE ValueInv'
    <2> DEFINE n == req[r].name
    <2>1. n \in minted /\ n \in Names /\ redeemed[n] = 0 /\ entry[n].at = "absent"
        BY <1>9 DEF Complete
    <2>2. CountedTypes'
        BY <1>9, <2>1 DEF Complete
    <2>3. ClaimedIsUnredeemed' /\ ClaimsAreExclusive'
        BY <1>9, <2>1 DEF Complete
    <2>4. \A q \in Requests : req[q].holds = "body" => req[q].name # n
        BY <1>9, <2>1 DEF Complete
    <2> QED
        BY <1>9, <2>1, <2>2, <2>3, <2>4 DEF Complete
<1>10. ASSUME NEW r \in Requests, NEW n \in Names, Claim(r, n) PROVE ValueInv'
    BY <1>10 DEF Claim
<1>11. ASSUME NEW r \in Requests, NEW n \in Names,
             NEW size \in EnvelopeSizes, Stage(r, n, size) PROVE ValueInv'
    BY <1>11 DEF Stage
<1>12. ASSUME NEW r \in Requests, NEW n \in Names,
             NEW t \in 1..MaxTickets, Serve(r, n, t) PROVE ValueInv'
    <2>1. /\ entry[n].at = "staged" /\ entry[n].ticket = t /\ n \in minted
          /\ redeemed[n] = 0 /\ issued[n] = t
        BY <1>12 DEF Serve
    <2>2. CountedTypes'
        BY <1>12, <2>1 DEF Serve
    <2>3. ClaimedIsUnredeemed' /\ ClaimsAreExclusive'
        BY <1>12, <2>1 DEF Serve
    <2>4. RedeemedAtMostOnce' /\ PresentIsUnredeemed' /\ NewNamesAreClean'
        BY <1>12, <2>1 DEF Serve
    <2>5. TicketIsNewest'
        BY <1>12, <2>1 DEF Serve
    <2>6. /\ req'[r].holds = "body" /\ req'[r].name = n /\ req'[r].ticket = t
          /\ entry'[n].at = "absent" /\ redeemed'[n] = 1 /\ minted' = minted
          /\ issued' = issued
        BY <1>12, <2>1 DEF Serve
    <2>7. ASSUME NEW q \in Requests, q # r, req[q].holds = "body"
          PROVE  /\ req'[q] = req[q] /\ req[q].name # n
                 /\ entry'[req[q].name].at = "absent"
                 /\ redeemed'[req[q].name] = 1
        BY <1>12, <2>1, <2>7 DEF Serve
    <2>8. \A q \in Requests : q # r => req'[q] = req[q]
        BY <1>12 DEF Serve
    <2>9. BodyIsGone'
        BY <2>1, <2>6, <2>7, <2>8
    <2>10. OnlyNewestTicketServes'
        BY <2>1, <2>6, <2>7, <2>8
    <2> QED
        BY <2>2, <2>3, <2>4, <2>5, <2>9, <2>10
<1>13. CASE UNCHANGED vars
    BY <1>13 DEF vars
<1> QED
    BY <1>1, <1>2, <1>3, <1>4, <1>5, <1>6, <1>7, <1>8, <1>9, <1>10,
       <1>11, <1>12, <1>13 DEF Next

(* The sweep only takes values away, and only expired ones. *)
LEMMA SweepOnlyTakes ==
    ASSUME CountedTypes
    PROVE  /\ {n \in Names : SweptEntry[n].at # "absent"} \subseteq Present
           /\ \A n \in Names : SweptEntry[n].at # "absent" =>
                 SweptEntry[n] = entry[n] /\ entry[n].age <= Ttl
BY LimitsAssumption DEF CountedTypes, SweptEntry, Expired, Absent, Present

(* Adding and removing one element, in the form the count needs. *)
LEMMA Added ==
    ASSUME NEW S, NEW x, IsFiniteSet(S)
    PROVE  /\ Cardinality(S) \in Nat
           /\ Cardinality(S \cup {x}) \in Nat
           /\ Cardinality(S \cup {x}) <= Cardinality(S) + 1
           /\ x \notin S => Cardinality(S \cup {x}) = Cardinality(S) + 1
<1>1. Cardinality(S) \in Nat
    BY FS_CardinalityType
<1>2. Cardinality(S \cup {x}) = IF x \in S THEN Cardinality(S) ELSE Cardinality(S) + 1
    BY FS_AddElement
<1> QED
    BY <1>1, <1>2

(* The other way round. *)
LEMMA Removed ==
    ASSUME NEW S, NEW x \in S, IsFiniteSet(S)
    PROVE  /\ Cardinality(S) \in Nat
           /\ Cardinality(S) > 0
           /\ Cardinality(S \ {x}) = Cardinality(S) - 1
<1>1. Cardinality(S) \in Nat
    BY FS_CardinalityType
<1>2. IsFiniteSet(S \ {x}) /\ Cardinality(S \ {x}) = Cardinality(S) - 1
    BY FS_RemoveElement
<1>3. Cardinality(S \ {x}) \in Nat
    BY <1>2, FS_CardinalityType
<1> QED
    BY <1>1, <1>2, <1>3

LEMMA InitCountInv == Init => CountInv
<1> SUFFICES ASSUME Init PROVE CountInv
    OBVIOUS
<1>1. Present = {} /\ Promised = {} /\ reserved = 0
    BY DEF Init, Present, Promised, Absent, Nothing
<1>2. Cardinality({}) = 0
    BY FS_EmptySet
<1> QED
    BY <1>1, <1>2, LimitsAssumption DEF CountInv, ReservedIsExact, CeilingHolds

(* Every step keeps the reserved count exact and the ceiling respected.    *)
LEMMA NextCountInv == ValueInv /\ CountInv /\ [Next]_vars => CountInv'
<1> SUFFICES ASSUME ValueInv, CountInv, [Next]_vars PROVE CountInv'
    OBVIOUS
<1> DEFINE Swept == {n \in Names : SweptEntry[n].at # "absent"}
           Goal == /\ reserved' = Cardinality(Promised')
                   /\ Cardinality(Present') + Cardinality(Promised') <= MaxStaged
<1>a. CountedTypes /\ reserved = Cardinality(Promised) /\ MaxStaged \in Nat
      /\ Cardinality(Present) + Cardinality(Promised) <= MaxStaged
    BY LimitsAssumption DEF ValueInv, CountInv, ReservedIsExact, CeilingHolds
<1>b. /\ IsFiniteSet(Promised) /\ IsFiniteSet(Present) /\ IsFiniteSet(Swept)
      /\ Swept \subseteq Present
      /\ Cardinality(Promised) \in Nat /\ Cardinality(Present) \in Nat
      /\ Cardinality(Swept) \in Nat /\ Cardinality(Swept) <= Cardinality(Present)
    <2>1. Promised \in SUBSET Requests /\ Present \in SUBSET Names
        BY DEF Promised, Present
    <2>2. Swept \in SUBSET Present
        BY <1>a, SweepOnlyTakes
    <2>3. IsFiniteSet(Promised) /\ IsFiniteSet(Present)
        BY <2>1, NamesAssumption, FS_Subset
    <2>4. IsFiniteSet(Swept) /\ Cardinality(Swept) <= Cardinality(Present)
        BY <2>2, <2>3, FS_Subset
    <2> QED
        BY <2>2, <2>3, <2>4, FS_CardinalityType
<1>c. ASSUME Present' \subseteq Present, Promised' = Promised, reserved' = reserved
      PROVE  Goal
    <2>1. Present' \in SUBSET Present
        BY <1>c
    <2>2. IsFiniteSet(Present') /\ Cardinality(Present') <= Cardinality(Present)
        BY <2>1, <1>b, FS_Subset
    <2>3. Cardinality(Present') \in Nat
        BY <2>2, FS_CardinalityType
    <2> QED
        BY <1>c, <1>a, <1>b, <2>2, <2>3
<1>1. ASSUME NEW r \in Requests, Reserve(r) PROVE Goal
    <2>1. Promised' = Promised \cup {r} /\ r \notin Promised /\ Present' = Swept
        BY <1>1, <1>a DEF Reserve, Promised, Present, HeldAs, Holding, CountedTypes
    <2>2. Cardinality(Swept) + reserved < MaxStaged /\ reserved' = reserved + 1
        BY <1>1 DEF Reserve, HasRoom, Outstanding
    <2>3. Cardinality(Promised') = Cardinality(Promised) + 1
        BY <2>1, <1>b, Added
    <2>4. Cardinality(Present') = Cardinality(Swept)
        BY <2>1
    <2> QED
        BY <1>a, <1>b, <2>2, <2>3, <2>4
<1>2. ASSUME NEW r \in Requests, NEW n \in Names, NEW size \in EnvelopeSizes,
             Stage(r, n, size)
      PROVE  Goal
    <2>1. /\ Promised' = Promised \ {r} /\ r \in Promised
          /\ Present' = Present \cup {n} /\ reserved' = OneLess(reserved)
        BY <1>2, <1>a DEF Stage, Promised, Present, HeldAs, Nothing, CountedTypes
    <2>2. Cardinality(Promised') = Cardinality(Promised) - 1 /\ Cardinality(Promised) > 0
        BY <2>1, <1>b, Removed
    <2>3. Cardinality(Present') <= Cardinality(Present) + 1 /\ Cardinality(Present') \in Nat
        BY <2>1, <1>b, Added
    <2> QED
        BY <1>a, <1>b, <2>1, <2>2, <2>3 DEF OneLess
<1>3. ASSUME NEW r \in Requests, Release(r) PROVE Goal
    <2>1. /\ Promised' = Promised \ {r} /\ r \in Promised
          /\ Present' = Present /\ reserved' = OneLess(reserved)
        BY <1>3, <1>a DEF Release, Promised, Present, HeldAs, Holding, CountedTypes
    <2>2. Cardinality(Promised') = Cardinality(Promised) - 1 /\ Cardinality(Promised) > 0
        BY <2>1, <1>b, Removed
    <2>3. Cardinality(Present') = Cardinality(Present)
        BY <2>1
    <2> QED
        BY <1>a, <1>b, <2>1, <2>2, <2>3 DEF OneLess
<1>4. ASSUME NEW r \in Requests, Complete(r) PROVE Goal
    <2>1. /\ Promised' = Promised \ {r} /\ r \in Promised
          /\ Present' = Present \cup {req[r].name} /\ reserved' = OneLess(reserved)
        BY <1>4, <1>a, NamesAssumption
        DEF Complete, Promised, Present, HeldAs, Nothing, CountedTypes,
            ValueInv, ClaimedIsUnredeemed
    <2>2. Cardinality(Promised') = Cardinality(Promised) - 1 /\ Cardinality(Promised) > 0
        BY <2>1, <1>b, Removed
    <2>3. Cardinality(Present') <= Cardinality(Present) + 1 /\ Cardinality(Present') \in Nat
        BY <2>1, <1>b, Added
    <2> QED
        BY <1>a, <1>b, <2>1, <2>2, <2>3 DEF OneLess
<1>5. ASSUME NEW n \in Names, NEW size \in UploadSizes, AuthorizeUpload(n, size)
      PROVE  Goal
    <2>1. Promised' = Promised /\ Present' = Swept \cup {n}
        BY <1>5, <1>a DEF AuthorizeUpload, Promised, Present, SweptEntry, CountedTypes
    <2>2. Cardinality(Swept) + reserved < MaxStaged /\ reserved' = reserved
        BY <1>5 DEF AuthorizeUpload, HasRoom, Outstanding
    <2>3. Cardinality(Present') <= Cardinality(Swept) + 1 /\ Cardinality(Present') \in Nat
        BY <2>1, <1>b, Added
    <2>4. Cardinality(Promised') = Cardinality(Promised)
        BY <2>1
    <2> QED
        BY <1>a, <1>b, <2>2, <2>3, <2>4
<1>6. ASSUME NEW r \in Requests, NEW n \in Names, Claim(r, n) PROVE Goal
    <2>1. /\ Promised' = Promised \cup {r} /\ r \notin Promised
          /\ Present' = Swept \ {n} /\ n \in Swept /\ reserved' = reserved + 1
        BY <1>6, <1>a
        DEF Claim, Promised, Present, HeldAs, Holding, CountedTypes, SweptEntry,
            Absent
    <2>2. Cardinality(Promised') = Cardinality(Promised) + 1
        BY <2>1, <1>b, Added
    <2>3. Cardinality(Present') = Cardinality(Swept) - 1
        BY <2>1, <1>b, Removed
    <2> QED
        BY <1>a, <1>b, <2>1, <2>2, <2>3
<1>7. ASSUME Sweep PROVE Goal
    <2>1. Present' = Swept /\ Promised' = Promised /\ reserved' = reserved
        BY <1>7 DEF Sweep, Present, Promised
    <2> QED
        BY <2>1, <1>b, <1>c
<1>8. ASSUME Tick PROVE Goal
    <2>1. Present' \subseteq Present /\ Promised' = Promised /\ reserved' = reserved
        BY <1>8, <1>a DEF Tick, Present, Promised, CountedTypes
    <2> QED
        BY <2>1, <1>c
<1>9. ASSUME NEW n \in Names, AuthorizeDownload(n) PROVE Goal
    <2>1. Present' \subseteq Swept /\ Promised' = Promised /\ reserved' = reserved
        BY <1>9, <1>a
        DEF AuthorizeDownload, Present, Promised, SweptEntry, Absent, CountedTypes
    <2> QED
        BY <2>1, <1>b, <1>c
<1>10. ASSUME NEW n \in Names, TakeReceived(n) PROVE Goal
    <2>1. Present' \subseteq Swept /\ Promised' = Promised /\ reserved' = reserved
        BY <1>10, <1>a
        DEF TakeReceived, Present, Promised, SweptEntry, Absent, CountedTypes
    <2> QED
        BY <2>1, <1>b, <1>c
<1>11. ASSUME NEW r \in Requests, ReturnBytes(r) PROVE Goal
    <2>1. Present' = Present /\ Promised' = Promised /\ reserved' = reserved
        BY <1>11, <1>a
        DEF ReturnBytes, Present, Promised, CountedTypes, HeldAs, Nothing
    <2> QED
        BY <2>1, <1>c
<1>12. ASSUME NEW r \in Requests, NEW n \in Names, NEW t \in 1..MaxTickets,
              Serve(r, n, t)
       PROVE  Goal
    <2>1. Present' \subseteq Present /\ Promised' = Promised /\ reserved' = reserved
        BY <1>12, <1>a
        DEF Serve, Present, Promised, SweptEntry, Absent, CountedTypes, HeldAs,
            Holding
    <2> QED
        BY <2>1, <1>c
<1>13. ASSUME UNCHANGED vars PROVE Goal
    <2>1. Present' = Present /\ Promised' = Promised /\ reserved' = reserved
        BY <1>13 DEF vars, Present, Promised
    <2> QED
        BY <2>1, <1>c
<1> HIDE DEF Goal
<1>14. Goal
    BY <1>1, <1>2, <1>3, <1>4, <1>5, <1>6, <1>7, <1>11, <1>12, <1>13, <1>8,
       <1>9, <1>10 DEF Next
<1> QED
    BY <1>14 DEF Goal, CountInv, ReservedIsExact, CeilingHolds

------------------------------------------------------------------------------
(* The bytes of each entry, of each entry once the sweep has run, and of   *)
(* each request, as functions that can be summed.                          *)
EntryBytes == [n \in Names |-> entry[n].bytes]
SweptBytes == [n \in Names |-> IF Expired(n) THEN 0 ELSE entry[n].bytes]
ReqBytes == [r \in Requests |-> req[r].bytes]
ExpiredNames == {n \in Names : Expired(n)}
Charged == Total(EntryBytes, Names) + Total(ReqBytes, Requests)

(* Nothing is charged to what is not there, and a slot carries the whole   *)
(* envelope it was promised, so that staging only ever returns bytes.      *)
AbsentIsFree == \A n \in Names : entry[n].at = "absent" => entry[n].bytes = 0
IdleIsFree == \A r \in Requests : req[r].holds = "nothing" => req[r].bytes = 0
SlotIsEnvelope == \A r \in Requests : req[r].holds = "slot" => req[r].bytes = Envelope

ByteInv ==
    /\ AbsentIsFree /\ IdleIsFree /\ SlotIsEnvelope
    /\ used = Charged /\ used <= MaxBytes

(* The model's folds are these sums. *)
LEMMA BudgetIsTotal ==
    /\ BudgetIsExact <=> used = Charged
    /\ SweptUsed = used - Total(EntryBytes, ExpiredNames)
<1>1. MapThenSumSet(LAMBDA n : entry[n].bytes, Names) = Total(EntryBytes, Names)
    BY DEF Total, MapThenSumSet, MapThenFoldSet, EntryBytes
<1>2. MapThenSumSet(LAMBDA r : req[r].bytes, Requests) = Total(ReqBytes, Requests)
    BY DEF Total, MapThenSumSet, MapThenFoldSet, ReqBytes
<1>3. MapThenSumSet(LAMBDA n : entry[n].bytes, ExpiredNames) = Total(EntryBytes, ExpiredNames)
    BY DEF Total, MapThenSumSet, MapThenFoldSet, EntryBytes, ExpiredNames
<1> QED
    BY <1>1, <1>2, <1>3 DEF BudgetIsExact, SweptUsed, Charged, ExpiredNames

(* What can be summed, and what the sweep takes from the sum. *)
LEMMA ByteTypes ==
    ASSUME CountedTypes
    PROVE  /\ \A n \in Names : /\ EntryBytes[n] = entry[n].bytes /\ EntryBytes[n] \in Nat
                               /\ SweptBytes[n] = SweptEntry[n].bytes /\ SweptBytes[n] \in Nat
           /\ \A r \in Requests : ReqBytes[r] = req[r].bytes /\ ReqBytes[r] \in Nat
           /\ Total(EntryBytes, Names) \in Nat /\ Total(SweptBytes, Names) \in Nat
           /\ Total(ReqBytes, Requests) \in Nat
           /\ Total(EntryBytes, Names)
                = Total(SweptBytes, Names) + Total(EntryBytes, ExpiredNames)
           /\ Total(EntryBytes, ExpiredNames) \in Nat
<1>1. \A n \in Names : /\ EntryBytes[n] = entry[n].bytes /\ EntryBytes[n] \in Nat
                       /\ SweptBytes[n] = SweptEntry[n].bytes /\ SweptBytes[n] \in Nat
    BY DEF CountedTypes, EntryBytes, SweptBytes, SweptEntry, Absent
<1>2. \A r \in Requests : ReqBytes[r] = req[r].bytes /\ ReqBytes[r] \in Nat
    BY DEF CountedTypes, ReqBytes
<1>3. ExpiredNames \in SUBSET Names /\ Names \in SUBSET Names /\ Requests \in SUBSET Requests
    BY DEF ExpiredNames
<1>4. /\ Total(EntryBytes, Names) \in Nat /\ Total(SweptBytes, Names) \in Nat
      /\ Total(EntryBytes, ExpiredNames) \in Nat
    BY <1>1, <1>3, NamesAssumption, TotalIsNat
<1>5. Total(ReqBytes, Requests) \in Nat
    BY <1>2, <1>3, NamesAssumption, TotalIsNat
<1>6. /\ \A n \in ExpiredNames : SweptBytes[n] = 0
      /\ \A n \in Names \ ExpiredNames : SweptBytes[n] = EntryBytes[n]
    BY DEF ExpiredNames, SweptBytes, EntryBytes
<1>7. Total(EntryBytes, Names) = Total(SweptBytes, Names) + Total(EntryBytes, ExpiredNames)
    BY <1>1, <1>3, <1>6, NamesAssumption, TotalCleared
<1> QED
    BY <1>1, <1>2, <1>4, <1>5, <1>7

(* An empty plane is charged nothing. *)
LEMMA InitByteInv == Init => ByteInv
<1> SUFFICES ASSUME Init PROVE ByteInv
    OBVIOUS
<1>1. /\ \A n \in Names : EntryBytes[n] = 0
      /\ \A r \in Requests : ReqBytes[r] = 0
    BY DEF Init, EntryBytes, ReqBytes, Absent, Nothing
<1>2. Total(EntryBytes, Names) = 0 /\ Total(ReqBytes, Requests) = 0
    BY <1>1, NamesAssumption, TotalOfNothing
<1> QED
    BY <1>2, LimitsAssumption
    DEF Init, ByteInv, AbsentIsFree, IdleIsFree, SlotIsEnvelope, Charged, Absent, Nothing

(* Every step charges what it adds and returns what it takes away, and     *)
(* only reserve and authorize_upload, which look at the limit, add.        *)
LEMMA NextByteInv == ValueInv /\ ByteInv /\ [Next]_vars => ByteInv'
<1> SUFFICES ASSUME ValueInv, ByteInv, [Next]_vars PROVE ByteInv'
    OBVIOUS
<1> DEFINE swept == Total(SweptBytes, Names)
           kept == Total(EntryBytes, Names)
           held == Total(ReqBytes, Requests)
           Free == AbsentIsFree' /\ IdleIsFree' /\ SlotIsEnvelope'
           Exact == used' = Charged' /\ used' <= MaxBytes
<1>a. CountedTypes /\ CountedTypes'
    BY NextValueInv DEF ValueInv
<1>b. /\ MaxBytes \in Nat /\ Envelope \in Nat /\ EnvelopeSizes \subseteq 0 .. Envelope
      /\ UploadSizes \subseteq Nat /\ IsFiniteSet(Names) /\ IsFiniteSet(Requests)
    BY NamesAssumption, LimitsAssumption
<1>c. /\ \A n \in Names : /\ EntryBytes[n] = entry[n].bytes /\ EntryBytes[n] \in Nat
                          /\ SweptBytes[n] = SweptEntry[n].bytes /\ SweptBytes[n] \in Nat
      /\ \A r \in Requests : ReqBytes[r] = req[r].bytes /\ ReqBytes[r] \in Nat
      /\ swept \in Nat /\ kept \in Nat /\ held \in Nat
    BY <1>a, ByteTypes
<1>d. /\ \A n \in Names : EntryBytes'[n] = entry'[n].bytes /\ EntryBytes'[n] \in Nat
      /\ \A r \in Requests : ReqBytes'[r] = req'[r].bytes /\ ReqBytes'[r] \in Nat
      /\ Total(EntryBytes', Names) \in Nat /\ Total(ReqBytes', Requests) \in Nat
    <2>1. \A n \in Names : EntryBytes'[n] = entry'[n].bytes /\ EntryBytes'[n] \in Nat
        BY <1>a DEF CountedTypes, EntryBytes
    <2>2. \A r \in Requests : ReqBytes'[r] = req'[r].bytes /\ ReqBytes'[r] \in Nat
        BY <1>a DEF CountedTypes, ReqBytes
    <2>3. Names \in SUBSET Names /\ Requests \in SUBSET Requests
        OBVIOUS
    <2> QED
        BY <1>b, <2>1, <2>2, <2>3, TotalIsNat
<1>e. /\ used = kept + held /\ used <= MaxBytes
      /\ SweptUsed = swept + held /\ SweptUsed \in Nat /\ SweptUsed <= MaxBytes
    <2>1. used = kept + held /\ used <= MaxBytes
        BY DEF ByteInv, Charged
    <2>2. /\ kept = swept + Total(EntryBytes, ExpiredNames)
          /\ Total(EntryBytes, ExpiredNames) \in Nat
        BY <1>a, ByteTypes
    <2>3. SweptUsed = used - Total(EntryBytes, ExpiredNames)
        BY BudgetIsTotal
    <2> QED
        BY <1>b, <1>c, <2>1, <2>2, <2>3
<1>f. /\ \A n \in Names : entry[n].at = "absent" => entry[n].bytes = 0
      /\ \A n \in Names : SweptEntry[n].at = "absent" => SweptEntry[n].bytes = 0
      /\ \A r \in Requests : req[r].holds = "nothing" => req[r].bytes = 0
      /\ \A r \in Requests : req[r].holds = "slot" => req[r].bytes = Envelope
    BY DEF ByteInv, AbsentIsFree, IdleIsFree, SlotIsEnvelope, SweptEntry, Absent
<1> HIDE DEF swept, kept, held
<1>e1. ASSUME \A n \in Names : entry'[n].bytes = SweptEntry[n].bytes
       PROVE  Total(EntryBytes', Names) = swept
    BY <1>b, <1>c, <1>d, <1>e1, TotalSame DEF swept
<1>e2. ASSUME NEW n \in Names,
              \A m \in Names \ {n} : entry'[m].bytes = SweptEntry[m].bytes
       PROVE  Total(EntryBytes', Names) = swept - SweptEntry[n].bytes + entry'[n].bytes
    <2>1. /\ \A m \in Names : SweptBytes[m] \in Nat /\ EntryBytes'[m] \in Nat
          /\ \A m \in Names \ {n} : EntryBytes'[m] = SweptBytes[m]
          /\ EntryBytes'[n] = entry'[n].bytes /\ SweptBytes[n] = SweptEntry[n].bytes
        BY <1>c, <1>d, <1>e2
    <2>2. Total(EntryBytes', Names) = Total(SweptBytes, Names) - SweptBytes[n] + EntryBytes'[n]
        BY <1>b, <2>1, TotalChanged
    <2> QED
        BY <2>1, <2>2 DEF swept
<1>e3. ASSUME \A n \in Names : entry'[n].bytes = entry[n].bytes
       PROVE  Total(EntryBytes', Names) = kept
    BY <1>b, <1>c, <1>d, <1>e3, TotalSame DEF kept
<1>e4. ASSUME NEW n \in Names,
              \A m \in Names \ {n} : entry'[m].bytes = entry[m].bytes
       PROVE  Total(EntryBytes', Names) = kept - entry[n].bytes + entry'[n].bytes
    <2>1. /\ \A m \in Names : EntryBytes[m] \in Nat /\ EntryBytes'[m] \in Nat
          /\ \A m \in Names \ {n} : EntryBytes'[m] = EntryBytes[m]
          /\ EntryBytes'[n] = entry'[n].bytes /\ EntryBytes[n] = entry[n].bytes
        BY <1>c, <1>d, <1>e4
    <2>2. Total(EntryBytes', Names) = Total(EntryBytes, Names) - EntryBytes[n] + EntryBytes'[n]
        BY <1>b, <2>1, TotalChanged
    <2> QED
        BY <2>1, <2>2 DEF kept
<1>r1. ASSUME \A r \in Requests : req'[r].bytes = req[r].bytes
       PROVE  Total(ReqBytes', Requests) = held
    BY <1>b, <1>c, <1>d, <1>r1, TotalSame DEF held
<1>r2. ASSUME NEW r \in Requests,
              \A q \in Requests \ {r} : req'[q].bytes = req[q].bytes
       PROVE  Total(ReqBytes', Requests) = held - req[r].bytes + req'[r].bytes
    <2>1. /\ \A q \in Requests : ReqBytes[q] \in Nat /\ ReqBytes'[q] \in Nat
          /\ \A q \in Requests \ {r} : ReqBytes'[q] = ReqBytes[q]
          /\ ReqBytes'[r] = req'[r].bytes /\ ReqBytes[r] = req[r].bytes
        BY <1>c, <1>d, <1>r2
    <2>2. Total(ReqBytes', Requests) = Total(ReqBytes, Requests) - ReqBytes[r] + ReqBytes'[r]
        BY <1>b, <2>1, TotalChanged
    <2> QED
        BY <2>1, <2>2 DEF held
<1>s. ASSUME \A n \in Names : entry'[n].bytes = SweptEntry[n].bytes,
             \A r \in Requests : req'[r].bytes = req[r].bytes, used' = SweptUsed
      PROVE  Exact
    BY <1>b, <1>c, <1>e, <1>e1, <1>r1, <1>s DEF Charged
<1>1. ASSUME Sweep PROVE Free /\ Exact
    <2>1. entry' = SweptEntry /\ used' = SweptUsed /\ req' = req
        BY <1>1 DEF Sweep
    <2> QED
        BY <1>f, <1>s, <2>1 DEF AbsentIsFree, IdleIsFree, SlotIsEnvelope
<1>2. ASSUME Tick PROVE Free /\ Exact
    <2>1. /\ \A n \in Names : entry'[n].bytes = entry[n].bytes /\ entry'[n].at = entry[n].at
          /\ used' = used /\ req' = req
        BY <1>a, <1>2 DEF Tick, CountedTypes
    <2>2. Exact
        BY <1>b, <1>c, <1>e, <1>e3, <1>r1, <2>1 DEF Charged
    <2> QED
        BY <1>f, <2>1, <2>2 DEF AbsentIsFree, IdleIsFree, SlotIsEnvelope
<1>3. ASSUME NEW n \in Names, AuthorizeDownload(n) PROVE Free /\ Exact
    <2>1. /\ \A m \in Names : /\ entry'[m].bytes = SweptEntry[m].bytes
                              /\ entry'[m].at = SweptEntry[m].at
          /\ used' = SweptUsed /\ req' = req
        BY <1>a, <1>3 DEF AuthorizeDownload, CountedTypes, SweptEntry, Absent
    <2> QED
        BY <1>f, <1>s, <2>1 DEF AbsentIsFree, IdleIsFree, SlotIsEnvelope
<1>4. ASSUME NEW n \in Names, TakeReceived(n) PROVE Free /\ Exact
    <2>1. /\ SweptEntry[n] = entry[n]
          /\ \A m \in Names \ {n} : entry'[m] = SweptEntry[m]
          /\ entry'[n].bytes = 0 /\ entry'[n].at = "absent"
          /\ used' = SweptUsed - entry[n].bytes /\ req' = req
        BY <1>a, <1>4 DEF TakeReceived, CountedTypes, SweptEntry, Absent
    <2>2. Total(EntryBytes', Names) = swept - entry[n].bytes
        BY <1>c, <1>e2, <2>1
    <2>3. Total(ReqBytes', Requests) = held
        BY <1>r1, <2>1
    <2>4. Exact
        BY <1>b, <1>c, <1>d, <1>e, <2>1, <2>2, <2>3 DEF Charged
    <2>5. Free
        BY <1>f, <2>1 DEF AbsentIsFree, IdleIsFree, SlotIsEnvelope
    <2> QED
        BY <2>4, <2>5
<1>5. ASSUME NEW n \in Names, NEW size \in UploadSizes, AuthorizeUpload(n, size)
      PROVE  Free /\ Exact
    <2>1. entry[n].at = "absent" /\ n \notin minted
        BY <1>5 DEF AuthorizeUpload, ValueInv, NewNamesAreClean
    <2>2. SweptEntry[n].bytes = 0
        BY <1>f, <2>1 DEF SweptEntry, Expired
    <2>3. /\ \A m \in Names \ {n} : entry'[m] = SweptEntry[m]
          /\ entry'[n].bytes = size /\ entry'[n].at = "ticket"
          /\ used' = SweptUsed + size /\ SweptUsed + size <= MaxBytes /\ req' = req
        BY <1>a, <1>5 DEF AuthorizeUpload, Fits, CountedTypes, SweptEntry
    <2>4. Total(EntryBytes', Names) = swept + size
        BY <1>b, <1>c, <1>e2, <2>2, <2>3
    <2>5. Total(ReqBytes', Requests) = held
        BY <1>r1, <2>3
    <2>6. Exact
        BY <1>b, <1>c, <1>e, <2>3, <2>4, <2>5 DEF Charged
    <2>7. Free
        BY <1>f, <2>3 DEF AbsentIsFree, IdleIsFree, SlotIsEnvelope
    <2> QED
        BY <2>6, <2>7
<1>6. ASSUME NEW r \in Requests, Reserve(r) PROVE Free /\ Exact
    <2>1. /\ entry' = SweptEntry /\ req[r].bytes = 0
          /\ \A q \in Requests \ {r} : req'[q] = req[q]
          /\ req'[r].bytes = Envelope /\ req'[r].holds = "slot"
          /\ used' = SweptUsed + Envelope /\ SweptUsed + Envelope <= MaxBytes
        BY <1>a, <1>f, <1>6 DEF Reserve, Fits, HeldAs, Holding, CountedTypes
    <2>2. Total(EntryBytes', Names) = swept
        BY <1>e1, <2>1
    <2>3. Total(ReqBytes', Requests) = held + Envelope
        BY <1>b, <1>c, <1>r2, <2>1
    <2>4. Exact
        BY <1>b, <1>c, <1>e, <2>1, <2>2, <2>3 DEF Charged
    <2>5. Free
        BY <1>f, <2>1 DEF AbsentIsFree, IdleIsFree, SlotIsEnvelope
    <2> QED
        BY <2>4, <2>5
<1>7. ASSUME NEW r \in Requests, Release(r) PROVE Free /\ Exact
    <2>1. /\ entry' = entry /\ used' = used
          /\ \A q \in Requests \ {r} : req'[q] = req[q]
          /\ req'[r].bytes = req[r].bytes /\ req'[r].holds = "unwinding"
        BY <1>a, <1>7 DEF Release, Holding, CountedTypes
    <2>2. \A q \in Requests : req'[q].bytes = req[q].bytes
        BY <2>1
    <2>3. Exact
        BY <1>b, <1>c, <1>e, <1>e3, <1>r1, <2>1, <2>2 DEF Charged
    <2>4. Free
        BY <1>f, <2>1 DEF AbsentIsFree, IdleIsFree, SlotIsEnvelope
    <2> QED
        BY <2>3, <2>4
<1>8. ASSUME NEW r \in Requests, ReturnBytes(r) PROVE Free /\ Exact
    <2>1. /\ entry' = entry /\ used' = used - req[r].bytes
          /\ \A q \in Requests \ {r} : req'[q] = req[q]
          /\ req'[r].bytes = 0 /\ req'[r].holds = "nothing"
        BY <1>a, <1>8 DEF ReturnBytes, Nothing, CountedTypes
    <2>2. Total(EntryBytes', Names) = kept
        BY <1>e3, <2>1
    <2>3. Total(ReqBytes', Requests) = held - req[r].bytes
        BY <1>c, <1>r2, <2>1
    <2>4. Exact
        BY <1>b, <1>c, <1>d, <1>e, <2>1, <2>2, <2>3 DEF Charged
    <2>5. Free
        BY <1>f, <2>1 DEF AbsentIsFree, IdleIsFree, SlotIsEnvelope
    <2> QED
        BY <2>4, <2>5
<1>9. ASSUME NEW r \in Requests, Complete(r) PROVE Free /\ Exact
    <2> DEFINE n == req[r].name
    <2>0. n \in Names /\ entry[n].at = "absent"
        BY <1>a, <1>9 DEF Complete, HeldAs, ValueInv, ClaimedIsUnredeemed, CountedTypes
    <2>1. /\ \A m \in Names \ {n} : entry'[m] = entry[m]
          /\ entry'[n].bytes = req[r].bytes /\ entry'[n].at = "received"
          /\ \A q \in Requests \ {r} : req'[q] = req[q]
          /\ req'[r].bytes = 0 /\ req'[r].holds = "nothing" /\ used' = used
        BY <1>a, <1>9, <2>0 DEF Complete, Nothing, CountedTypes
    <2> HIDE DEF n
    <2>2. entry[n].bytes = 0
        BY <1>f, <2>0
    <2>3. Total(EntryBytes', Names) = kept + req[r].bytes
        BY <1>c, <1>e4, <2>0, <2>1, <2>2
    <2>4. Total(ReqBytes', Requests) = held - req[r].bytes
        BY <1>c, <1>r2, <2>1
    <2>5. Exact
        BY <1>b, <1>c, <1>e, <2>1, <2>3, <2>4 DEF Charged
    <2>6. Free
        BY <1>f, <2>1 DEF AbsentIsFree, IdleIsFree, SlotIsEnvelope
    <2> QED
        BY <2>5, <2>6
<1>10. ASSUME NEW r \in Requests, NEW n \in Names, Claim(r, n) PROVE Free /\ Exact
    <2>1. /\ SweptEntry[n] = entry[n] /\ req[r].bytes = 0
          /\ \A m \in Names \ {n} : entry'[m] = SweptEntry[m]
          /\ entry'[n].bytes = 0 /\ entry'[n].at = "absent"
          /\ \A q \in Requests \ {r} : req'[q] = req[q]
          /\ req'[r].bytes = entry[n].bytes /\ req'[r].holds = "claim"
          /\ used' = SweptUsed
        BY <1>a, <1>f, <1>10 DEF Claim, HeldAs, Holding, CountedTypes, SweptEntry, Absent
    <2>2. Total(EntryBytes', Names) = swept - entry[n].bytes
        BY <1>c, <1>e2, <2>1
    <2>3. Total(ReqBytes', Requests) = held + entry[n].bytes
        BY <1>c, <1>r2, <2>1
    <2>4. Exact
        BY <1>b, <1>c, <1>e, <2>1, <2>2, <2>3 DEF Charged
    <2>5. Free
        BY <1>f, <2>1 DEF AbsentIsFree, IdleIsFree, SlotIsEnvelope
    <2> QED
        BY <2>4, <2>5
<1>11. ASSUME NEW r \in Requests, NEW n \in Names, NEW size \in EnvelopeSizes,
              Stage(r, n, size)
       PROVE  Free /\ Exact
    <2>0. entry[n].bytes = 0 /\ req[r].bytes = Envelope /\ size \in Nat /\ size <= Envelope
        BY <1>b, <1>f, <1>11 DEF Stage, HeldAs, ValueInv, NewNamesAreClean
    <2>1. /\ \A m \in Names \ {n} : entry'[m] = entry[m]
          /\ entry'[n].bytes = size /\ entry'[n].at = "staged"
          /\ \A q \in Requests \ {r} : req'[q] = req[q]
          /\ req'[r].bytes = 0 /\ req'[r].holds = "nothing"
          /\ used' = used - (req[r].bytes - size)
        BY <1>a, <1>11 DEF Stage, Nothing, CountedTypes
    <2>2. Total(EntryBytes', Names) = kept + size
        BY <1>c, <1>e4, <2>0, <2>1
    <2>3. Total(ReqBytes', Requests) = held - req[r].bytes
        BY <1>c, <1>r2, <2>1
    <2>4. Exact
        BY <1>b, <1>c, <1>e, <2>0, <2>1, <2>2, <2>3 DEF Charged
    <2>5. Free
        BY <1>f, <2>1 DEF AbsentIsFree, IdleIsFree, SlotIsEnvelope
    <2> QED
        BY <2>4, <2>5
<1>12. ASSUME NEW r \in Requests, NEW n \in Names, NEW t \in 1..MaxTickets,
              Serve(r, n, t)
       PROVE  Free /\ Exact
    <2>1. /\ SweptEntry[n] = entry[n] /\ req[r].bytes = 0
          /\ \A m \in Names \ {n} : entry'[m] = SweptEntry[m]
          /\ entry'[n].bytes = 0 /\ entry'[n].at = "absent"
          /\ \A q \in Requests \ {r} : req'[q] = req[q]
          /\ req'[r].bytes = entry[n].bytes /\ req'[r].holds = "body"
          /\ used' = SweptUsed
        BY <1>a, <1>f, <1>12 DEF Serve, HeldAs, Holding, CountedTypes, SweptEntry, Absent
    <2>2. Total(EntryBytes', Names) = swept - entry[n].bytes
        BY <1>c, <1>e2, <2>1
    <2>3. Total(ReqBytes', Requests) = held + entry[n].bytes
        BY <1>c, <1>r2, <2>1
    <2>4. Exact
        BY <1>b, <1>c, <1>e, <2>1, <2>2, <2>3 DEF Charged
    <2>5. Free
        BY <1>f, <2>1 DEF AbsentIsFree, IdleIsFree, SlotIsEnvelope
    <2> QED
        BY <2>4, <2>5
<1>13. ASSUME UNCHANGED vars PROVE Free /\ Exact
    <2>1. entry' = entry /\ req' = req /\ used' = used
        BY <1>13 DEF vars
    <2>2. Exact
        BY <1>b, <1>c, <1>e, <1>e3, <1>r1, <2>1 DEF Charged
    <2> QED
        BY <1>f, <2>1, <2>2 DEF AbsentIsFree, IdleIsFree, SlotIsEnvelope
<1> HIDE DEF Free, Exact
<1>14. Free /\ Exact
    BY <1>1, <1>2, <1>3, <1>4, <1>5, <1>6, <1>7, <1>8, <1>9, <1>10, <1>11,
       <1>12, <1>13 DEF Next
<1> QED
    BY <1>14 DEF Free, Exact, ByteInv

------------------------------------------------------------------------------
(* The two invariants give every variable its type, and the budget its     *)
(* exact balance.                                                          *)
LEMMA InvariantsGiveTypes == ValueInv /\ ByteInv => TypeOK
<1> SUFFICES ASSUME ValueInv, ByteInv PROVE TypeOK
    OBVIOUS
<1>1. CountedTypes /\ used = Total(EntryBytes, Names) + Total(ReqBytes, Requests)
    BY DEF ValueInv, ByteInv, Charged
<1>2. Total(EntryBytes, Names) \in Nat /\ Total(ReqBytes, Requests) \in Nat
    BY <1>1, ByteTypes
<1>3. used \in Nat
    BY <1>1, <1>2
<1> QED
    BY <1>1, <1>3 DEF TypeOK, CountedTypes

LEMMA InvariantBalances == ByteInv => BudgetIsExact /\ BudgetHolds
BY BudgetIsTotal DEF ByteInv, BudgetHolds

(* Inductive invariants of FilePlane: what each value is, how many places  *)
(* are promised, and what is charged to the budget.                        *)
THEOREM Invariance == Spec => [](ValueInv /\ CountInv /\ ByteInv)
<1>1. Init => ValueInv /\ CountInv /\ ByteInv
    BY InitValueInv, InitCountInv, InitByteInv
<1>2. ValueInv /\ CountInv /\ ByteInv /\ [Next]_vars => (ValueInv /\ CountInv /\ ByteInv)'
    BY NextValueInv, NextCountInv, NextByteInv
<1> QED
    BY <1>1, <1>2, PTL DEF Spec

(* Every variable has its type; in particular the budget, from which bytes *)
(* are only ever subtracted without a check, never goes below zero.        *)
THEOREM TypeCorrect == Spec => []TypeOK
BY Invariance, InvariantsGiveTypes, PTL

(* The budget is charged exactly what entries, promises, bodies and        *)
(* unwinding reservations account for (ByteBudget::reserve, shrink and the *)
(* drop of ByteReservation).                                               *)
THEOREM ExactBudget == Spec => []BudgetIsExact
BY Invariance, InvariantBalances, PTL

(* What the plane answers for never exceeds max_staged_bytes, although     *)
(* staging converts a promise without looking at the limit again.          *)
THEOREM BudgetRespected == Spec => []BudgetHolds
BY Invariance, InvariantBalances, PTL

(* The bytes that are charged are those that are kept, and fit the limit.  *)
THEOREM BytesAccounted == Spec => []BytesAreAccounted
BY ExactBudget, BudgetRespected, PTL DEF BytesAreAccounted

(* The counter behind the ceiling is exact: drop flags and saturating      *)
(* decrements neither leak a promised place nor release one twice.         *)
THEOREM ExactReservations == Spec => []ReservedIsExact
BY Invariance, PTL DEF CountInv

(* Whatever is promised, authorized, claimed, staged or received, no more  *)
(* than max_staged places are taken.                                       *)
THEOREM CeilingRespected == Spec => []CeilingHolds
BY Invariance, PTL DEF CountInv

(* One name's bytes are handed out at most once.                           *)
THEOREM SingleRedemption == Spec => []RedeemedAtMostOnce
BY Invariance, PTL DEF ValueInv

(* A download in progress was authorized by the newest ticket.             *)
THEOREM NewestTicketOnly == Spec => []OnlyNewestTicketServes
BY Invariance, PTL DEF ValueInv

(* No step uses a value that has expired. *)
LEMMA FreshSteps ==
    ValueInv /\ [Next]_vars =>
        [\A n \in Names :
          /\ redeemed'[n] > redeemed[n] => entry[n].age <= Ttl
          /\ issued'[n] > issued[n] => entry[n].age <= Ttl
          /\ (\E r \in Requests : req[r].holds # "claim" /\ req'[r].holds = "claim"
                                     /\ req'[r].name = n) => entry[n].age <= Ttl]_vars
<1> SUFFICES ASSUME ValueInv, Next,
                    NEW n \in Names
             PROVE  /\ redeemed'[n] > redeemed[n] => entry[n].age <= Ttl
                    /\ issued'[n] > issued[n] => entry[n].age <= Ttl
                    /\ \A r \in Requests :
                          req[r].holds # "claim" /\ req'[r].holds = "claim"
                             /\ req'[r].name = n => entry[n].age <= Ttl
    OBVIOUS
<1>1. CountedTypes
    BY DEF ValueInv
<1>2. SweptEntry[n].at # "absent" => entry[n].age <= Ttl
    BY <1>1, SweepOnlyTakes
<1> DEFINE Fresh == entry[n].age <= Ttl
           Untouched == /\ redeemed'[n] = redeemed[n] /\ issued'[n] = issued[n]
                        /\ \A r \in Requests :
                              req'[r].holds = "claim" /\ req'[r].name = n
                                => req[r].holds = "claim"
<1>3. ASSUME NEW m \in Names, AuthorizeDownload(m) \/ TakeReceived(m)
      PROVE  Fresh \/ Untouched
    BY <1>1, <1>2, <1>3 DEF AuthorizeDownload, TakeReceived, CountedTypes
<1>4. ASSUME NEW q \in Requests, NEW m \in Names, Claim(q, m)
      PROVE  Fresh \/ Untouched
    BY <1>1, <1>2, <1>4 DEF Claim, CountedTypes, Holding
<1>5. ASSUME NEW q \in Requests, NEW m \in Names, NEW t \in 1..MaxTickets,
             Serve(q, m, t)
      PROVE  Fresh \/ Untouched
    BY <1>1, <1>2, <1>5 DEF Serve, CountedTypes, Holding
<1>6. CASE Sweep \/ Tick
    BY <1>1, <1>6 DEF Sweep, Tick, CountedTypes
<1>7. ASSUME NEW m \in Names, NEW size \in UploadSizes, AuthorizeUpload(m, size)
      PROVE  Untouched
    BY <1>7 DEF AuthorizeUpload
<1>8. ASSUME NEW q \in Requests,
             Reserve(q) \/ Release(q) \/ ReturnBytes(q) \/ Complete(q)
      PROVE  Untouched
    BY <1>1, <1>8
    DEF Reserve, Release, ReturnBytes, Complete, CountedTypes, Holding, Nothing
<1>9. ASSUME NEW q \in Requests, NEW m \in Names, NEW size \in EnvelopeSizes,
             Stage(q, m, size)
      PROVE  Untouched
    BY <1>1, <1>9 DEF Stage, CountedTypes, Nothing
<1>10. CASE Untouched
    BY <1>1, <1>10 DEF CountedTypes
<1> HIDE DEF Untouched
<1>11. Fresh \/ Untouched \/ Sweep \/ Tick
    BY <1>3, <1>4, <1>5, <1>7, <1>8, <1>9 DEF Next
<1> QED
    BY <1>6, <1>10, <1>11

(* Expired values, tickets and uploads are never used, however long the    *)
(* sweeper has been away.                                                  *)
THEOREM NothingStale == Spec => NothingStaleIsUsed
BY FreshSteps, Invariance, PTL DEF Spec, NothingStaleIsUsed

(* stage and claim can rely on the place they were promised. *)
THEOREM PlacesAccounted == Spec => []PlacesAreAccounted
BY ExactReservations, CeilingRespected, PTL DEF PlacesAreAccounted

(* A name is redeemed once, on the newest ticket. *)
THEOREM TicketsOnce == Spec => []TicketsServeOnce
BY SingleRedemption, NewestTicketOnly, PTL DEF TicketsServeOnce

------------------------------------------------------------------------------
(* The life of a value, read off the maps, the claims and the history.     *)
Claimed(n) == \E r \in Requests : req[r].holds = "claim" /\ req[r].name = n

StageAt(place) == IF place = "absent" THEN "lost"
                  ELSE IF place = "ticket" THEN "promised" ELSE "kept"

Life(n) == IF n \notin minted THEN "unborn"
           ELSE IF redeemed[n] > 0 THEN "handed"
           ELSE IF Claimed(n) THEN "claimed" ELSE StageAt(entry[n].at)

Lives == INSTANCE ValueLife WITH life <- [n \in Names |-> Life(n)]

(* What a step does to one value: nothing, or one move, or its loss.       *)
Keeps(n) == Life(n)' = Life(n) \/ <<Life(n), Life(n)'>> \in Lives!Losses
Moved(n) == <<Life(n), Life(n)'>> \in Lives!Moves

(* A value that a step does not name can only be swept. *)
Unnamed(n) ==
    /\ n \in minted' <=> n \in minted
    /\ redeemed'[n] = redeemed[n]
    /\ Claimed(n)' <=> Claimed(n)
    /\ entry'[n].at = entry[n].at \/ entry'[n].at = "absent"

LEMMA UnnamedKeeps == ValueInv => \A n \in Names : Unnamed(n) => Keeps(n)
<1> SUFFICES ASSUME ValueInv, NEW n \in Names, Unnamed(n) PROVE Keeps(n)
    OBVIOUS
<1>1. Claimed(n) => entry[n].at = "absent"
    BY DEF ValueInv, ClaimedIsUnredeemed, Claimed
<1>2. StageAt(entry'[n].at) = StageAt(entry[n].at)
        \/ <<StageAt(entry[n].at), StageAt(entry'[n].at)>> \in Lives!Losses
    BY DEF Unnamed, StageAt, Lives!Losses
<1>3. Life(n)' = IF n \notin minted THEN "unborn"
                 ELSE IF redeemed[n] > 0 THEN "handed"
                 ELSE IF Claimed(n) THEN "claimed" ELSE StageAt(entry'[n].at)
    BY DEF Life, Unnamed, StageAt
<1> QED
    BY <1>1, <1>2, <1>3 DEF Keeps, Life

(* A value in a map has been minted, is not handed over and not claimed.   *)
LEMMA InPlaceIsKept ==
    ValueInv => \A n \in Names : entry[n].at # "absent" => Life(n) = StageAt(entry[n].at)
BY DEF ValueInv, CountedTypes, NewNamesAreClean, PresentIsUnredeemed,
       ClaimedIsUnredeemed, Claimed, Life

(* A claimed value is in none of the maps.                                 *)
LEMMA ClaimedHasLife ==
    ValueInv => \A r \in Requests :
        req[r].holds = "claim" => req[r].name \in Names /\ Life(req[r].name) = "claimed"
BY DEF ValueInv, CountedTypes, ClaimedIsUnredeemed, Claimed, Life

(* The same of the state that a step ends in. *)
LEMMA InPlaceIsKeptNext ==
    (ValueInv => \A n \in Names : entry[n].at # "absent" => Life(n) = StageAt(entry[n].at))'
BY InPlaceIsKept, PTL

LEMMA ClaimedHasLifeNext ==
    (ValueInv => \A r \in Requests :
        req[r].holds = "claim" => req[r].name \in Names /\ Life(req[r].name) = "claimed")'
BY ClaimedHasLife, PTL

(* Every step moves the life of at most the one value it names. *)
LEMMA NextLife ==
    ValueInv /\ ValueInv' /\ Next =>
        \/ \A n \in Names : Keeps(n)
        \/ \E m \in Names : Moved(m) /\ \A n \in Names \ {m} : Keeps(n)
<1> SUFFICES ASSUME ValueInv, ValueInv', Next
             PROVE  \/ \A n \in Names : Keeps(n)
                    \/ \E m \in Names : Moved(m) /\ \A n \in Names \ {m} : Keeps(n)
    OBVIOUS
<1> DEFINE Rest(m) == \A n \in Names \ {m} : Unnamed(n)
           Goal == \/ \A n \in Names : Unnamed(n)
                   \/ \E m \in Names : Moved(m) /\ Rest(m)
<1>0. CountedTypes /\ CountedTypes' /\ NoName \notin Names
    BY NamesAssumption DEF ValueInv
<1>1. ASSUME Sweep PROVE Goal
    BY <1>0, <1>1 DEF Sweep, Unnamed, Claimed, SweptEntry, Absent, CountedTypes
<1>2. ASSUME Tick PROVE Goal
    <2>1. \A n \in Names : entry'[n].at = entry[n].at
        BY <1>0, <1>2 DEF Tick, CountedTypes
    <2> QED
        BY <1>2, <2>1 DEF Tick, Unnamed, Claimed
<1>3. ASSUME NEW m \in Names, AuthorizeDownload(m) PROVE Goal
    <2>1. \A n \in Names : entry'[n].at = entry[n].at \/ entry'[n].at = "absent"
        BY <1>0, <1>3 DEF AuthorizeDownload, SweptEntry, Absent, CountedTypes
    <2> QED
        BY <1>3, <2>1 DEF AuthorizeDownload, Unnamed, Claimed
<1>4. ASSUME NEW m \in Names, TakeReceived(m) PROVE Goal
    <2>1. Rest(m)
        BY <1>0, <1>4 DEF TakeReceived, Unnamed, Claimed, SweptEntry, Absent, CountedTypes
    <2>2. entry[m].at = "received"
        BY <1>0, <1>4 DEF TakeReceived, SweptEntry, Absent, CountedTypes
    <2>3. Life(m) = "kept"
        BY <2>2, InPlaceIsKept DEF StageAt
    <2>4. Life(m)' = "handed"
        BY <1>0, <1>4, <2>2
        DEF TakeReceived, Life, ValueInv, NewNamesAreClean, CountedTypes
    <2> QED
        BY <2>1, <2>3, <2>4 DEF Moved, Lives!Moves
<1>5. ASSUME NEW m \in Names, NEW size \in UploadSizes, AuthorizeUpload(m, size) PROVE Goal
    <2>1. Rest(m)
        BY <1>0, <1>5 DEF AuthorizeUpload, Unnamed, Claimed, SweptEntry, Absent, CountedTypes
    <2>2. Life(m) = "unborn"
        BY <1>5 DEF AuthorizeUpload, Life
    <2>3. entry'[m].at = "ticket"
        BY <1>0, <1>5 DEF AuthorizeUpload, SweptEntry
    <2>4. Life(m)' = "promised"
        BY <2>3, InPlaceIsKeptNext DEF StageAt
    <2> QED
        BY <2>1, <2>2, <2>4 DEF Moved, Lives!Moves
<1>6. ASSUME NEW q \in Requests, Reserve(q) PROVE Goal
    BY <1>0, <1>6
    DEF Reserve, Unnamed, Claimed, SweptEntry, Absent, CountedTypes, HeldAs, Holding
<1>7. ASSUME NEW q \in Requests, HeldAs("slot", q), Release(q) PROVE Goal
    BY <1>0, <1>7 DEF Release, Unnamed, Claimed, CountedTypes, HeldAs, Holding
<1>8. ASSUME NEW q \in Requests, ReturnBytes(q) PROVE Goal
    BY <1>0, <1>8 DEF ReturnBytes, Unnamed, Claimed, CountedTypes, HeldAs, Nothing
<1>9. ASSUME NEW q \in Requests, HeldAs("claim", q), Release(q) PROVE \A n \in Names : Keeps(n)
    <2>1. PICK m \in Names : m = req[q].name /\ Life(m) = "claimed"
        BY <1>0, <1>9, ClaimedHasLife DEF HeldAs
    <2>2. Rest(m)
        BY <1>0, <1>9, <2>1 DEF Release, Unnamed, Claimed, CountedTypes, HeldAs, Holding
    <2>3. ~ Claimed(m)'
        BY <1>0, <1>9, <2>1
        DEF Release, Claimed, CountedTypes, HeldAs, Holding, ValueInv, ClaimsAreExclusive
    <2>4. Life(m)' = "lost"
        BY <1>9, <2>3, <2>1
        DEF Release, Life, StageAt, HeldAs, ValueInv, ClaimedIsUnredeemed
    <2>5. Keeps(m)
        BY <2>1, <2>4 DEF Keeps, Lives!Losses
    <2> QED
        BY <2>1, <2>2, <2>5, UnnamedKeeps
<1>10. ASSUME NEW q \in Requests, Complete(q) PROVE Goal
    <2>1. PICK m \in Names : m = req[q].name /\ Life(m) = "claimed"
        BY <1>0, <1>10, ClaimedHasLife DEF HeldAs, Complete
    <2>2. Rest(m)
        BY <1>0, <1>10, <2>1 DEF Complete, Unnamed, Claimed, CountedTypes, HeldAs, Nothing
    <2>3. entry'[m].at = "received"
        BY <1>0, <1>10, <2>1 DEF Complete, CountedTypes
    <2>4. Life(m)' = "kept"
        BY <2>1, <2>3, InPlaceIsKeptNext DEF StageAt
    <2> QED
        BY <2>1, <2>2, <2>4 DEF Moved, Lives!Moves
<1>11. ASSUME NEW q \in Requests, NEW m \in Names, Claim(q, m) PROVE Goal
    <2>1. Rest(m)
        BY <1>0, <1>11
        DEF Claim, Unnamed, Claimed, SweptEntry, Absent, CountedTypes, HeldAs, Holding
    <2>2. entry[m].at = "ticket"
        BY <1>0, <1>11 DEF Claim, SweptEntry, Absent, CountedTypes
    <2>3. Life(m) = "promised"
        BY <2>2, InPlaceIsKept DEF StageAt
    <2>4. req'[q].holds = "claim" /\ req'[q].name = m
        BY <1>0, <1>11 DEF Claim, CountedTypes, Holding
    <2>5. Life(m)' = "claimed"
        BY <2>4, ClaimedHasLifeNext
    <2> QED
        BY <2>1, <2>3, <2>5 DEF Moved, Lives!Moves
<1>12. ASSUME NEW q \in Requests, NEW m \in Names, NEW size \in EnvelopeSizes,
              Stage(q, m, size)
       PROVE  Goal
    <2>1. Rest(m)
        BY <1>0, <1>12 DEF Stage, Unnamed, Claimed, CountedTypes, HeldAs, Nothing
    <2>2. Life(m) = "unborn"
        BY <1>12 DEF Stage, Life
    <2>3. entry'[m].at = "staged"
        BY <1>0, <1>12 DEF Stage, CountedTypes
    <2>4. Life(m)' = "kept"
        BY <2>3, InPlaceIsKeptNext DEF StageAt
    <2> QED
        BY <2>1, <2>2, <2>4 DEF Moved, Lives!Moves
<1>13. ASSUME NEW q \in Requests, NEW m \in Names, NEW t \in 1..MaxTickets,
              Serve(q, m, t)
       PROVE  Goal
    <2>1. Rest(m)
        BY <1>0, <1>13
        DEF Serve, Unnamed, Claimed, SweptEntry, Absent, CountedTypes, HeldAs, Holding
    <2>2. entry[m].at = "staged"
        BY <1>0, <1>13 DEF Serve, SweptEntry, Absent, CountedTypes
    <2>3. Life(m) = "kept"
        BY <2>2, InPlaceIsKept DEF StageAt
    <2>4. Life(m)' = "handed"
        BY <1>0, <1>13, <2>2
        DEF Serve, Life, ValueInv, NewNamesAreClean, CountedTypes
    <2> QED
        BY <2>1, <2>3, <2>4 DEF Moved, Lives!Moves
<1>14. Goal => \/ \A n \in Names : Keeps(n)
               \/ \E m \in Names : Moved(m) /\ \A n \in Names \ {m} : Keeps(n)
    BY UnnamedKeeps
<1> HIDE DEF Goal
<1>15. ASSUME NEW q \in Requests, Release(q) PROVE Goal \/ \A n \in Names : Keeps(n)
    BY <1>7, <1>9, <1>15 DEF Release
<1> QED
    BY <1>1, <1>2, <1>3, <1>4, <1>5, <1>6, <1>8, <1>10, <1>11, <1>12, <1>13, <1>14, <1>15
    DEF Next

(* The abstract life begins where the plane begins, ... *)
LEMMA InitLife == Init => Lives!Init
BY DEF Init, Lives!Init, Life

(* ... and every step of the plane is one of its steps. *)
LEMMA LifeSteps ==
    ValueInv /\ ValueInv' /\ [Next]_vars => [Lives!Next]_([n \in Names |-> Life(n)])
<1> SUFFICES ASSUME ValueInv, ValueInv', [Next]_vars
             PROVE  [Lives!Next]_([n \in Names |-> Life(n)])
    OBVIOUS
<1>1. CASE UNCHANGED vars
    BY <1>1 DEF vars, Life, Claimed
<1>2. CASE Next
    <2>1. ASSUME NEW n \in Names PROVE Life(n)' \in Lives!Stages
        BY DEF Life, StageAt, Lives!Stages
    <2>2. CASE \A n \in Names : Keeps(n)
        <3>1. CASE Names = {}
            BY <3>1
        <3>2. CASE Names # {}
            BY <2>1, <2>2, <3>2 DEF Lives!Next, Lives!StepOf, Keeps
        <3> QED
            BY <3>1, <3>2
    <2>3. ASSUME NEW m \in Names, Moved(m), \A n \in Names \ {m} : Keeps(n)
          PROVE  Lives!StepOf(m)
        BY <2>1, <2>3 DEF Lives!StepOf, Keeps, Moved
    <2> QED
        BY <1>2, <2>2, <2>3, NextLife DEF Lives!Next
<1> QED
    BY <1>1, <1>2

(* What is staged, promised, claimed or handed over stays so until it      *)
(* moves on: no value returns, no value is handed to two receivers, and    *)
(* none skips the claim of its uploader.                                   *)
THEOREM LivesGoForward == Spec => Lives!Spec
BY InitLife, LifeSteps, Invariance, PTL DEF Spec, Lives!Spec

------------------------------------------------------------------------------
(* A value that the plane keeps leaves, or stays in its map, of its size   *)
(* and at least as old: no authorization, completion or sweep renews it.   *)
EntriesOnlyAge ==
    [][\A n \in Names : entry[n].at # "absent" =>
          \/ entry'[n].at = "absent"
          \/ /\ entry'[n].at = entry[n].at /\ entry'[n].bytes = entry[n].bytes
             /\ entry'[n].age >= entry[n].age]_vars

LEMMA AgingSteps ==
    ASSUME ValueInv, Next, NEW n \in Names, entry[n].at # "absent"
    PROVE  \/ entry'[n].at = "absent"
           \/ /\ entry'[n].at = entry[n].at /\ entry'[n].bytes = entry[n].bytes
              /\ entry'[n].age >= entry[n].age
<1> DEFINE Aged == \/ entry'[n].at = "absent"
                   \/ /\ entry'[n].at = entry[n].at /\ entry'[n].bytes = entry[n].bytes
                      /\ entry'[n].age >= entry[n].age
<1>0. CountedTypes /\ n \in minted
    BY DEF ValueInv, NewNamesAreClean
<1>00. SweptEntry[n] = entry[n] \/ SweptEntry[n].at = "absent"
    BY <1>0 DEF SweptEntry, Absent, CountedTypes
<1>1. ASSUME Sweep PROVE Aged
    BY <1>0, <1>00, <1>1 DEF Sweep, CountedTypes
<1>2. ASSUME Tick PROVE Aged
    BY <1>0, <1>2 DEF Tick, CountedTypes
<1>3. ASSUME NEW m \in Names, AuthorizeDownload(m) PROVE Aged
    BY <1>0, <1>00, <1>3 DEF AuthorizeDownload, SweptEntry, CountedTypes
<1>4. ASSUME NEW m \in Names, TakeReceived(m) PROVE Aged
    BY <1>0, <1>00, <1>4 DEF TakeReceived, SweptEntry, Absent, CountedTypes
<1>5. ASSUME NEW m \in Names, NEW size \in UploadSizes, AuthorizeUpload(m, size)
      PROVE  Aged
    <2>1. n # m
        BY <1>0, <1>5 DEF AuthorizeUpload
    <2> QED
        BY <1>0, <1>00, <1>5, <2>1 DEF AuthorizeUpload, SweptEntry, CountedTypes
<1>6. ASSUME NEW q \in Requests, Reserve(q) PROVE Aged
    BY <1>0, <1>00, <1>6 DEF Reserve, CountedTypes
<1>7. ASSUME NEW q \in Requests, Release(q) \/ ReturnBytes(q) PROVE Aged
    BY <1>0, <1>7 DEF Release, ReturnBytes, CountedTypes
<1>8. ASSUME NEW q \in Requests, Complete(q) PROVE Aged
    <2>1. n # req[q].name
        BY <1>8 DEF Complete, HeldAs, ValueInv, ClaimedIsUnredeemed
    <2> QED
        BY <1>0, <1>8, <2>1 DEF Complete, CountedTypes
<1>9. ASSUME NEW q \in Requests, NEW m \in Names, Claim(q, m) PROVE Aged
    BY <1>0, <1>00, <1>9 DEF Claim, SweptEntry, Absent, CountedTypes
<1>10. ASSUME NEW q \in Requests, NEW m \in Names, NEW size \in EnvelopeSizes,
              Stage(q, m, size)
       PROVE  Aged
    <2>1. n # m
        BY <1>0, <1>10 DEF Stage
    <2> QED
        BY <1>0, <1>10, <2>1 DEF Stage, CountedTypes
<1>11. ASSUME NEW q \in Requests, NEW m \in Names, NEW t \in 1..MaxTickets,
              Serve(q, m, t)
       PROVE  Aged
    BY <1>0, <1>00, <1>11 DEF Serve, SweptEntry, Absent, CountedTypes
<1> HIDE DEF Aged
<1>12. Aged
    BY <1>1, <1>2, <1>3, <1>4, <1>5, <1>6, <1>7, <1>8, <1>9, <1>10, <1>11 DEF Next
<1> QED
    BY <1>12 DEF Aged

(* The safety half of EveryEntryGoes: the age of what the plane keeps only *)
(* grows, so that the sweeper, whenever it runs, finds it expired at last. *)
(* authorize_download in particular gives a value a new ticket and no new  *)
(* lifetime.                                                               *)
THEOREM NoValueIsRenewed == Spec => EntriesOnlyAge
<1> DEFINE OnlyAge == \A n \in Names : entry[n].at # "absent" =>
              \/ entry'[n].at = "absent"
              \/ /\ entry'[n].at = entry[n].at /\ entry'[n].bytes = entry[n].bytes
                 /\ entry'[n].age >= entry[n].age
<1>1. ValueInv /\ [Next]_vars => [OnlyAge]_vars
    BY AgingSteps
<1> QED
    BY <1>1, Invariance, PTL DEF Spec, EntriesOnlyAge
==============================================================================
