--------------------------- MODULE TraversalProofs ---------------------------
(***************************************************************************)
(* Proofs about Traversal for any limits, ceilings and offsets and for     *)
(* collections of any length: a caller who follows the continuations gets  *)
(* every item that stays, none twice, is refused only by a collection that *)
(* is too long, and goes forward with every page.                          *)
(***************************************************************************)
EXTENDS Traversal, SequenceTheorems, TLAPS

Kinds == {"local", "counted", "uncounted", "limited"}
Ascending(s) == \A i, j \in 1 .. Len(s) : i < j => s[i] < s[j]

Types ==
    /\ kind \in Kinds
    /\ list \in Seq(Nat) /\ found \in Seq(Nat)
    /\ made \in Nat /\ first \in Nat
    /\ limit \in Nat \ {0} /\ offset \in Nat
    /\ shifted \in BOOLEAN

(* The oldest items come first, and whatever is behind the offset is newer *)
(* than all that the caller has: removals only move items to the front.    *)
OldestFirst ==
    /\ Ascending(list) /\ Ascending(found)
    /\ \A i \in 1 .. Len(list) : list[i] <= made
    /\ \A j \in 1 .. Len(found) : found[j] <= made
    /\ outcome = "going" =>
         \A j \in 1 .. Len(found), i \in 1 .. Len(list) : i > offset => found[j] < list[i]

(* The caller has what is in front of the offset, and in the end all.      *)
Covered ==
    ~shifted =>
      /\ offset <= Len(list)
      /\ \A i \in 1 .. Len(list) :
           i <= offset \/ outcome = "done" => \E j \in 1 .. Len(found) : found[j] = list[i]

PagesInv == Types /\ OldestFirst /\ Covered /\ RefusedOnlyIfLong

(* What a page holds, and when it is the last one. *)
LEMMA PageFacts ==
    ASSUME PagesInv
    PROVE  /\ Served \in Seq(Nat)
           /\ EffectiveLimit \in Nat \ {0}
           /\ Len(Served) > 0 => offset + Len(Served) <= Len(list)
           /\ \A i \in 1 .. Len(Served) : Served[i] = list[offset + i]
           /\ Ended(Len(Served)) => offset + Len(Served) >= Len(list)
           /\ ~Ended(Len(Served)) => Len(Served) > 0
<1> DEFINE last == Least(offset + EffectiveLimit, Len(list))
<1>1. /\ offset \in Nat /\ Len(list) \in Nat /\ list \in Seq(Nat)
      /\ limit \in Nat \ {0} /\ Ceiling \in Nat \ {0}
    BY BoundsAssumption DEF PagesInv, Types
<1>2. EffectiveLimit \in Nat \ {0}
    BY <1>1 DEF EffectiveLimit, Least
<1>3. Served = SubSeq(list, offset + 1, last)
    BY <1>1, <1>2 DEF Served, EffectiveLimit, Least
<1>4. /\ last \in Nat /\ last <= Len(list) /\ last <= offset + EffectiveLimit
      /\ last = offset + EffectiveLimit \/ last = Len(list)
    BY <1>1, <1>2 DEF Least
<1> HIDE DEF last
<1>5. \A i \in (offset + 1) .. last : list[i] \in Nat
    BY <1>1, <1>4
<1>6. /\ Served \in Seq(Nat)
      /\ Len(Served) = IF offset + 1 <= last THEN last - offset ELSE 0
      /\ \A i \in 1 .. last - offset : Served[i] = list[offset + i]
    <2>1. /\ Served \in Seq(Nat)
          /\ Len(Served) = IF offset + 1 <= last THEN last - (offset + 1) + 1 ELSE 0
          /\ \A i \in 1 .. last - (offset + 1) + 1 : Served[i] = list[(offset + 1) + i - 1]
        BY <1>1, <1>3, <1>4, <1>5, SubSeqProperties
    <2> QED
        BY <1>1, <1>4, <2>1
<1>7. \A i \in 1 .. Len(Served) : Served[i] = list[offset + i]
    BY <1>1, <1>4, <1>6
<1>8. Len(Served) < EffectiveLimit => offset + Len(Served) >= Len(list)
    BY <1>1, <1>2, <1>4, <1>6
<1> QED
    BY <1>1, <1>2, <1>4, <1>6, <1>7, <1>8 DEF Ended

(* The caller's items after a page: still ascending, and exactly one page  *)
(* more.                                                                   *)
LEMMA PageAdded ==
    ASSUME PagesInv, outcome = "going", found' = found \o Served
    PROVE  /\ found' \in Seq(Nat) /\ Len(found') = Len(found) + Len(Served)
           /\ \A j \in 1 .. Len(found) : found'[j] = found[j]
           /\ \A i \in 1 .. Len(Served) : found'[Len(found) + i] = list[offset + i]
           /\ Ascending(found')
           /\ \A j \in 1 .. Len(found') :
                /\ found'[j] <= made
                /\ \A i \in 1 .. Len(list) : i > offset + Len(Served) => found'[j] < list[i]
<1>1. /\ offset \in Nat /\ list \in Seq(Nat) /\ found \in Seq(Nat) /\ made \in Nat
      /\ Len(list) \in Nat /\ Len(found) \in Nat
    BY DEF PagesInv, Types
<1>2. /\ Served \in Seq(Nat) /\ Len(Served) \in Nat
      /\ Len(Served) > 0 => offset + Len(Served) <= Len(list)
      /\ \A i \in 1 .. Len(Served) : Served[i] = list[offset + i]
    BY PageFacts
<1>3. /\ found' \in Seq(Nat) /\ Len(found') = Len(found) + Len(Served)
      /\ \A i \in 1 .. Len(found) + Len(Served) :
           found'[i] = IF i <= Len(found) THEN found[i] ELSE Served[i - Len(found)]
    BY <1>1, <1>2, ConcatProperties
<1>4. \A j \in 1 .. Len(found) : found'[j] = found[j]
    BY <1>1, <1>2, <1>3
<1>5. \A i \in 1 .. Len(Served) : found'[Len(found) + i] = list[offset + i]
    BY <1>1, <1>2, <1>3
<1>6. ASSUME NEW j \in 1 .. Len(found') 
      PROVE  \/ j \in 1 .. Len(found)
             \/ \E i \in 1 .. Len(Served) :
                  /\ j = Len(found) + i /\ found'[j] = list[offset + i]
                  /\ offset + i \in 1 .. Len(list)
    <2>1. CASE j > Len(found)
        <3>1. j - Len(found) \in 1 .. Len(Served)
            BY <1>1, <1>2, <1>3, <2>1
        <3>2. j = Len(found) + (j - Len(found))
            BY <1>1, <1>3
        <3>3. offset + (j - Len(found)) \in 1 .. Len(list)
            BY <1>1, <1>2, <3>1
        <3> QED
            BY <1>5, <3>1, <3>2, <3>3
    <2> QED
        BY <1>1, <1>3, <2>1
<1>7. Ascending(found')
    <2> SUFFICES ASSUME NEW j \in 1 .. Len(found'), NEW k \in 1 .. Len(found'), j < k
                 PROVE  found'[j] < found'[k]
        BY DEF Ascending
    <2>1. CASE k \in 1 .. Len(found)
        <3>1. j \in 1 .. Len(found)
            BY <1>1, <2>1
        <3> QED
            BY <1>4, <2>1, <3>1 DEF PagesInv, OldestFirst, Ascending
    <2>2. ASSUME NEW i \in 1 .. Len(Served), k = Len(found) + i,
                 found'[k] = list[offset + i], offset + i \in 1 .. Len(list)
          PROVE  found'[j] < found'[k]
        <3>1. CASE j \in 1 .. Len(found)
            <4>1. offset + i > offset
                BY <1>1
            <4> QED
                BY <1>4, <2>2, <3>1, <4>1 DEF PagesInv, OldestFirst
        <3>2. ASSUME NEW h \in 1 .. Len(Served), j = Len(found) + h,
                     found'[j] = list[offset + h], offset + h \in 1 .. Len(list)
              PROVE  found'[j] < found'[k]
            <4>1. offset + h < offset + i
                BY <1>1, <1>2, <2>2, <3>2
            <4> QED
                BY <2>2, <3>2, <4>1 DEF PagesInv, OldestFirst, Ascending
        <3> QED
            BY <1>6, <3>1, <3>2
    <2> QED
        BY <1>6, <2>1, <2>2
<1>8. ASSUME NEW j \in 1 .. Len(found') PROVE found'[j] <= made
    BY <1>4, <1>6, <1>8 DEF PagesInv, OldestFirst
<1>9. ASSUME NEW j \in 1 .. Len(found'), NEW i \in 1 .. Len(list), i > offset + Len(Served)
      PROVE  found'[j] < list[i]
    <2>1. CASE j \in 1 .. Len(found)
        <3>1. i > offset
            BY <1>1, <1>2, <1>9
        <3> QED
            BY <1>4, <2>1, <3>1 DEF PagesInv, OldestFirst
    <2>2. ASSUME NEW h \in 1 .. Len(Served), found'[j] = list[offset + h],
                 offset + h \in 1 .. Len(list)
          PROVE  found'[j] < list[i]
        <3>1. offset + h < i
            BY <1>1, <1>2, <1>9
        <3> QED
            BY <2>2, <3>1 DEF PagesInv, OldestFirst, Ascending
    <2> QED
        BY <1>6, <2>1, <2>2
<1> QED
    BY <1>3, <1>4, <1>5, <1>7, <1>8, <1>9

(* Everything in front of the end of the page is with the caller. *)
LEMMA PageCovers ==
    ASSUME PagesInv, outcome = "going", found' = found \o Served, ~shifted,
           NEW i \in 1 .. Len(list), i <= offset + Len(Served)
    PROVE  \E j \in 1 .. Len(found') : found'[j] = list[i]
<1>1. /\ offset \in Nat /\ Len(found) \in Nat /\ Len(Served) \in Nat
      /\ Len(found') = Len(found) + Len(Served)
    BY PageFacts, PageAdded DEF PagesInv, Types
<1>2. CASE i <= offset
    <2>1. PICK j \in 1 .. Len(found) : found[j] = list[i]
        BY <1>2 DEF PagesInv, Covered
    <2>2. j \in 1 .. Len(found') /\ found'[j] = list[i]
        BY <1>1, <2>1, PageAdded
    <2> QED
        BY <2>2
<1>3. CASE i > offset
    <2> DEFINE k == i - offset
    <2>1. k \in 1 .. Len(Served) /\ offset + k = i
        BY <1>1, <1>3
    <2>2. Len(found) + k \in 1 .. Len(found')
        BY <1>1, <2>1
    <2> HIDE DEF k
    <2>3. \A h \in 1 .. Len(Served) : found'[Len(found) + h] = list[offset + h]
        BY PageAdded
    <2>4. found'[Len(found) + k] = list[i]
        BY <2>1, <2>3
    <2> QED
        BY <2>2, <2>4
<1> QED
    BY <1>1, <1>2, <1>3

(* A sequence without the item at r. *)
Without(s, r) == SubSeq(s, 1, r - 1) \o SubSeq(s, r + 1, Len(s))

LEMMA WithoutOne ==
    ASSUME NEW s \in Seq(Nat), NEW r \in 1 .. Len(s)
    PROVE  /\ Without(s, r) \in Seq(Nat) /\ Len(Without(s, r)) = Len(s) - 1
           /\ \A i \in 1 .. Len(Without(s, r)) :
                Without(s, r)[i] = IF i < r THEN s[i] ELSE s[i + 1]
<1> DEFINE t == Without(s, r)
           front == SubSeq(s, 1, r - 1)
           back == SubSeq(s, r + 1, Len(s))
<1>1. r \in Nat /\ Len(s) \in Nat /\ 1 <= r /\ r <= Len(s)
    OBVIOUS
<1>2. /\ front \in Seq(Nat)
      /\ Len(front) = IF 1 <= r - 1 THEN (r - 1) - 1 + 1 ELSE 0
      /\ \A i \in 1 .. (r - 1) - 1 + 1 : front[i] = s[1 + i - 1]
    <2>1. \A i \in 1 .. r - 1 : s[i] \in Nat
        BY <1>1
    <2>2. 1 \in Int /\ r - 1 \in Int
        BY <1>1
    <2> QED
        BY <2>1, <2>2, SubSeqProperties, SMTT(30)
<1>3. /\ back \in Seq(Nat)
      /\ Len(back) = IF r + 1 <= Len(s) THEN Len(s) - (r + 1) + 1 ELSE 0
      /\ \A i \in 1 .. Len(s) - (r + 1) + 1 : back[i] = s[(r + 1) + i - 1]
    <2>1. \A i \in r + 1 .. Len(s) : s[i] \in Nat
        BY <1>1
    <2>2. r + 1 \in Int /\ Len(s) \in Int
        BY <1>1
    <2> QED
        BY <2>1, <2>2, SubSeqProperties, SMTT(30)
<1>t. t = front \o back
    BY DEF Without
<1> HIDE DEF front, back, t
<1>4. Len(front) = r - 1 /\ Len(back) = Len(s) - r
    BY <1>1, <1>2, <1>3
<1>5. ASSUME NEW i \in 1 .. r - 1 PROVE front[i] = s[i]
    <2>1. i \in 1 .. (r - 1) - 1 + 1 /\ 1 + i - 1 = i
        BY <1>1
    <2> QED
        BY <1>2, <2>1
<1>6. ASSUME NEW i \in 1 .. Len(s) - r PROVE back[i] = s[r + i]
    <2>1. i \in 1 .. Len(s) - (r + 1) + 1 /\ (r + 1) + i - 1 = r + i
        BY <1>1
    <2> QED
        BY <1>3, <2>1
<1>7. /\ t \in Seq(Nat) /\ Len(t) = Len(front) + Len(back)
      /\ \A i \in 1 .. Len(front) + Len(back) :
           t[i] = IF i <= Len(front) THEN front[i] ELSE back[i - Len(front)]
    <2>2. front \in Seq(Nat) /\ back \in Seq(Nat)
        BY <1>2, <1>3
    <2>3. /\ front \o back \in Seq(Nat)
          /\ Len(front \o back) = Len(front) + Len(back)
          /\ \A i \in 1 .. Len(front) + Len(back) :
               (front \o back)[i] = IF i <= Len(front) THEN front[i] ELSE back[i - Len(front)]
        BY <2>2, ConcatProperties
    <2> QED
        BY <1>t, <2>3
<1>8. Len(t) = Len(s) - 1
    <2>1. Len(t) = Len(front) + Len(back)
        BY <1>7
    <2>2. Len(t) = (r - 1) + (Len(s) - r)
        BY <1>4, <2>1
    <2> QED
        BY <1>1, <2>2
<1>9. ASSUME NEW i \in 1 .. Len(t) PROVE t[i] = IF i < r THEN s[i] ELSE s[i + 1]
    <2>1. i \in Nat /\ 1 <= i /\ i <= Len(s) - 1
        BY <1>1, <1>8
    <2>2. CASE i < r
        <3>1. i \in 1 .. r - 1 /\ i <= Len(front) /\ i \in 1 .. Len(front) + Len(back)
            BY <1>1, <1>4, <2>1, <2>2
        <3> QED
            BY <1>5, <1>7, <2>2, <3>1
    <2>3. CASE ~(i < r)
        <3>1. /\ i - (r - 1) \in 1 .. Len(s) - r /\ r + (i - (r - 1)) = i + 1
              /\ ~(i <= r - 1) /\ i \in 1 .. Len(front) + Len(back)
            BY <1>1, <1>4, <2>1, <2>3
        <3>2. t[i] = back[i - (r - 1)]
            BY <1>4, <1>7, <3>1
        <3>3. back[i - (r - 1)] = s[r + (i - (r - 1))]
            BY <1>6, <3>1
        <3> QED
            BY <2>3, <3>1, <3>2, <3>3
    <2> QED
        BY <2>2, <2>3
<1> QED
    BY <1>7, <1>8, <1>9 DEF t

LEMMA InitPagesInv == Init => PagesInv
<1> SUFFICES ASSUME Init PROVE PagesInv
    OBVIOUS
<1>1. /\ first \in Nat /\ made = first /\ list = [i \in 1 .. first |-> i]
      /\ found = <<>> /\ outcome = "going" /\ offset = 0 /\ shifted = FALSE
      /\ kind \in Kinds /\ limit \in Nat \ {0}
    BY BoundsAssumption DEF Init, Kinds
<1>2. list \in Seq(Nat) /\ Len(list) = first
    BY <1>1
<1>3. found \in Seq(Nat) /\ Len(found) = 0
    BY <1>1
<1>4. Types
    BY <1>1, <1>2, <1>3 DEF Types
<1>5. OldestFirst
    BY <1>1, <1>2, <1>3 DEF OldestFirst, Ascending
<1>6. Covered /\ RefusedOnlyIfLong
    BY <1>1, <1>2 DEF Covered, RefusedOnlyIfLong
<1> QED
    BY <1>4, <1>5, <1>6 DEF PagesInv

LEMMA NextPagesInv == PagesInv /\ [Next]_vars => PagesInv'
<1> SUFFICES ASSUME PagesInv, [Next]_vars PROVE PagesInv'
    OBVIOUS
<1>0. /\ list \in Seq(Nat) /\ found \in Seq(Nat) /\ made \in Nat /\ offset \in Nat
      /\ Len(list) \in Nat /\ Len(found) \in Nat /\ Len(Served) \in Nat
    BY PageFacts DEF PagesInv, Types
<1>00. /\ \A i \in 1 .. Len(list) : list[i] \in Nat /\ list[i] <= made
       /\ \A i \in 1 .. Len(found) : found[i] \in Nat /\ found[i] <= made
       /\ \A i, j \in 1 .. Len(list) : i < j => list[i] < list[j]
    BY <1>0 DEF PagesInv, OldestFirst, Ascending
<1>1. CASE LastPage
    <2>1. /\ outcome = "going" /\ outcome' = "done" /\ found' = found \o Served
          /\ Ended(Len(Served))
          /\ UNCHANGED <<kind, list, made, first, limit, offset, shifted>>
        BY <1>1 DEF LastPage
    <2>2. \A i \in 1 .. Len(list) : i <= offset + Len(Served)
        BY <1>0, <2>1, PageFacts
    <2>3. ~shifted => \A i \in 1 .. Len(list) : \E j \in 1 .. Len(found') : found'[j] = list[i]
        BY <2>1, <2>2, PageCovers
    <2>4. Types'
        BY <2>1, PageAdded DEF PagesInv, Types
    <2>5. OldestFirst'
        BY <2>1, PageAdded DEF PagesInv, OldestFirst, Ascending
    <2>6. Covered' /\ RefusedOnlyIfLong'
        BY <2>1, <2>3 DEF PagesInv, Covered, RefusedOnlyIfLong
    <2> QED
        BY <2>4, <2>5, <2>6 DEF PagesInv
<1>2. CASE NextPage
    <2>1. /\ outcome = "going" /\ outcome' = "going" /\ found' = found \o Served
          /\ offset' = offset + Len(Served) /\ Len(Served) > 0
          /\ UNCHANGED <<kind, list, made, first, limit, shifted>>
        BY <1>0, <1>2, PageFacts DEF NextPage
    <2>2. offset' <= Len(list)
        BY <2>1, PageFacts
    <2>3. ~shifted => \A i \in 1 .. Len(list) :
                        i <= offset' => \E j \in 1 .. Len(found') : found'[j] = list[i]
        BY <2>1, PageCovers
    <2>4. Types'
        BY <1>0, <2>1, PageAdded DEF PagesInv, Types
    <2>5. OldestFirst'
        BY <2>1, PageAdded DEF PagesInv, OldestFirst, Ascending
    <2>6. Covered' /\ RefusedOnlyIfLong'
        BY <2>1, <2>2, <2>3 DEF PagesInv, Covered, RefusedOnlyIfLong
    <2> QED
        BY <2>4, <2>5, <2>6 DEF PagesInv
<1>3. CASE TooFar
    <2>1. /\ outcome = "going" /\ Len(Served) > 0
          /\ offset + Len(Served) > Limit
          /\ outcome' = (IF kind = "limited" THEN "CollectionTooLarge" ELSE "OffsetLimit")
          /\ UNCHANGED <<kind, list, made, first, limit, offset, found, shifted>>
        BY <1>0, <1>3, PageFacts DEF TooFar
    <2>2. Limit \in Nat /\ Len(list) > Limit
        BY <1>0, <2>1, PageFacts, BoundsAssumption DEF Limit
    <2>3. RefusedOnlyIfLong'
        BY <2>1, <2>2 DEF RefusedOnlyIfLong, Limit
    <2>4. Types' /\ OldestFirst' /\ Covered'
        BY <2>1 DEF PagesInv, Types, OldestFirst, Ascending, Covered
    <2> QED
        BY <2>3, <2>4 DEF PagesInv
<1>4. CASE Oversized
    BY <1>4 DEF Oversized, PagesInv, Types, OldestFirst, Ascending, Covered, RefusedOnlyIfLong
<1>5. CASE Append1
    <2>1. /\ outcome = "going" /\ made' = made + 1 /\ list' = Append(list, made + 1)
          /\ UNCHANGED <<kind, first, limit, offset, found, shifted, outcome>>
        BY <1>5 DEF Append1
    <2>2. /\ list' \in Seq(Nat) /\ Len(list') = Len(list) + 1
          /\ \A i \in 1 .. Len(list) : list'[i] = list[i]
          /\ list'[Len(list) + 1] = made + 1
        BY <1>0, <2>1, AppendProperties
    <2>3. \A i \in 1 .. Len(list') : i \in 1 .. Len(list) \/ i = Len(list) + 1
        BY <1>0, <2>2
    <2>4. Types'
        BY <1>0, <2>1, <2>2 DEF PagesInv, Types
    <2>5. \A i \in 1 .. Len(list) : list[i] < made + 1 /\ list[i] \in Nat
        BY <1>0, <1>00
    <2>6. \A j \in 1 .. Len(found) : found[j] < made + 1 /\ found[j] \in Nat
        BY <1>0, <1>00
    <2>7. Ascending(list')
        <3> SUFFICES ASSUME NEW i \in 1 .. Len(list'), NEW j \in 1 .. Len(list'), i < j
                     PROVE  list'[i] < list'[j]
            BY DEF Ascending
        <3>1. i \in 1 .. Len(list) /\ list'[i] = list[i]
            BY <1>0, <2>2
        <3>2. CASE j = Len(list) + 1
            BY <2>2, <2>5, <3>1, <3>2
        <3>3. CASE j \in 1 .. Len(list)
            BY <1>00, <2>2, <3>1, <3>3
        <3> QED
            BY <2>3, <3>2, <3>3
    <2>8. OldestFirst'
        BY <1>0, <2>1, <2>2, <2>3, <2>5, <2>6, <2>7 DEF PagesInv, OldestFirst, Ascending
    <2>9. Covered'
        BY <1>0, <2>1, <2>2, <2>3 DEF PagesInv, Covered
    <2> QED
        BY <2>1, <2>4, <2>8, <2>9 DEF PagesInv, RefusedOnlyIfLong
<1>6. ASSUME NEW r \in DOMAIN list, Remove(r) PROVE PagesInv'
    <2>1. /\ outcome = "going"
          /\ list' = Without(list, r)
          /\ shifted' = (shifted \/ r <= offset)
          /\ UNCHANGED <<kind, made, first, limit, offset, found, outcome>>
        BY <1>6 DEF Remove, Without
    <2>0. r \in 1 .. Len(list)
        BY <1>0
    <2>4. /\ list' \in Seq(Nat) /\ Len(list') = Len(list) - 1
          /\ \A i \in 1 .. Len(list') : list'[i] = IF i < r THEN list[i] ELSE list[i + 1]
        BY <1>0, <2>0, <2>1, WithoutOne
    <2>5. ASSUME NEW i \in 1 .. Len(list')
          PROVE  \E k \in 1 .. Len(list) :
                   /\ list'[i] = list[k]
                   /\ k = IF i < r THEN i ELSE i + 1
        <3>1. CASE i < r
            <4>1. i \in 1 .. Len(list)
                BY <1>0, <2>4
            <4>2. list'[i] = list[i]
                BY <2>4, <3>1
            <4> QED
                BY <3>1, <4>1, <4>2
        <3>2. CASE ~(i < r)
            <4>1. i + 1 \in 1 .. Len(list)
                BY <1>0, <2>4
            <4>2. list'[i] = list[i + 1]
                BY <2>4, <3>2
            <4> QED
                BY <3>2, <4>1, <4>2
        <3> QED
            BY <3>1, <3>2
    <2>6. Types'
        BY <2>1, <2>4 DEF PagesInv, Types
    <2>7. Ascending(list')
        <3> SUFFICES ASSUME NEW i \in 1 .. Len(list'), NEW j \in 1 .. Len(list'), i < j
                     PROVE  list'[i] < list'[j]
            BY DEF Ascending
        <3>1. PICK k \in 1 .. Len(list) :
                list'[i] = list[k] /\ k = IF i < r THEN i ELSE i + 1
            BY <2>5
        <3>2. PICK h \in 1 .. Len(list) :
                list'[j] = list[h] /\ h = IF j < r THEN j ELSE j + 1
            BY <2>5
        <3>3. k < h
            <4>1. i \in Nat /\ j \in Nat /\ r \in Nat
                BY <1>0, <2>0, <2>4
            <4> QED
                BY <3>1, <3>2, <4>1
        <3> QED
            BY <3>1, <3>2, <3>3 DEF PagesInv, OldestFirst, Ascending
    <2>8. ASSUME NEW i \in 1 .. Len(list')
          PROVE  /\ list'[i] <= made
                 /\ i > offset => \A j \in 1 .. Len(found) : found[j] < list'[i]
        <3>1. PICK k \in 1 .. Len(list) :
                list'[i] = list[k] /\ k = IF i < r THEN i ELSE i + 1
            BY <2>5
        <3>2. i > offset => k > offset
            BY <1>0, <2>0, <3>1
        <3> QED
            BY <2>1, <3>1, <3>2 DEF PagesInv, OldestFirst
    <2>9. OldestFirst'
        BY <2>1, <2>7, <2>8 DEF PagesInv, OldestFirst, Ascending
    <2>10. Covered'
        <3> SUFFICES ASSUME ~shifted' PROVE Covered'
            BY DEF Covered
        <3>1. ~shifted /\ r > offset
            <4>1. ~(shifted \/ r <= offset)
                BY <2>1
            <4>2. ~shifted /\ ~(r <= offset)
                BY <4>1
            <4> QED
                BY <1>0, <2>0, <4>2
        <3>2. offset <= Len(list')
            BY <1>0, <2>0, <2>4, <3>1
        <3>3. ASSUME NEW i \in 1 .. Len(list'), i <= offset
              PROVE  list'[i] = list[i] /\ i \in 1 .. Len(list)
            BY <1>0, <2>0, <2>4, <3>1, <3>3
        <3> QED
            BY <2>1, <3>1, <3>2, <3>3 DEF PagesInv, Covered
    <2> QED
        BY <2>1, <2>6, <2>9, <2>10 DEF PagesInv, RefusedOnlyIfLong
<1>7. CASE UNCHANGED vars
    BY <1>7 DEF vars, PagesInv, Types, OldestFirst, Ascending, Covered, RefusedOnlyIfLong
<1> QED
    BY <1>1, <1>2, <1>3, <1>4, <1>5, <1>6, <1>7 DEF Next, Others

LEMMA PagesInvSuffices == PagesInv => EveryItemOnce
<1> SUFFICES ASSUME PagesInv PROVE EveryItemOnce
    OBVIOUS
<1>1. /\ list \in Seq(Nat) /\ found \in Seq(Nat)
      /\ DOMAIN list = 1 .. Len(list) /\ DOMAIN found = 1 .. Len(found)
    BY DEF PagesInv, Types
<1>2. NothingIsMissed
    <2> SUFFICES ASSUME outcome = "done", ~shifted, NEW x \in ItemsOf(list)
                 PROVE  x \in ItemsOf(found)
        BY DEF NothingIsMissed
    <2>1. PICK i \in 1 .. Len(list) : x = list[i]
        BY <1>1 DEF ItemsOf
    <2>2. PICK j \in 1 .. Len(found) : found[j] = list[i]
        BY <2>1 DEF PagesInv, Covered
    <2> QED
        BY <1>1, <2>1, <2>2 DEF ItemsOf
<1>3. NothingComesTwice
    <2> SUFFICES ASSUME NEW i \in 1 .. Len(found), NEW j \in 1 .. Len(found), i # j
                 PROVE  found[i] # found[j]
        BY <1>1 DEF NothingComesTwice
    <2>1. i < j \/ j < i
        BY <1>1
    <2>2. found[i] < found[j] \/ found[j] < found[i]
        BY <2>1 DEF PagesInv, OldestFirst, Ascending
    <2>3. found[i] \in Nat /\ found[j] \in Nat
        BY <1>1
    <2> QED
        BY <2>2, <2>3
<1> QED
    BY <1>2, <1>3 DEF PagesInv, EveryItemOnce

(* A caller who follows the continuations to the end gets every item that  *)
(* stays, none twice, and is refused only by a collection that is too long *)
(* (PageRequest::next, clamped_to, Page::new).                             *)
THEOREM ItemsComeOnce == Spec => []EveryItemOnce
<1> QED
    BY InitPagesInv, NextPagesInv, PagesInvSuffices, PTL DEF Spec

-----------------------------------------------------------------------------
(* The caller has exactly the items in front of its offset, which never    *)
(* passes the limit of the route.                                          *)
OffsetInv ==
    /\ limit \in Limits /\ offset <= Limit /\ Len(found) >= offset
    /\ outcome = "going" => Len(found) = offset

(* A traversal moves on with every answer: it ends, or its offset grows    *)
(* and stays within the limit of the route.  What others do to the         *)
(* collection in between neither moves it nor ends it.                     *)
EveryPageAdvances ==
    [][\/ UNCHANGED <<offset, found, outcome>>
       \/ outcome = "going" /\ outcome' # "going" /\ offset' = offset
       \/ outcome' = "going" /\ offset < offset' /\ offset' <= Limit]_vars

LEMMA NextOffsetInv == PagesInv /\ OffsetInv /\ [Next]_vars => OffsetInv'
<1> SUFFICES ASSUME PagesInv, OffsetInv, [Next]_vars PROVE OffsetInv'
    OBVIOUS
<1>1. /\ offset \in Nat /\ Len(found) \in Nat /\ Len(Served) \in Nat
    BY PageFacts DEF PagesInv, Types
<1>2. kind' = kind /\ limit' = limit
    BY DEF Next, LastPage, NextPage, TooFar, Oversized, Others, Append1, Remove, vars
<1>3. Limit' = Limit
    BY <1>2 DEF Limit
<1>4. CASE LastPage
    <2>1. Len(found') = Len(found) + Len(Served)
        BY <1>4, PageAdded DEF LastPage
    <2>2. offset' = offset /\ outcome' = "done"
        BY <1>4 DEF LastPage
    <2> QED
        BY <1>1, <1>2, <1>3, <2>1, <2>2 DEF OffsetInv
<1>5. CASE NextPage
    <2>1. Len(found') = Len(found) + Len(Served)
        BY <1>5, PageAdded DEF NextPage
    <2>2. /\ offset' = offset + Len(Served) /\ offset + Len(Served) <= Limit
          /\ outcome = "going"
        BY <1>5 DEF NextPage
    <2>3. Len(found) = offset
        BY <2>2 DEF OffsetInv
    <2> QED
        BY <1>1, <1>2, <1>3, <2>1, <2>2, <2>3 DEF OffsetInv
<1>6. CASE TooFar \/ Oversized \/ Others \/ UNCHANGED vars
    <2>1. /\ found' = found /\ offset' = offset
          /\ outcome' = "going" => outcome = "going"
        BY <1>6 DEF TooFar, Oversized, Others, Append1, Remove, vars
    <2> QED
        BY <1>2, <1>3, <2>1 DEF OffsetInv
<1> QED
    BY <1>4, <1>5, <1>6 DEF Next

(* Items are numbered as they are made, within the bound of the model. *)
ItemsInv ==
    /\ first <= made /\ made <= MaxItems
    /\ \A i \in 1 .. Len(list) : list[i] >= 1
    /\ outcome \in {"going", "done", "OffsetLimit", "CollectionTooLarge", "OversizedPage"}

LEMMA NextItemsInv == PagesInv /\ ItemsInv /\ [Next]_vars => ItemsInv'
<1> SUFFICES ASSUME PagesInv, ItemsInv, [Next]_vars PROVE ItemsInv'
    OBVIOUS
<1>1. /\ list \in Seq(Nat) /\ Len(list) \in Nat
      /\ made \in Nat /\ first \in Nat /\ MaxItems \in Nat
    BY BoundsAssumption DEF PagesInv, Types
<1>2. CASE LastPage \/ NextPage \/ TooFar \/ Oversized \/ UNCHANGED vars
    BY <1>2 DEF LastPage, NextPage, TooFar, Oversized, vars, ItemsInv
<1>3. CASE Append1
    <2>1. /\ made < MaxItems /\ made' = made + 1 /\ list' = Append(list, made + 1)
          /\ UNCHANGED <<first, outcome>>
        BY <1>3 DEF Append1
    <2>2. /\ Len(list') = Len(list) + 1
          /\ \A i \in 1 .. Len(list) : list'[i] = list[i]
          /\ list'[Len(list) + 1] = made + 1
        BY <1>1, <2>1, AppendProperties
    <2>3. \A i \in 1 .. Len(list') : list'[i] >= 1
        <3> SUFFICES ASSUME NEW i \in 1 .. Len(list') PROVE list'[i] >= 1
            OBVIOUS
        <3>1. CASE i = Len(list) + 1
            BY <1>1, <2>2, <3>1
        <3>2. CASE i # Len(list) + 1
            <4>1. i \in 1 .. Len(list)
                BY <1>1, <2>2, <3>2
            <4> QED
                BY <2>2, <4>1 DEF ItemsInv
        <3> QED
            BY <3>1, <3>2
    <2> QED
        BY <1>1, <2>1, <2>3 DEF ItemsInv
<1>4. ASSUME NEW r \in DOMAIN list, Remove(r) PROVE ItemsInv'
    <2>1. list' = Without(list, r) /\ UNCHANGED <<first, made, outcome>>
        BY <1>4 DEF Remove, Without
    <2>2. r \in 1 .. Len(list)
        BY <1>1
    <2>3. /\ Len(list') = Len(list) - 1
          /\ \A i \in 1 .. Len(list') : list'[i] = IF i < r THEN list[i] ELSE list[i + 1]
        BY <1>1, <2>1, <2>2, WithoutOne
    <2>4. \A i \in 1 .. Len(list') : list'[i] >= 1
        <3> SUFFICES ASSUME NEW i \in 1 .. Len(list') PROVE list'[i] >= 1
            OBVIOUS
        <3>1. i \in 1 .. Len(list) /\ i + 1 \in 1 .. Len(list)
            BY <1>1, <2>3
        <3>2. list[i] >= 1 /\ list[i + 1] >= 1
            BY <3>1 DEF ItemsInv
        <3> QED
            BY <2>3, <3>2
    <2> QED
        BY <2>1, <2>4 DEF ItemsInv
<1> QED
    BY <1>2, <1>3, <1>4 DEF Next, Others

(* The inductive invariants of Traversal. *)
THEOREM Invariance == Spec => [](PagesInv /\ OffsetInv /\ ItemsInv)
<1>1. Init => OffsetInv
    BY BoundsAssumption DEF Init, OffsetInv, Limit
<1>2. Init => ItemsInv
    <2> SUFFICES ASSUME Init PROVE ItemsInv
        OBVIOUS
    <2>1. first \in Nat /\ Len(list) = first /\ \A i \in 1 .. Len(list) : list[i] = i
        BY BoundsAssumption DEF Init
    <2> QED
        BY <2>1, BoundsAssumption DEF Init, ItemsInv
<1> QED
    BY <1>1, <1>2, InitPagesInv, NextPagesInv, NextOffsetInv, NextItemsInv, PTL DEF Spec

(* The types of the traversal's variables, the caller's items included. *)
THEOREM TypeCorrectness == Spec => []TypeOK
<1>1. PagesInv /\ OffsetInv /\ ItemsInv => TypeOK
    <2> SUFFICES ASSUME PagesInv, OffsetInv, ItemsInv PROVE TypeOK
        OBVIOUS
    <2>1. /\ list \in Seq(Nat) /\ DOMAIN list = 1 .. Len(list)
          /\ made \in Nat /\ first \in Nat /\ offset \in Nat /\ MaxItems \in Nat
          /\ Limit \in Nat
        BY BoundsAssumption DEF PagesInv, Types, Limit
    <2>2. ItemsOf(list) \subseteq 1 .. made
        <3> SUFFICES ASSUME NEW x \in ItemsOf(list) PROVE x \in 1 .. made
            OBVIOUS
        <3>1. PICK i \in 1 .. Len(list) : x = list[i]
            BY <2>1 DEF ItemsOf
        <3>2. list[i] \in Nat /\ list[i] >= 1 /\ list[i] <= made
            BY <2>1 DEF PagesInv, OldestFirst, ItemsInv
        <3> QED
            BY <2>1, <3>1, <3>2
    <2> QED
        BY <2>1, <2>2 DEF TypeOK, OffsetInv, ItemsInv
<1> QED
    BY <1>1, Invariance, PTL

(* The safety half of TraversalEnds: however others change the collection, *)
(* no continuation stays where it was or goes back, so that a traversal    *)
(* has at most as many pages as its route has offsets.                     *)
THEOREM PagesGoForward == Spec => EveryPageAdvances
<1> DEFINE Advances ==
        \/ UNCHANGED <<offset, found, outcome>>
        \/ outcome = "going" /\ outcome' # "going" /\ offset' = offset
        \/ outcome' = "going" /\ offset < offset' /\ offset' <= Limit
<1>1. PagesInv /\ OffsetInv /\ [Next]_vars => [Advances]_vars
    <2> SUFFICES ASSUME PagesInv, Next PROVE Advances
        OBVIOUS
    <2>1. CASE LastPage \/ TooFar \/ Oversized
        BY <2>1 DEF LastPage, TooFar, Oversized
    <2>2. CASE NextPage
        <3>1. offset \in Nat /\ Len(Served) \in Nat /\ Len(Served) > 0
            BY <2>2, PageFacts DEF NextPage, PagesInv, Types
        <3> QED
            BY <2>2, <3>1 DEF NextPage
    <2>3. CASE Others
        BY <2>3 DEF Others, Append1, Remove
    <2> QED
        BY <2>1, <2>2, <2>3 DEF Next
<1> QED
    BY <1>1, Invariance, PTL DEF Spec, EveryPageAdvances
=============================================================================
