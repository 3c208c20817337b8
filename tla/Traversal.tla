----------------------------- MODULE Traversal ------------------------------
(***************************************************************************)
(* A caller reads a collection page by page: it calls a list tool, follows *)
(* the continuation that comes with each page (pagination.rs, Page.next)   *)
(* and ends without one.  Between two calls others add to the end of the   *)
(* collection and remove from anywhere.                                    *)
(*                                                                         *)
(* Three kinds of lists: one that is read whole and cut locally            *)
(* (resources.rs, paginate), one whose pages come with a total, and one    *)
(* whose pages come without.  A route may have an offset limit of its own  *)
(* (identity_token_auth.rs).                                               *)
(***************************************************************************)
EXTENDS Naturals, Sequences

CONSTANTS
    Limits,      \* the page sizes that callers ask for
    Ceiling,     \* the largest page that a route of Infisical answers with
    MaxOffset,   \* MAX_PAGE_OFFSET
    RouteOffset, \* MAX_TOKEN_AUTH_LIST_OFFSET
    MaxItems     \* bound of the items that are ever made

ASSUME BoundsAssumption ==
    /\ Limits \subseteq Nat \ {0}
    /\ Ceiling \in Nat \ {0} /\ MaxItems \in Nat
    /\ MaxOffset \in Nat /\ RouteOffset \in 0 .. MaxOffset

VARIABLES
    kind,     \* "local", "counted", "uncounted" or "limited"
    list,     \* the collection, oldest item first; items are numbered
    made,     \* the items that have ever been in it are 1 .. made
    first,    \* those that it held when the traversal began are 1 .. first
    limit,    \* PageRequest.limit
    offset,   \* PageRequest.offset
    found,    \* the items that the caller has been given
    shifted,  \* an item in front of the offset has been removed
    outcome   \* "going", "done" or an error

vars == <<kind, list, made, first, limit, offset, found, shifted, outcome>>

Least(m, n) == IF m <= n THEN m ELSE n
ItemsOf(s) == {s[i] : i \in DOMAIN s}

Init ==
    /\ kind \in {"local", "counted", "uncounted", "limited"}
    /\ first \in 0 .. MaxItems /\ made = first
    /\ list = [i \in 1 .. first |-> i]
    /\ limit \in Limits /\ offset = 0
    /\ found = <<>> /\ shifted = FALSE /\ outcome = "going"

(* Mutant of EffectiveLimit: the page size goes to the route as it is. *)
RequestedLimit == limit

(* clamped_to *)
EffectiveLimit == IF kind = "local" THEN limit ELSE Least(limit, Ceiling)

(* Mutant of Served: the item at the offset comes again. *)
ServedInclusive ==
    SubSeq(list, IF offset = 0 THEN 1 ELSE offset, Least(offset + EffectiveLimit, Len(list)))

(* The page for an offset and a limit; a route gives no more than its      *)
(* ceiling, whatever it is asked for.                                      *)
Served ==
    LET size == IF kind = "local" THEN EffectiveLimit ELSE Least(EffectiveLimit, Ceiling)
    IN SubSeq(list, offset + 1, Least(offset + size, Len(list)))

(* Mutant of Ended: a page is the last one if the total says so. *)
EndedByTotal(returned) == kind \in {"local", "counted"} /\ offset + returned >= Len(list)

(* PageRequest::next: a short page, or a total that is reached. *)
Ended(returned) ==
    \/ returned < EffectiveLimit
    \/ kind \in {"local", "counted"} /\ offset + returned >= Len(list)

(* Mutant of Limit: an item at the limit is too many. *)
LimitExclusive == IF kind = "limited" THEN RouteOffset ELSE MaxOffset - 1

Limit == IF kind = "limited" THEN RouteOffset ELSE MaxOffset

LastPage ==
    /\ outcome = "going"
    /\ Ended(Len(Served))
    /\ found' = found \o Served
    /\ outcome' = "done"
    /\ UNCHANGED <<kind, list, made, first, limit, offset, shifted>>

(* Mutant of NextPage: the continuation skips what was asked for. *)
NextPageByRequest ==
    /\ outcome = "going"
    /\ ~Ended(Len(Served))
    /\ offset + Len(Served) <= Limit
    /\ found' = found \o Served
    /\ offset' = offset + limit
    /\ UNCHANGED <<kind, list, made, first, limit, shifted, outcome>>

(* The caller gets a page and its continuation, and follows it. *)
NextPage ==
    /\ outcome = "going"
    /\ ~Ended(Len(Served))
    /\ offset + Len(Served) <= Limit
    /\ found' = found \o Served
    /\ offset' = offset + Len(Served)
    /\ UNCHANGED <<kind, list, made, first, limit, shifted, outcome>>

(* PageRequest::new refuses the continuation, and the page goes with it. *)
TooFar ==
    /\ outcome = "going"
    /\ ~Ended(Len(Served))
    /\ offset + Len(Served) > Limit
    /\ outcome' = IF kind = "limited" THEN "CollectionTooLarge" ELSE "OffsetLimit"
    /\ UNCHANGED <<kind, list, made, first, limit, offset, found, shifted>>

(* A route that answers with more than it was asked for. *)
Oversized ==
    /\ outcome = "going" /\ kind # "local"
    /\ Len(list) > offset + EffectiveLimit
    /\ outcome' = "OversizedPage"
    /\ UNCHANGED <<kind, list, made, first, limit, offset, found, shifted>>

Append1 ==
    /\ outcome = "going" /\ made < MaxItems
    /\ made' = made + 1 /\ list' = Append(list, made + 1)
    /\ UNCHANGED <<kind, first, limit, offset, found, shifted, outcome>>

Remove(i) ==
    /\ outcome = "going"
    /\ list' = SubSeq(list, 1, i - 1) \o SubSeq(list, i + 1, Len(list))
    /\ shifted' = (shifted \/ i <= offset)
    /\ UNCHANGED <<kind, made, first, limit, offset, found, outcome>>

Others == Append1 \/ \E i \in DOMAIN list : Remove(i)

Next == LastPage \/ NextPage \/ TooFar \/ Oversized \/ Others

(* A caller that has a continuation follows it. *)
Spec == Init /\ [][Next]_vars /\ WF_vars(LastPage \/ NextPage \/ TooFar)
-----------------------------------------------------------------------------
TypeOK ==
    /\ made \in 0 .. MaxItems /\ first \in 0 .. made
    /\ ItemsOf(list) \subseteq 1 .. made
    /\ limit \in Limits /\ offset \in 0 .. Limit
    /\ Len(found) >= offset
    /\ outcome \in {"going", "done", "OffsetLimit", "CollectionTooLarge", "OversizedPage"}

(* A traversal that ends without a continuation has shown every item that  *)
(* was there all the time: page sizes that a route cuts, totals that come  *)
(* or do not come and pages that are exactly full lose nothing.  Only a    *)
(* removal in front of the offset can hide an item.                        *)
NothingIsMissed ==
    outcome = "done" /\ ~shifted =>
      (1 .. first) \cap ItemsOf(list) \subseteq ItemsOf(found)

(* No item comes twice, whatever is removed in between. *)
NothingComesTwice ==
    \A i, j \in DOMAIN found : i # j => found[i] # found[j]

(* A traversal is refused only when the collection goes on beyond the      *)
(* limit: one that fits can always be read to its end.                     *)
RefusedOnlyIfLong ==
    /\ outcome = "OffsetLimit" => Len(list) > MaxOffset
    /\ outcome = "CollectionTooLarge" => Len(list) > RouteOffset

(* What a caller who follows the continuations to the end can rely on.      *)
EveryItemOnce == NothingIsMissed /\ NothingComesTwice /\ RefusedOnlyIfLong

(* Every traversal ends, also of a collection that others keep changing.   *)
TraversalEnds == <>(outcome # "going")
=============================================================================
