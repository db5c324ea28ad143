--------------------------- MODULE LeasePoolProofs ---------------------------
(***************************************************************************)
(* What the abstract lending pool guarantees, for any clients, any items   *)
(* and any limit.  A module that implements LeasePool, or uses one,        *)
(* instantiates these theorems (ChannelPoolProofs, ChannelProofs).         *)
(***************************************************************************)
EXTENDS LeasePool, FiniteSetTheorems, TLAPS

(* The items that exist. *)
Items == Lent \cup shelf

(* At most Limit items exist. *)
WithinLimit == IsFiniteSet(Items) /\ Cardinality(Items) <= Limit

(* An item is in one place: one client has it, or the shelf. *)
InOnePlace ==
    /\ \A c, d \in Client : holds[c] # NoItem /\ holds[c] = holds[d] => c = d
    /\ \A c \in Client : holds[c] \notin shelf

(* Whoever has an item asks for no other. *)
AsksForOne == \A c \in asking : holds[c] = NoItem

LeasePromises == LeaseTypeOK /\ WithinLimit /\ InOnePlace /\ AsksForOne

(* A closed pool stays closed, admits no request and shelves nothing. *)
ShutForGood == closed => closed' /\ asking' \subseteq asking /\ shelf' \subseteq shelf

-----------------------------------------------------------------------------
(* What every step does to the items: they stay, one of them disappears,   *)
(* or one more is made while there is room.                                *)
LEMMA ItemsStep ==
    ASSUME NoItem \notin Item, LeaseTypeOK, InOnePlace, AsksForOne, LeaseNext
    PROVE  /\ LeaseTypeOK' /\ InOnePlace' /\ AsksForOne'
           /\ \/ Items' \subseteq Items
              \/ /\ Cardinality(Items) < Limit
                 /\ \E i \in Item \ Items : Items' = Items \cup {i}
<1> USE DEF LeaseTypeOK, InOnePlace, AsksForOne, Items, Lent
<1>1. ASSUME NEW c \in Client, Admit(c) \/ Refuse(c)
      PROVE  LeaseTypeOK' /\ InOnePlace' /\ AsksForOne' /\ Items' \subseteq Items
  BY <1>1 DEF Admit, Refuse
<1>2. ASSUME NEW c \in Client, LendFromShelf(c)
      PROVE  LeaseTypeOK' /\ InOnePlace' /\ AsksForOne' /\ Items' \subseteq Items
  <2>1. PICK i \in shelf : holds' = [holds EXCEPT ![c] = i] /\ shelf' = shelf \ {i}
    BY <1>2 DEF LendFromShelf
  <2>2. c \in asking /\ asking' = asking \ {c} /\ closed' = closed /\ i \in Item
    BY <1>2 DEF LendFromShelf
  <2>3. LeaseTypeOK' /\ InOnePlace' /\ AsksForOne'
    BY <2>1, <2>2
  <2>4. Items' \subseteq Items
    BY <2>1, <2>2
  <2>5. QED
    BY <2>3, <2>4
<1>3. ASSUME NEW c \in Client, LendNew(c)
      PROVE  /\ LeaseTypeOK' /\ InOnePlace' /\ AsksForOne' /\ Cardinality(Items) < Limit
             /\ \E i \in Item \ Items : Items' = Items \cup {i}
  <2>1. PICK i \in Item \ Items : holds' = [holds EXCEPT ![c] = i]
    BY <1>3 DEF LendNew
  <2>2. c \in asking /\ asking' = asking \ {c} /\ UNCHANGED <<shelf, closed>> /\ Cardinality(Items) < Limit
    BY <1>3 DEF LendNew
  <2>3. holds[c] = NoItem /\ \A d \in Client : holds[d] # i
    BY <2>1, <2>2
  <2>4. LeaseTypeOK' /\ InOnePlace' /\ AsksForOne'
    BY <2>1, <2>2, <2>3
  <2>5. Items' = Items \cup {i}
    BY <2>1, <2>2, <2>3
  <2>6. QED
    BY <2>1, <2>2, <2>4, <2>5
<1>4. ASSUME NEW c \in Client, Shelve(c)
      PROVE  LeaseTypeOK' /\ InOnePlace' /\ AsksForOne' /\ Items' \subseteq Items
  BY <1>4 DEF Shelve
<1>5. ASSUME NEW c \in Client, NEW d \in Client \ {c}, PassOn(c, d)
      PROVE  LeaseTypeOK' /\ InOnePlace' /\ AsksForOne' /\ Items' \subseteq Items
  BY <1>5 DEF PassOn
<1>6. ASSUME NEW c \in Client, Retire(c)
      PROVE  LeaseTypeOK' /\ InOnePlace' /\ AsksForOne' /\ Items' \subseteq Items
  BY <1>6 DEF Retire
<1>7. ASSUME NEW c \in Client, ClearShelf(c)
      PROVE  LeaseTypeOK' /\ InOnePlace' /\ AsksForOne' /\ Items' \subseteq Items
  BY <1>7 DEF ClearShelf
<1>8. CASE ClosePool \/ DropItem
  BY <1>8 DEF ClosePool, DropItem
<1>9. QED
  BY <1>1, <1>2, <1>3, <1>4, <1>5, <1>6, <1>7, <1>8 DEF LeaseNext

LEMMA PromisesStep ==
    ASSUME NoItem \notin Item, Limit \in Nat, LeasePromises, [LeaseNext]_leaseVars
    PROVE  LeasePromises'
<1>1. CASE UNCHANGED leaseVars
  BY <1>1 DEF leaseVars, LeasePromises, LeaseTypeOK, WithinLimit, InOnePlace, AsksForOne, Items, Lent
<1>2. CASE LeaseNext
  <2>1. LeaseTypeOK' /\ InOnePlace' /\ AsksForOne'
    BY <1>2, ItemsStep DEF LeasePromises
  <2>2. CASE Items' \subseteq Items
    <3>1. IsFiniteSet(Items') /\ Cardinality(Items') <= Cardinality(Items)
      BY <2>2, FS_Subset DEF LeasePromises, WithinLimit
    <3>2. Cardinality(Items') \in Nat /\ Cardinality(Items) \in Nat
      BY <3>1, FS_CardinalityType DEF LeasePromises, WithinLimit
    <3>3. QED
      BY <2>1, <3>1, <3>2 DEF LeasePromises, WithinLimit
  <2>3. ASSUME Cardinality(Items) < Limit, NEW i \in Item \ Items, Items' = Items \cup {i}
        PROVE  LeasePromises'
    <3>1. IsFiniteSet(Items') /\ Cardinality(Items') = Cardinality(Items) + 1
      BY <2>3, FS_AddElement DEF LeasePromises, WithinLimit
    <3>2. Cardinality(Items) \in Nat
      BY FS_CardinalityType DEF LeasePromises, WithinLimit
    <3>3. QED
      BY <2>1, <2>3, <3>1, <3>2 DEF LeasePromises, WithinLimit
  <2>4. QED
    BY <1>2, <2>2, <2>3, ItemsStep DEF LeasePromises
<1>3. QED
  BY <1>1, <1>2

-----------------------------------------------------------------------------
(* At most Limit items exist, lent or shelved, each in one place, and a    *)
(* client has one item at a time.                                          *)
THEOREM LeaseGuarantees ==
    ASSUME NoItem \notin Item, Limit \in Nat PROVE LeaseSpec => []LeasePromises
<1>1. LeaseInit => LeasePromises
  <2> SUFFICES ASSUME LeaseInit PROVE LeasePromises
    OBVIOUS
  <2>1. Items = {}
    BY DEF LeaseInit, Items, Lent
  <2>2. WithinLimit
    BY <2>1, FS_EmptySet DEF WithinLimit
  <2>3. QED
    BY <2>2 DEF LeaseInit, LeasePromises, LeaseTypeOK, InOnePlace, AsksForOne
<1>2. LeasePromises /\ [LeaseNext]_leaseVars => LeasePromises'
  BY PromisesStep
<1>3. QED
  BY <1>1, <1>2, PTL DEF LeaseSpec

(* A closed pool stays closed, admits no request and shelves nothing. *)
THEOREM LeaseCloseIsFinal == LeaseSpec => [][ShutForGood]_leaseVars
<1>1. [LeaseNext]_leaseVars => [ShutForGood]_leaseVars
  BY DEF LeaseNext, ShutForGood, Admit, Refuse, LendFromShelf, LendNew, Shelve, PassOn, Retire,
         ClosePool, ClearShelf, DropItem
<1>2. QED
  BY <1>1, PTL DEF LeaseSpec
=============================================================================
