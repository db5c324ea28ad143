------------------------------ MODULE LeasePool ------------------------------
(***************************************************************************)
(* What the channel pool of pool.go promises, without its locks, channels  *)
(* and counters.  Clients ask for an item, are lent one or refused, and    *)
(* give it back or retire it.  At most Limit items exist at any time (lent *)
(* out or kept on the shelf), an item is in one place only, and a closed   *)
(* pool admits no request and keeps nothing.                               *)
(* ChannelPool implements this specification (ChannelPool!LeasePoolSpec).  *)
(***************************************************************************)
EXTENDS Integers, FiniteSets

CONSTANTS Client,   \* who borrows
          Item,     \* what is lent
          NoItem,   \* "holds nothing", not an item
          Limit     \* how many items may exist at once

VARIABLES asking,   \* clients whose request was admitted and not answered
          holds,    \* the item each client holds
          shelf,    \* items kept for the next request
          closed

leaseVars == <<asking, holds, shelf, closed>>

Lent == {holds[c] : c \in Client} \ {NoItem}

LeaseTypeOK ==
    /\ asking \subseteq Client
    /\ holds \in [Client -> Item \cup {NoItem}]
    /\ shelf \subseteq Item
    /\ closed \in BOOLEAN

LeaseInit ==
    /\ asking = {}
    /\ holds = [c \in Client |-> NoItem]
    /\ shelf = {}
    /\ closed = FALSE

-----------------------------------------------------------------------------
(* An open pool admits the request of a client that holds nothing. *)
Admit(c) ==
    /\ ~closed /\ c \notin asking /\ holds[c] = NoItem
    /\ asking' = asking \cup {c}
    /\ UNCHANGED <<holds, shelf, closed>>

Refuse(c) ==
    /\ c \in asking
    /\ asking' = asking \ {c}
    /\ UNCHANGED <<holds, shelf, closed>>

LendFromShelf(c) ==
    /\ c \in asking
    /\ \E i \in shelf : /\ holds' = [holds EXCEPT ![c] = i]
                        /\ shelf' = shelf \ {i}
    /\ asking' = asking \ {c}
    /\ UNCHANGED closed

(* A new item is made only while fewer than Limit exist. *)
LendNew(c) ==
    /\ c \in asking
    /\ Cardinality(Lent \cup shelf) < Limit
    /\ \E i \in Item \ (Lent \cup shelf) : holds' = [holds EXCEPT ![c] = i]
    /\ asking' = asking \ {c}
    /\ UNCHANGED <<shelf, closed>>

Shelve(c) ==
    /\ ~closed /\ holds[c] # NoItem
    /\ shelf' = shelf \cup {holds[c]}
    /\ holds' = [holds EXCEPT ![c] = NoItem]
    /\ UNCHANGED <<asking, closed>>

(* The item goes straight to a client that waits for one. *)
PassOn(c, d) ==
    /\ ~closed /\ holds[c] # NoItem /\ d \in asking
    /\ holds' = [holds EXCEPT ![c] = NoItem, ![d] = holds[c]]
    /\ asking' = asking \ {d}
    /\ UNCHANGED <<shelf, closed>>

Retire(c) ==
    /\ holds[c] # NoItem
    /\ holds' = [holds EXCEPT ![c] = NoItem]
    /\ UNCHANGED <<asking, shelf, closed>>

ClosePool ==
    /\ ~closed
    /\ closed' = TRUE
    /\ UNCHANGED <<asking, holds, shelf>>

(* Whoever closes the pool takes the items off the shelf to retire them. *)
ClearShelf(c) ==
    /\ closed /\ c \notin asking /\ holds[c] = NoItem
    /\ \E i \in shelf : /\ holds' = [holds EXCEPT ![c] = i]
                        /\ shelf' = shelf \ {i}
    /\ UNCHANGED <<asking, closed>>

(* ... or they disappear from the shelf in one step. *)
DropItem ==
    /\ closed
    /\ \E i \in shelf : shelf' = shelf \ {i}
    /\ UNCHANGED <<asking, holds, closed>>

LeaseNext ==
    \/ \E c \in Client :
          \/ Admit(c) \/ Refuse(c) \/ LendFromShelf(c) \/ LendNew(c)
          \/ Shelve(c) \/ Retire(c) \/ ClearShelf(c)
          \/ \E d \in Client \ {c} : PassOn(c, d)
    \/ ClosePool \/ DropItem

LeaseSpec == LeaseInit /\ [][LeaseNext]_leaseVars
=============================================================================
