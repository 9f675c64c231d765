-------------------------------- MODULE Pifo --------------------------------
(***************************************************************************)
(* A push-in first-out queue: a bounded bag of ranked words from which a   *)
(* word of least rank is taken.  Words of equal rank leave in any order.   *)
(***************************************************************************)
EXTENDS Naturals, Bags

CONSTANTS
    Rank,       \* the ranks of words
    Meta,       \* what a word carries besides its rank
    MaxLoad,    \* how many words may be held
    NoWord      \* no word has been taken yet

VARIABLES
    held,       \* the bag of words in the queue
    taken       \* the word taken last

vars == <<held, taken>>

Word == [rank : Rank, meta : Meta]

Init ==
    /\ held = EmptyBag
    /\ taken = NoWord

Push(w) ==
    /\ BagCardinality(held) < MaxLoad
    /\ held' = held (+) SetToBag({w})
    /\ UNCHANGED taken

Pop ==
    /\ \E w \in BagToSet(held) :
         /\ \A x \in BagToSet(held) : w.rank <= x.rank
         /\ held' = held (-) SetToBag({w})
         /\ taken' = w

Next == (\E w \in Word : Push(w)) \/ Pop

Spec == Init /\ [][Next]_vars
=============================================================================
