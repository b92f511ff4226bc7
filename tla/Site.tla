--------------------------------- MODULE Site ---------------------------------
(***************************************************************************)
(* What the components of the two web front ends share: the events and     *)
(* their markets, the two outcomes of each market, and missing values.     *)
(***************************************************************************)
EXTENDS Naturals, Integers, Sequences, FiniteSets, SequencesExt, FiniteSetsExt

CONSTANTS Event, Market,
          User,            \* the accounts of the site
          EventOf,         \* the event each market belongs to
          None,            \* null
          Absent           \* undefined: a record that has no such key

ASSUME SiteAssumption ==
    /\ EventOf \in [Market -> Event]
    /\ None \notin Event \cup Market
    /\ Absent \notin Event \cup Market

Outcome == {0, 1}

MarketsOf(e) == {m \in Market : EventOf[m] = e}

(***************************************************************************)
(* Sorting and filtering arrays.                                           *)
(***************************************************************************)
\* The positions S by increasing key, those of the same key in their own order:
\* arrays are sorted stably.
InOrder(S, key) ==
    [k \in 1 .. Cardinality(S) |->
        CHOOSE x \in S :
            Cardinality({y \in S : key[y] < key[x] \/ (key[y] = key[x] /\ y < x)}) = k - 1]

\* The elements of a sequence by increasing key.
Sorted(s, key) ==
    LET order == InOrder(DOMAIN s, key)
    IN  [k \in DOMAIN s |-> s[order[k]]]

\* The elements of a sequence at the positions S.
Picked(s, S) ==
    LET order == InOrder(S, [i \in S |-> i])
    IN  [k \in DOMAIN order |-> s[order[k]]]
=============================================================================
