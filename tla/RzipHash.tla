------------------------------ MODULE RzipHash ------------------------------
(***************************************************************************)
(* The tag table of rzip.c: open addressing with linear probing, a limit   *)
(* on how full it may get, and a sweep that makes room by throwing out the *)
(* tags with the fewest low bits set.                                      *)
(*                                                                         *)
(* A tag is the set of its bits that are 1, so that exclusive or is        *)
(* symmetric difference and "has every bit of the mask" is \subseteq.  All *)
(* masks of the code are of the form 2^k - 1 and are written as k.         *)
(* A table is a record:                                                    *)
(*   slot    st->hash_table, entries [t, off], all zero when empty         *)
(*   count   st->hash_count                                                *)
(*   min     st->minimum_tag_mask, as a number of low bits                 *)
(*   ptr     st->tag_clean_ptr                                             *)
(*   victim  insert_hash's static victim_round                             *)
(***************************************************************************)
EXTENDS Integers, Sequences, FiniteSetsExt

CONSTANTS
    TagBits,       \* width of a tag (32 in the code)
    HashBits,      \* st->hash_bits: 2^HashBits slots
    InitialFreq,   \* st->level->initial_freq
    MaxChainLen    \* st->level->max_chain_len

Bits  == 0 .. TagBits - 1
Slots == 0 .. 2^HashBits - 1

\* 66% full at max, in the code's integer arithmetic.
HashLimit == (2^HashBits \div 3) * 2

\* A table can only be swept below its limit while some tag in it is not all
\* ones; the levels of the code keep chains far shorter than the table.
ASSUME TableAssumption ==
    /\ TagBits \in Nat \ {0} /\ HashBits \in 1 .. TagBits /\ 2^HashBits \in Nat \ {0}
    /\ InitialFreq \in 1 .. TagBits
    /\ MaxChainLen \in 1 .. HashLimit

Empty == [t |-> {}, off |-> 0]

Mask(k) == 0 .. k - 1
IncreaseMask(k) == IF k < TagBits THEN k + 1 ELSE k

\* The low HashBits bits of a tag as a number, from the top bit down.
LowBits == [t \in SUBSET Mask(HashBits) |->
    LET low[k \in 0 .. HashBits] ==
            IF k = 0 THEN 0
            ELSE 2 * low[k - 1] + (IF HashBits - k \in t THEN 1 ELSE 0)
    IN  low[HashBits]]
PrimaryHash(t) == LowBits[t \cap Mask(HashBits)]

\* Every tag in the table has the bits of ht.min; these have no more.
AtMinimum(ht, t) == ~ (Mask(ht.min) \subseteq t)   \* bug: mask not increased
MinimumBitness(ht, t) == ~ (Mask(IncreaseMask(ht.min)) \subseteq t)

\* __builtin_ffs of the complement: 0 when every bit is set.
LowZero(t) == IF t = Bits THEN 0 ELSE 1 + Min(Bits \ t)
NeverLesser(a, b) == FALSE          \* bug: jump over every other tag
LesserBitness(a, b) == LowZero(a) < LowZero(b)

\* An entry is overwritten.
DropOne(ht) == [ht EXCEPT !.count = @ - 1]

\* Which of a chain of identical tags goes next.
NextVictim(v) == (v + 1) % MaxChainLen

EmptyTable(victim) ==
    [slot |-> [s \in Slots |-> Empty], count |-> 0, min |-> InitialFreq,
     ptr |-> 0, victim |-> victim]

\* The i-th slot a search for tag t looks at.
Probe(t, i) == (PrimaryHash(t) + i) % 2^HashBits

(***************************************************************************)
(* insert_hash: walk from the primary slot to the first one that is empty, *)
(* due for cleaning, held by a tag that will be cleaned before t, or the   *)
(* last of a full chain of t's own.                                        *)
(***************************************************************************)
At(ht, t, i)   == ht.slot[Probe(t, i)]
Same(ht, t, i) == {j \in 0 .. i : At(ht, t, j) # Empty /\ At(ht, t, j).t = t}
Full(ht, t, i) == i \in Same(ht, t, i) /\ Cardinality(Same(ht, t, i)) = MaxChainLen
Stops(ht, t, i) ==
    \/ At(ht, t, i) = Empty
    \/ MinimumBitness(ht, At(ht, t, i).t)
    \/ LesserBitness(At(ht, t, i).t, t)
    \/ Full(ht, t, i)
Last(ht, t) == Min({i \in Slots : Stops(ht, t, i)})

\* What it found there decides: the entry old is rehashed, or one of t's own
\* chain is replaced, or old is lost.
Rehashed(ht, t, old) ==
    old # Empty /\ ~MinimumBitness(ht, old.t) /\ LesserBitness(old.t, t)
Chained(ht, t, old) ==
    old # Empty /\ ~MinimumBitness(ht, old.t) /\ ~LesserBitness(old.t, t)

\* The entries to insert so far, each pushed out by the one before it.
Pushed(ht, w) ==
    LET e   == w.es[Len(w.es)]
        old == At(ht, e.t, Last(ht, e.t))
    IN  IF ~w.on THEN w
        ELSE IF Rehashed(ht, e.t, old) THEN [w EXCEPT !.es = Append(@, old)]
        ELSE [w EXCEPT !.on = FALSE]

\* The slot a tag takes.
Target(ht, t) ==
    LET last   == Last(ht, t)
        victim == CHOOSE j \in Same(ht, t, last) : Cardinality(Same(ht, t, j)) = ht.victim + 1
    IN  Probe(t, IF Chained(ht, t, At(ht, t, last)) THEN victim ELSE last)

\* What is lost where the last of them settles.
Settled(ht, t) ==
    LET old == At(ht, t, Last(ht, t))
    IN  IF old = Empty THEN ht
        ELSE IF Chained(ht, t, old) THEN [DropOne(ht) EXCEPT !.victim = NextVictim(@)]
        ELSE DropOne(ht)

\* e and what it pushes out.  Every tag pushes one of lesser bitness, so the
\* pushing ends.
Displaced(ht, e) ==
    LET push[k \in 0 .. TagBits] ==
            IF k = 0 THEN [es |-> <<e>>, on |-> TRUE] ELSE Pushed(ht, push[k - 1])
    IN  push[TagBits].es

\* The slots are set on the way back, the first entry's last.
Placed(ht, es) ==
    LET taken  == [k \in DOMAIN es |-> Target(ht, es[k].t)]
        For(s) == {k \in DOMAIN es : taken[k] = s}
    IN  [Settled(ht, es[Len(es)].t) EXCEPT !.slot =
            [s \in Slots |-> IF For(s) = {} THEN ht.slot[s] ELSE es[Min(For(s))]]]

InsertHash(ht, t, off) == Placed(ht, Displaced(ht, [t |-> t, off |-> off]))

(***************************************************************************)
(* clean_one_from_hash: clear the next entry that has no more than the     *)
(* minimum of low bits; at the end of the table raise the minimum and      *)
(* start again, until there is one.  New entries must then have            *)
(* Mask(IncreaseMask(ht.min)).                                             *)
(***************************************************************************)
Due(ht, min, ptr) ==
    {s \in ptr .. 2^HashBits - 1 :
        ht.slot[s] # Empty /\ MinimumBitness([ht EXCEPT !.min = min], ht.slot[s].t)}
Cleared(ht, min, ptr) ==
    [slot |-> [ht.slot EXCEPT ![ptr] = Empty], count |-> ht.count - 1,
     min |-> min, ptr |-> ptr, victim |-> ht.victim]
Raised(ht) == {k \in IncreaseMask(ht.min) .. TagBits : Due(ht, k, 0) # {}}
CleanOne(ht) ==
    IF Due(ht, ht.min, ht.ptr) # {}
    THEN Cleared(ht, ht.min, Min(Due(ht, ht.min, ht.ptr)))
    ELSE Cleared(ht, Min(Raised(ht)), Min(Due(ht, Min(Raised(ht)), 0)))

\* With nothing to clear the sweep never comes to an end.
Sweepable(ht) == ~(Due(ht, ht.min, ht.ptr) = {} /\ Raised(ht) = {})

Occupied(ht) == {s \in Slots : ht.slot[s] # Empty}
=============================================================================
