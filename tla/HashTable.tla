------------------------------- MODULE HashTable -------------------------------
(****************************************************************************)
(* The hash table of lib_src/hashTable.cpp: nHash = 2*nMax slots, each the   *)
(* head of a chain of cells, nMax cells, and a list of the free cells.  When *)
(* the free list is empty, the table doubles and takes up its entries again. *)
(****************************************************************************)
EXTENDS Naturals, Sequences, SequencesExt

CONSTANTS
  Items,        \* the items the client uses, below the range of the table
  Keys, defaultKey,
  nMaxInit      \* the number of cells at the beginning

VARIABLE t      \* the table: nMax, first, next, index, key, free, nz

nHash(h) == 2 * h.nMax
UNDEFINED(h) == nHash(h)
Slots(h) == 0..(nHash(h) - 1)
Cells(h) == 0..(h.nMax - 1)

(* The constructor and Init() with nMax cells.  What index and key hold in a *)
(* free cell is never read.                                                  *)
EmptyTable(nMax) ==
  [nMax |-> nMax,
   first |-> [s \in 0..(2*nMax - 1) |-> 2*nMax],
   next |-> [x \in 0..(nMax - 1) |-> IF x = nMax - 1 THEN 2*nMax ELSE x + 1],
   index |-> [x \in 0..(nMax - 1) |-> 0],
   key |-> [x \in 0..(nMax - 1) |-> defaultKey],
   free |-> 0,
   nz |-> 0]

(* The cells from x on, in the order of the links.                           *)
Chain(h, x) ==
  LET from[k \in 0..h.nMax, y \in Cells(h) \union {UNDEFINED(h)}] ==
        IF k = 0 \/ y = UNDEFINED(h) THEN <<>> ELSE <<y>> \o from[k - 1, h.next[y]]
  IN from[h.nMax, x]
SlotChain(h, s) == Chain(h, h.first[s])

(* The place of w in its chain, 0 if it is not there.                        *)
Find(h, w) ==
  LET c == SlotChain(h, w % nHash(h))
  IN IF \E i \in 1..Len(c) : h.index[c[i]] = w
     THEN CHOOSE i \in 1..Len(c) :
            h.index[c[i]] = w /\ \A j \in 1..(i - 1) : h.index[c[j]] # w
     ELSE 0

Key(h, w) == IF Find(h, w) = 0 THEN defaultKey
             ELSE h.key[SlotChain(h, w % nHash(h))[Find(h, w)]]

(* Take a free cell for w and put it in front of its chain.                  *)
Put(h, w, alpha) ==
  LET y == h.free
      w0 == w % nHash(h)
  IN [h EXCEPT !.free = h.next[y], !.index[y] = w, !.key[y] = alpha,
               !.next[y] = h.first[w0], !.first[w0] = y, !.nz = @ + 1]

(* The entries of the table, slot by slot.                                   *)
Entries(h) ==
  FlattenSeq([s \in 1..nHash(h) |->
    [i \in 1..Len(SlotChain(h, s - 1)) |->
      LET y == SlotChain(h, s - 1)[i] IN <<h.index[y], h.key[y]>>]])

(* Mutant: only the first half of the old slots is visited.                  *)
RescaleHalf(h) ==
  FoldLeft(LAMBDA g, e : Put(g, e[1], e[2]), EmptyTable(2 * h.nMax),
           SelectSeq(Entries(h), LAMBDA e : e[1] % nHash(h) < h.nMax))

(* The table doubles and takes up its entries again.                         *)
Rescale(h) ==
  FoldLeft(LAMBDA g, e : Put(g, e[1], e[2]), EmptyTable(2 * h.nMax), Entries(h))

(* Mutant: a removed cell is always taken for the head of its chain.         *)
UnlinkHead(h, w) ==
  LET w0 == w % nHash(h)
      x == SlotChain(h, w0)[Find(h, w)]
  IN [h EXCEPT !.first[w0] = h.next[x], !.next[x] = h.free, !.free = x, !.nz = @ - 1]

(* Unlink the cell of w and return it to the free list.                      *)
Unlink(h, w) ==
  LET w0 == w % nHash(h)
      c == SlotChain(h, w0)
      i == Find(h, w)
      x == c[i]
      g == IF i = 1 THEN [h EXCEPT !.first[w0] = h.next[x]]
           ELSE [h EXCEPT !.next[c[i - 1]] = h.next[x]]
  IN [g EXCEPT !.next[x] = h.free, !.free = x, !.nz = @ - 1]

Replace(h, w, alpha) ==
  [h EXCEPT !.key[SlotChain(h, w % nHash(h))[Find(h, w)]] = alpha]

(* The table that an entry is put into.                                      *)
WithFreeCell(h) == IF h.free = UNDEFINED(h) THEN Rescale(h) ELSE h

Init == t = EmptyTable(nMaxInit)

(* Init(), which keeps the current size.                                     *)
Clear == t' = [EmptyTable(t.nMax) EXCEPT !.index = t.index, !.key = t.key]

ChangeKey(w, alpha) ==
  \/ Key(t, w) = alpha /\ UNCHANGED t
  \/ /\ Key(t, w) # alpha
     /\ t' = IF alpha = defaultKey THEN Unlink(t, w)
             ELSE IF Find(t, w) # 0 THEN Replace(t, w, alpha)
             ELSE Put(WithFreeCell(t), w, alpha)

Next == Clear \/ \E w \in Items, alpha \in Keys : ChangeKey(w, alpha)

Spec == Init /\ [][Next]_t

-------------------------------------------------------------------------------
(* The arrays have the lengths that nMax tells and hold cells or UNDEFINED.  *)
TypeOK ==
  /\ DOMAIN t.first = Slots(t) /\ DOMAIN t.next = Cells(t)
  /\ \A s \in Slots(t) : t.first[s] \in Cells(t) \union {UNDEFINED(t)}
  /\ \A x \in Cells(t) : t.next[x] \in Cells(t) \union {UNDEFINED(t)}
  /\ t.free \in Cells(t) \union {UNDEFINED(t)}
  /\ t.nz \in 0..t.nMax

(* No cell is lost and none is used twice: every cell is on the free list or *)
(* on one chain, there once, and a chain holds the items that hash to its    *)
(* slot, each once.                                                          *)
CellsPartitioned ==
  LET lists == [s \in 1..(nHash(t) + 1) |->
                  IF s > nHash(t) THEN Chain(t, t.free) ELSE SlotChain(t, s - 1)]
      all == FlattenSeq(lists)
  IN /\ Len(all) = t.nMax
     /\ {all[i] : i \in 1..Len(all)} = Cells(t)
     /\ \A s \in Slots(t) : \A i \in 1..Len(SlotChain(t, s)) :
          LET w == t.index[SlotChain(t, s)[i]] IN w % nHash(t) = s /\ Find(t, w) = i

(* The table is a vector: an entry is what was written last, across          *)
(* collisions, removals and rescaling, and nz counts the entries.            *)
Vector == INSTANCE SparseVector WITH
  vec <- [w \in Items |-> Key(t, w)], nonzeros <- t.nz
================================================================================
