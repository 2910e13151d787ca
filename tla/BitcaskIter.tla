----------------------------- MODULE BitcaskIter -----------------------------
(***************************************************************************)
(* The user iterator (iterator.go), the snapshot iterators of the ordered  *)
(* indexes (index/btree.go, art.go, skipList.go) and DB.ListKeys (db.go    *)
(* 347-357), run by reader goroutines beside the writers of Bitcask.       *)
(*                                                                         *)
(* Keys stay model values; KeyBytes gives each its byte string, so order   *)
(* and prefixes are those of bytes.Compare.  An index Iterator() copies    *)
(* the (key, pos) pairs under the index's own lock and never takes db.mu, *)
(* so a snapshot is one atomic step that may fall between any two writer   *)
(* steps, in the middle of a Commit's index loop included.  The Hash      *)
(* index has no iterator (index/hash.go 70-73 panics) and is left out.     *)
(* Crashes are left to Bitcask: an iterator and a ListKeys call live in    *)
(* memory only and end with the process, so the readers run between       *)
(* crashes and the engine steps here are those of one process lifetime.   *)
(***************************************************************************)
EXTENDS Bitcask

CONSTANTS
  Iters,       \* reader goroutines using NewIterator or ListKeys
  KeyBytes,    \* key -> its byte string (a sequence of naturals)
  IterPrefixes,    \* IteratorOptions.Prefix values tried (<<>> = no prefix)
  SeekKeys,    \* keys passed to Seek
  IndexType    \* Options.IndexType: "BTree", "ART" or "SkipList"

VARIABLES
  ipc,        \* reader -> "idle", "open", "lk_size", "lk_loop" or "panic"
  snap,       \* reader -> the iterator's values array of [key, pos] items
  cur,        \* reader -> currIndex (0-based, as in the code)
  reverse,    \* reader -> IteratorOptions.Reverse
  prefix,     \* reader -> IteratorOptions.Prefix
  from,       \* reader -> how the loop was started: none, rewind or seek
  yielded,    \* reader -> items read by Key() since that start
  snapIndex,  \* reader -> the index when the snapshot was taken (history)
  lkeys,      \* reader -> ListKeys: the keys of its iterator
  lsize,      \* reader -> ListKeys: db.index.Size()
  lres,       \* reader -> result of its last completed ListKeys
  lwant       \* reader -> the live keys of that ListKeys' snapshot, in order

iterVars == <<ipc, snap, cur, reverse, prefix, from, yielded, snapIndex,
              lkeys, lsize, lres, lwant>>
allIVars == <<vars, iterVars>>

NoStart == [kind |-> "none", key |-> <<>>]

-----------------------------------------------------------------------------
(* Pure operators of the index iterators.                                  *)

\* bytes.Compare, through index.Compare (skipList.go 17-19)
RECURSIVE BytesCompare(_, _)
BytesCompare(a, b) ==
  CASE a = <<>> /\ b = <<>> -> 0
    [] a = <<>>             -> -1
    [] b = <<>>             -> 1
    [] Head(a) < Head(b)    -> -1
    [] Head(a) > Head(b)    -> 1
    [] OTHER                -> BytesCompare(Tail(a), Tail(b))

LiveKeys == {k \in Keys : index[k] # NoPos}
LiveItems == {[key |-> k, pos |-> index[k]] : k \in LiveKeys}
ItemLess(x, y) == BytesCompare(KeyBytes[x.key], KeyBytes[y.key]) < 0

\* the in-order walk of the tree (btree Ascend, art ForEach, skip list ForEach)
Ascend  == SetToSortSeq(LiveItems, ItemLess)
Descend == SetToSortSeq(LiveItems, LAMBDA x, y : ItemLess(y, x))

\* newBTreeIterator: Descend or Ascend into values
BTreeSnapshot(rev) == IF rev THEN Descend ELSE Ascend

\* Mutant: the reverse fill starts at Size() instead of Size()-1.
ArtSnapshotFromSize(rev) ==
  LET n == Cardinality(LiveItems)
      save(acc, item) ==
        [values |-> [acc.values EXCEPT ![acc.i + 1] = item],
         i      |-> IF rev THEN acc.i - 1 ELSE acc.i + 1]
  IN FoldLeft(save, [values |-> [j \in 1..n |-> None],
                     i      |-> IF rev THEN n ELSE 0], Ascend).values

\* newArtIterator: ForEach fills values from index Size()-1 downwards when
\* reverse, from 0 upwards otherwise
ArtSnapshot(rev) ==
  LET n == Cardinality(LiveItems)
      save(acc, item) ==
        [values |-> [acc.values EXCEPT ![acc.i + 1] = item],
         i      |-> IF rev THEN acc.i - 1 ELSE acc.i + 1]
  IN FoldLeft(save, [values |-> [j \in 1..n |-> None],
                     i      |-> IF rev THEN n - 1 ELSE 0], Ascend).values

\* Mutant: the loop stops one pair early (i + 1 < j).
RECURSIVE SwapLoopShort(_, _, _)
SwapLoopShort(v, i, j) ==
  IF i + 1 < j THEN SwapLoopShort([v EXCEPT ![i + 1] = v[j + 1], ![j + 1] = v[i + 1]],
                                  i + 1, j - 1)
  ELSE v

\* the swap loop of NewSkipListIterator: i, j := 0, len-1; i < j; i++, j--
RECURSIVE SwapLoop(_, _, _)
SwapLoop(v, i, j) ==
  IF i < j THEN SwapLoop([v EXCEPT ![i + 1] = v[j + 1], ![j + 1] = v[i + 1]],
                         i + 1, j - 1)
  ELSE v

\* NewSkipListIterator: ForEach appends, then the slice is reversed in place
SkipListSnapshot(rev) ==
  IF rev THEN SwapLoop(Ascend, 0, Len(Ascend) - 1) ELSE Ascend

\* db.index.Iterator(reverse) of the configured index type
Snapshot(rev) ==
  CASE IndexType = "BTree" -> BTreeSnapshot(rev)
    [] IndexType = "ART"   -> ArtSnapshot(rev)
    [] OTHER               -> SkipListSnapshot(rev)

\* Seek: sort.Search(len(values), f) over the half-open range [i, j), with
\* f(h) = Compare(values[h].key, key) <= 0 when reverse, >= 0 otherwise
RECURSIVE SortSearch(_, _, _, _, _)
SortSearch(values, key, rev, i, j) ==
  IF i >= j THEN i
  ELSE LET h == (i + j) \div 2
           c == BytesCompare(KeyBytes[values[h + 1].key], key)
       IN IF (IF rev THEN c <= 0 ELSE c >= 0)
          THEN SortSearch(values, key, rev, i, h)
          ELSE SortSearch(values, key, rev, h + 1, j)

\* Mutant: a key exactly as long as the prefix is taken not to match.
RECURSIVE NextPrefixStrict(_, _, _)
NextPrefixStrict(values, c, pfx) ==
  IF Len(pfx) = 0 \/ c >= Len(values) THEN c
  ELSE LET key == KeyBytes[values[c + 1].key] IN
       IF Len(pfx) < Len(key) /\ BytesCompare(pfx, SubSeq(key, 1, Len(pfx))) = 0
       THEN c ELSE NextPrefixStrict(values, c + 1, pfx)

\* IteratorUI.nextPrefix: from currIndex c, skip the keys without the prefix
RECURSIVE NextPrefix(_, _, _)
NextPrefix(values, c, pfx) ==
  IF Len(pfx) = 0 \/ c >= Len(values) THEN c
  ELSE LET key == KeyBytes[values[c + 1].key] IN
       IF Len(pfx) <= Len(key) /\ BytesCompare(pfx, SubSeq(key, 1, Len(pfx))) = 0
       THEN c ELSE NextPrefix(values, c + 1, pfx)

-----------------------------------------------------------------------------
(* The user iterator: NewIterator, then Rewind or Seek, then the loop      *)
(* for Valid() { Key(); Next() }, then Close.  Value() resolves the same  *)
(* position through getValueByPosition under db.mu.RLock, the path of Get *)
(* that ReadsNeverFail already covers, and is not repeated here.           *)

\* NewIterator: db.index.Iterator(opts.Reverse), without db.mu
NewIterator(i) ==
  /\ opened /\ ipc[i] = "idle"
  /\ \E rev \in BOOLEAN, p \in IterPrefixes :
       /\ snap' = [snap EXCEPT ![i] = Snapshot(rev)]
       /\ reverse' = [reverse EXCEPT ![i] = rev]
       /\ prefix' = [prefix EXCEPT ![i] = p]
  /\ ipc' = [ipc EXCEPT ![i] = "open"]
  /\ cur' = [cur EXCEPT ![i] = 0]
  /\ from' = [from EXCEPT ![i] = NoStart]
  /\ yielded' = [yielded EXCEPT ![i] = <<>>]
  /\ snapIndex' = [snapIndex EXCEPT ![i] = index]
  /\ UNCHANGED <<vars, lkeys, lsize, lres, lwant>>

\* Rewind: currIndex = 0, then nextPrefix
IterRewind(i) ==
  /\ ipc[i] = "open"
  /\ cur' = [cur EXCEPT ![i] = NextPrefix(snap[i], 0, prefix[i])]
  /\ from' = [from EXCEPT ![i] = [kind |-> "rewind", key |-> <<>>]]
  /\ yielded' = [yielded EXCEPT ![i] = <<>>]
  /\ UNCHANGED <<vars, ipc, snap, reverse, prefix, snapIndex,
                 lkeys, lsize, lres, lwant>>

\* Seek(key): currIndex = sort.Search(...), then nextPrefix
IterSeek(i) ==
  /\ ipc[i] = "open"
  /\ \E key \in SeekKeys :
       /\ cur' = [cur EXCEPT ![i] =
                    NextPrefix(snap[i],
                               SortSearch(snap[i], key, reverse[i], 0, Len(snap[i])),
                               prefix[i])]
       /\ from' = [from EXCEPT ![i] = [kind |-> "seek", key |-> key]]
  /\ yielded' = [yielded EXCEPT ![i] = <<>>]
  /\ UNCHANGED <<vars, ipc, snap, reverse, prefix, snapIndex,
                 lkeys, lsize, lres, lwant>>

\* one turn of the loop: Valid() holds, Key() reads values[cur], Next()
\* moves on and re-applies nextPrefix
IterNext(i) ==
  /\ ipc[i] = "open" /\ from[i] # NoStart
  /\ cur[i] < Len(snap[i])
  /\ yielded' = [yielded EXCEPT ![i] = Append(@, snap[i][cur[i] + 1])]
  /\ cur' = [cur EXCEPT ![i] = NextPrefix(snap[i], cur[i] + 1, prefix[i])]
  /\ UNCHANGED <<vars, ipc, snap, reverse, prefix, from, snapIndex,
                 lkeys, lsize, lres, lwant>>

\* Close: values = nil
IterClose(i) ==
  /\ ipc[i] = "open"
  /\ ipc' = [ipc EXCEPT ![i] = "idle"]
  /\ snap' = [snap EXCEPT ![i] = <<>>]
  /\ UNCHANGED <<vars, cur, reverse, prefix, from, yielded, snapIndex,
                 lkeys, lsize, lres, lwant>>
-----------------------------------------------------------------------------
(* ListKeys (db.go 347-357): Iterator(false), then a separate              *)
(* make(.., db.index.Size()), then keys[i] = iter.Key() for each item.     *)

ListKeysIter(i) ==
  /\ opened /\ ipc[i] = "idle"
  /\ ipc' = [ipc EXCEPT ![i] = "lk_size"]
  /\ lkeys' = [lkeys EXCEPT ![i] = [n \in 1..Len(Snapshot(FALSE)) |->
                                      Snapshot(FALSE)[n].key]]
  /\ snapIndex' = [snapIndex EXCEPT ![i] = index]
  /\ UNCHANGED <<vars, snap, cur, reverse, prefix, from, yielded,
                 lsize, lres, lwant>>

ListKeysSize(i) ==
  /\ ipc[i] = "lk_size"
  /\ ipc' = [ipc EXCEPT ![i] = "lk_loop"]
  /\ lsize' = [lsize EXCEPT ![i] = Cardinality(LiveKeys)]
  /\ UNCHANGED <<vars, snap, cur, reverse, prefix, from, yielded, snapIndex,
                 lkeys, lres, lwant>>

\* the copy loop; slots the iterator does not fill stay nil (NoKey)
ListKeysLoop(i) ==
  /\ ipc[i] = "lk_loop" /\ Len(lkeys[i]) <= lsize[i]
  /\ ipc' = [ipc EXCEPT ![i] = "idle"]
  /\ lres' = [lres EXCEPT ![i] =
                lkeys[i] \o [n \in 1..lsize[i] - Len(lkeys[i]) |-> NoKey]]
  /\ lwant' = [lwant EXCEPT ![i] = LET w == {k \in Keys : snapIndex[i][k] # NoPos}
                                   IN SetToSortSeq(w, LAMBDA a, b :
                                        BytesCompare(KeyBytes[a], KeyBytes[b]) < 0)]
  /\ UNCHANGED <<vars, snap, cur, reverse, prefix, from, yielded, snapIndex,
                 lkeys, lsize>>

\* keys[i] with i = len(keys): index out of range, the goroutine panics
ListKeysPanic(i) ==
  /\ ipc[i] = "lk_loop" /\ Len(lkeys[i]) > lsize[i]
  /\ ipc' = [ipc EXCEPT ![i] = "panic"]
  /\ UNCHANGED <<vars, snap, cur, reverse, prefix, from, yielded, snapIndex,
                 lkeys, lsize, lres, lwant>>

-----------------------------------------------------------------------------
IInit ==
  /\ Init
  /\ ipc = [i \in Iters |-> "idle"]
  /\ snap = [i \in Iters |-> <<>>]
  /\ cur = [i \in Iters |-> 0]
  /\ reverse = [i \in Iters |-> FALSE]
  /\ prefix = [i \in Iters |-> <<>>]
  /\ from = [i \in Iters |-> NoStart]
  /\ yielded = [i \in Iters |-> <<>>]
  /\ snapIndex = [i \in Iters |-> [k \in Keys |-> NoPos]]
  /\ lkeys = [i \in Iters |-> <<>>]
  /\ lsize = [i \in Iters |-> 0]
  /\ lres = [i \in Iters |-> <<>>]
  /\ lwant = [i \in Iters |-> <<>>]

\* the engine's steps, leaving the readers alone
EngineStep ==
  /\ \/ \E w \in Writers : SingleKeyStep(w) \/ BatchStep(w)
     \/ \E r \in Readers, k \in Keys : Get(r, k)
     \/ Sync
  /\ UNCHANGED iterVars

\* readers using the user iterator
INext ==
  \/ EngineStep
  \/ \E i \in Iters :
       NewIterator(i) \/ IterRewind(i) \/ IterSeek(i) \/ IterNext(i) \/ IterClose(i)

ISpec == IInit /\ [][INext]_allIVars

\* readers calling ListKeys
LNext ==
  \/ EngineStep
  \/ \E i \in Iters :
       ListKeysIter(i) \/ ListKeysSize(i) \/ ListKeysLoop(i) \/ ListKeysPanic(i)

LSpec == IInit /\ [][LNext]_allIVars
-----------------------------------------------------------------------------
(* Reference definitions and properties.                                   *)

\* the order of bytes.Compare stated without recursion: a is a proper
\* prefix of b, or the first byte where they differ is smaller in a
LexLess(a, b) ==
  \E n \in 0..Len(a) :
     /\ n <= Len(b) /\ SubSeq(a, 1, n) = SubSeq(b, 1, n)
     /\ \/ n = Len(a) /\ n < Len(b)
        \/ n < Len(a) /\ n < Len(b) /\ a[n + 1] < b[n + 1]

\* key k comes before key j in the direction rev
Precedes(rev, k, j) ==
  IF rev THEN LexLess(KeyBytes[j], KeyBytes[k]) ELSE LexLess(KeyBytes[k], KeyBytes[j])

\* k is the seek key or lies beyond it in the direction rev
AtOrAfter(rev, key, k) ==
  \/ KeyBytes[k] = key
  \/ IF rev THEN LexLess(KeyBytes[k], key) ELSE LexLess(key, KeyBytes[k])

\* spec.md 235: the keys live in the snapshot that carry the prefix, from
\* the seek key on
Wanted(i) ==
  {k \in Keys : /\ snapIndex[i][k] # NoPos
                /\ IsPrefix(prefix[i], KeyBytes[k])
                /\ from[i].kind = "seek" => AtOrAfter(reverse[i], from[i].key, k)}

\* ... listed by rank in the direction, each with its snapshot position
Expected(i) ==
  LET W == Wanted(i)
      rank(k) == Cardinality({j \in W : Precedes(reverse[i], j, k)})
  IN [n \in 1..Cardinality(W) |->
        LET k == CHOOSE k \in W : rank(k) = n - 1
        IN [key |-> k, pos |-> snapIndex[i][k]]]

ItemType == [key : Keys, pos : Pos]

ITypeOK ==
  /\ ipc \in [Iters -> {"idle", "open", "lk_size", "lk_loop", "panic"}]
  /\ snap \in [Iters -> Seq(ItemType)]
  /\ \A i \in Iters : cur[i] \in 0..Len(snap[i]) \/ ipc[i] # "open"
  /\ yielded \in [Iters -> Seq(ItemType)]
  /\ lres \in [Iters -> Seq(Keys \cup {NoKey})]

\* Iteration correctness (spec.md 114-116, 235): a loop started by Rewind or
\* Seek reads, one Next at a time, exactly the keys with the prefix that
\* were live when NewIterator copied the index, in the iterator's direction,
\* from the seek key on, each with the position it had then; what it has
\* read so far is a prefix of that list.  It exercises the snapshot
\* construction of the index type, sort.Search and nextPrefix together,
\* with writers and batches changing the index around the snapshot.
IterYieldsSnapshot ==
  \A i \in Iters :
    ipc[i] = "open" /\ from[i] # NoStart =>
      IF cur[i] < Len(snap[i]) THEN IsPrefix(yielded[i], Expected(i))
      ELSE yielded[i] = Expected(i)

\* newBTreeIterator (Descend), newArtIterator (filling from Size()-1 down)
\* and NewSkipListIterator (the swap loop) materialise the same snapshot of
\* every index the engine reaches, in both directions (spec.md 114).
SnapshotsAgree ==
  \A rev \in BOOLEAN :
    ArtSnapshot(rev) = BTreeSnapshot(rev) /\ SkipListSnapshot(rev) = BTreeSnapshot(rev)

\* ListKeys (spec.md 68) returns, without panicking, the ordered live keys
\* of the index it iterated: no nil slot, no key missing.
ListKeysExact ==
  \A i \in Iters : ipc[i] # "panic" /\ lres[i] = lwant[i]
====
