----------------------------- MODULE PageTables -----------------------------
(***************************************************************************)
(* Tables of pages, cursors and hash functions of                          *)
(* src/dynamic_hashjoin/wisconsin-src: page.h, table.h, table.cpp, hash.h  *)
(* and hash.cpp.                                                           *)
(*                                                                         *)
(* A page is the sequence of the tuples it holds, a table the sequence of  *)
(* its pages with the number of the page that its cursor points to; a      *)
(* cursor behind the last page is NULL.                                    *)
(***************************************************************************)
EXTENDS Integers, SequencesExt

Garbage == 0                       (* the contents of a slot not yet written *)
EmptyPage == <<>>

(* Table::reset() after the pages have been linked. *)
Opened(pages) == [pages |-> pages, cur |-> 1]

AtEnd(table) == table.cur > Len(table.pages)

(* WriteTable::init(): one page, with nothing on it. *)
NewTable == Opened(<<EmptyPage>>)

(* WriteTable::append() with room for that many tuples on a page. *)
AppendTuple(pages, x, room) ==
  IF Len(Last(pages)) < room
  THEN [pages EXCEPT ![Len(pages)] = Append(@, x)]
  ELSE Append(pages, <<x>>)

AppendTuples(pages, s, room) ==
  FoldLeft(LAMBDA built, x : AppendTuple(built, x, room), pages, s)

(* The pages of a table that n tuples have been loaded into. *)
LoadedPages(n, room) == AppendTuples(<<EmptyPage>>, [x \in 1 .. n |-> x], room)

(* Table::split(): the pages are dealt out to n tables, each put before    *)
(* those dealt before it and the page the table was created with.          *)
DealtPages(pages, n, i) ==
  LET mine == SelectSeq([k \in 1 .. Len(pages) |-> k], LAMBDA k : (k - 1) % n = i)
  IN  Append(Reverse([k \in 1 .. Len(mine) |-> pages[mine[k]]]), EmptyPage)

-----------------------------------------------------------------------------
(* ModuloHashFunction: some bits of a key, given as value - _min.          *)

(* getlogarithm() of a k other than 0: the bits that k values need. *)
GetLogarithm(k) ==
  CHOOSE m \in 0 .. 31 : 2 ^ m >= k /\ \A l \in 0 .. (m - 1) : 2 ^ l < k

(* The constructor, for k buckets; HashFunction() makes two of one. *)
ModuloHash(k, skipbits) ==
  [bits |-> IF k \in {0, 1} THEN 1 ELSE GetLogarithm(k), skipbits |-> skipbits]

Buckets(hashfn) == 2 ^ hashfn.bits

HashOf(hashfn, value) == (value \div 2 ^ hashfn.skipbits) % Buckets(hashfn)

(* generate(): a hash function for each pass over the data, the high bits  *)
(* first.                                                                  *)
Generate(hashfn, passes) ==
  LET total == GetLogarithm(Buckets(hashfn) - 1)
      bits == total \div passes
  IN  [i \in 0 .. (passes - 1) |->
         IF i < passes - 1
         THEN ModuloHash(2 ^ bits, hashfn.skipbits + total - (i + 1) * bits)
         ELSE ModuloHash(2 ^ (total - i * bits), hashfn.skipbits)]

=============================================================================
