------------------------------ MODULE RangeTable ------------------------------
(***************************************************************************)
(* Looking an address up (internal/asnlookup): the rows of a dataset's     *)
(* file become a sorted table, a lookup is a search in it, and the answers *)
(* are kept in an LRU cache whose entries expire.  Many requests look up   *)
(* at once while a refresh swaps the tables.                               *)
(*                                                                         *)
(* One address family, its addresses numbers; the answer is the pair of    *)
(* what the country and the ASN table say.                                 *)
(***************************************************************************)
EXTENDS Integers, Sequences, FiniteSets, FiniteSetsExt, SequencesExt

CONSTANTS
  Addresses,   \* numbers
  Files,       \* the files that may be published, as sequences of rows
  Lookups,     \* the requests under way at once
  MaxEntries,  \* CacheMaxEntries
  TTL,         \* CacheTTL, in ticks
  LastTick,    \* bound on the clock
  MaxSwaps     \* bound on the refreshes

VARIABLES
  tables,   \* the tables in use: for each dataset a set of entries
  cache,    \* front first
  under,    \* the lookups under way
  tableTime,
  swaps,
  inForce   \* history: the files each dataset has been read from, by tick

tableVars == <<tables, cache, under, tableTime, swaps, inForce>>

Datasets == {"country", "asn"}
NotFound == "notfound"
NoLookup == [at |-> "idle", ip |-> 0, answer |-> [d \in Datasets |-> NotFound]]

-----------------------------------------------------------------------------
(* parseCountryCSV, parseASNCSV, newRangeTable and lookup.                 *)

\* The fields parse, both ends are of one family and the value can be stored;
\* any other row is passed over.
TableUsable(row) == row.fields = "right" /\ ~row.mixed /\ row.value # "junk"

\* A syntax error ends the file: what came before it is kept.
Readable(file) ==
  LET broken == {i \in DOMAIN file : file[i].fields = "syntax"}
  IN IF broken = {} THEN file ELSE SubSeq(file, 1, Min(broken) - 1)

Parse(file) ==
  {[start |-> row.start, end |-> row.end, value |-> row.value] :
     row \in {r \in ToSet(Readable(file)) : TableUsable(r)}}

\* sort.Search: the last entry that starts no later than the address; entries
\* that start together are in no certain order.
Nearest(table, ip) ==
  LET upTo == {e \in table : e.start <= ip}
  IN {e \in upTo : \A f \in upTo : f.start <= e.start}

Lookup(table, ip) ==
  LET near == Nearest(table, ip)
  IN IF near = {} THEN {NotFound}
     ELSE {IF ip <= e.end THEN e.value ELSE NotFound : e \in near}

\* The rows that become ranges.
RangeRows(file) == {i \in DOMAIN Readable(file) : TableUsable(Readable(file)[i])}

ASSUME TableAssumption == Addresses \subseteq Nat /\ TTL \in Nat /\ LastTick \in Nat

\* newRangeTable "assumes the input is already disjoint, same as the data
\* source guarantees" (rangetable.go:44-48): it resolves no overlaps.
ASSUME DisjointAssumption ==
  \A file \in Files :
    LET rows == Readable(file)
    IN  /\ \A i \in RangeRows(file) :
             rows[i].start \in Nat /\ rows[i].end \in Nat /\ rows[i].start <= rows[i].end
        /\ \A i, j \in RangeRows(file) :
             i # j => rows[i].end < rows[j].start \/ rows[j].end < rows[i].start

-----------------------------------------------------------------------------
(* The cache.                                                              *)

\* items: the element of the list that holds a key.
CachedKeys == {cache[i].key : i \in DOMAIN cache}
PlaceOf(key) == CHOOSE i \in DOMAIN cache : cache[i].key = key
CacheEntry(key) == cache[PlaceOf(key)]

Without(key) == RemoveAt(cache, PlaceOf(key))

\* (mutant) What has expired is still an answer.
ExpiredNever(e) == FALSE

CacheExpired(e) == tableTime > e.expires

\* get: what is found moves to the front, what has expired is removed.
Got(key) ==
  IF CacheExpired(CacheEntry(key)) THEN Without(key) ELSE <<CacheEntry(key)>> \o Without(key)

Hit(key) == key \in CachedKeys /\ ~CacheExpired(CacheEntry(key))

\* set: the least recently used goes when the cache is full.
Put(key, answer) ==
  LET room == IF Len(cache) >= MaxEntries /\ cache # <<>> THEN Front(cache) ELSE cache
      kept == IF key \in CachedKeys THEN Without(key) ELSE room
  IN <<[key |-> key, answer |-> answer, expires |-> tableTime + TTL]>> \o kept

-----------------------------------------------------------------------------
(* The lookups, the refreshes and the clock.                               *)

TableInit ==
  /\ tables = [d \in Datasets |-> {}] /\ cache = <<>>
  /\ under = [l \in Lookups |-> NoLookup] /\ tableTime = 0 /\ swaps = 0
  /\ inForce = [d \in Datasets |-> [t \in 0..LastTick |-> {<<>>}]]

\* Resolve: a hit, or the search.
Resolve(l) ==
  /\ under[l].at = "idle"
  /\ \E ip \in Addresses :
       /\ cache' = IF ip \in CachedKeys THEN Got(ip) ELSE cache
       /\ under' = IF Hit(ip) THEN under
                   ELSE [under EXCEPT ![l] = [NoLookup EXCEPT !.at = "country", !.ip = ip]]
  /\ UNCHANGED <<tables, tableTime, swaps, inForce>>

\* The tables are loaded one after the other, each as it stands.
Search(l) ==
  LET found == under[l]
  IN /\ found.at \in Datasets
     /\ \E v \in Lookup(tables[found.at], found.ip) :
          under' = [under EXCEPT ![l] =
            [at |-> IF found.at = "country" THEN "asn" ELSE "set", ip |-> found.ip,
             answer |-> [found.answer EXCEPT ![found.at] = v]]]
     /\ UNCHANGED <<tables, cache, tableTime, swaps, inForce>>

KeepAnswer(l) ==
  /\ under[l].at = "set" /\ cache' = Put(under[l].ip, under[l].answer)
  /\ under' = [under EXCEPT ![l] = NoLookup]
  /\ UNCHANGED <<tables, tableTime, swaps, inForce>>

\* storeCountry and storeASN.  History: from this tick on, and in it, the
\* dataset is this file.
Swap ==
  /\ swaps < MaxSwaps /\ swaps' = swaps + 1
  /\ \E d \in Datasets, file \in Files :
       /\ tables' = [tables EXCEPT ![d] = Parse(file)]
       /\ inForce' = [inForce EXCEPT ![d] =
            [t \in 0..LastTick |-> IF t = tableTime THEN @[t] \union {file}
                                   ELSE IF t > tableTime THEN {file} ELSE @[t]]]
  /\ UNCHANGED <<cache, under, tableTime>>

\* A lookup takes far less than a tick.
TableTick ==
  /\ tableTime < LastTick /\ \A l \in Lookups : under[l] = NoLookup
  /\ tableTime' = tableTime + 1
  /\ UNCHANGED <<tables, cache, under, swaps, inForce>>

TableNext == Swap \/ TableTick \/ \E l \in Lookups : Resolve(l) \/ Search(l) \/ KeepAnswer(l)

TableSpec == TableInit /\ [][TableNext]_tableVars

-----------------------------------------------------------------------------
(* Properties.                                                             *)

\* What a file says of an address, row by row.
Covering(file, ip) ==
  {i \in DOMAIN Readable(file) :
     LET row == Readable(file)[i]
     IN row.fields = "right" /\ ~row.mixed /\ row.value # "junk"
        /\ row.start <= ip /\ ip <= row.end}

Says(file, ip) ==
  IF Covering(file, ip) = {} THEN NotFound
  ELSE Readable(file)[CHOOSE i \in Covering(file, ip) : TRUE].value

\* What the cache answers of an address is what a file said of it that was in
\* use no longer ago than the TTL, however lookups and refreshes interleave,
\* for each dataset by itself (asnlookup.go:189).
AnswersAreRecent ==
  \A ip \in Addresses, d \in Datasets : Hit(ip) =>
    \E t \in Max({0, tableTime - TTL})..tableTime :
      \E file \in inForce[d][t] : CacheEntry(ip).answer[d] = Says(file, ip)
=============================================================================
