--------------------------- MODULE Symtable_proofs ---------------------------
(***************************************************************************)
(* Proofs about Symtable, for every set of names, every pair of hash       *)
(* functions and every table of sizes: the search finds what is stored,    *)
(* the counters are the true ones, probing ends while less than half of    *)
(* the slots are taken, and the table implements the dictionary of         *)
(* SymtableAbs.                                                            *)
(***************************************************************************)
EXTENDS Symtable, FiniteSetTheorems, WellFoundedInduction, TLAPS

\* The parameters of the probing operators, as the lemmas take them.
IsTable(its, sz) == sz \in Nat /\ sz > 2 /\ its \in Table(sz)

-----------------------------------------------------------------------------
(* Probing.                                                                *)

\* A remainder is below its modulus.
LEMMA ModRange ==
  ASSUME NEW a \in Int, NEW b \in Nat, b > 0
  PROVE  a % b \in 0..(b - 1)
OBVIOUS

\* Every test of a probing loop looks inside the array.
LEMMA ProbeRange ==
  ASSUME NEW n \in Names, NEW sz \in Nat, sz > 2, NEW k \in Int
  PROVE  Probe(n, sz, k) \in 0..(sz - 1)
<1>1. hash(n, sz) \in Int
  BY SymtableAssumption, ModRange DEF hash
<1>2. hash2(n, sz) \in Int
  <2>1. H2[n] \in Int /\ sz - 1 \in Nat /\ sz - 1 > 0
    BY SymtableAssumption
  <2>2. H2[n] % (sz - 1) \in 0..(sz - 1 - 1)
    BY <2>1, ModRange
  <2> QED BY <2>2 DEF hash2
<1>3. (k * (k - 1)) \div 2 \in Int
  <2>1. k * (k - 1) \in Int OBVIOUS
  <2> QED BY <2>1
<1>4. ((k * (k - 1)) \div 2) * hash2(n, sz) \in Int
  BY <1>2, <1>3
<1>5. hash(n, sz) + ((k * (k - 1)) \div 2) * hash2(n, sz) \in Int
  BY <1>1, <1>4
<1> QED BY <1>5, ModRange DEF Probe

\* The search ends inside the array, at NULL or at the wanted name.
LEMMA SearchEnd ==
  ASSUME NEW its, NEW sz, IsTable(its, sz), NEW n \in Names,
         NEW s \in EndOfSearch(its, n, sz)
  PROVE  /\ s \in 0..(sz - 1)
         /\ its[s] = NULL \/ its[s].name = n
<1>1. PICK k \in 0..(sz - 1) : StopsAt(its, n, sz, k) /\ s = Probe(n, sz, k)
  BY DEF EndOfSearch
<1>2. s \in 0..(sz - 1)
  BY <1>1, ProbeRange DEF IsTable
<1> QED BY <1>1, <1>2 DEF StopsAt, Stops

\* The search ends at one slot only.
LEMMA SearchUnique ==
  ASSUME NEW its, NEW sz, IsTable(its, sz), NEW n \in Names,
         NEW s \in EndOfSearch(its, n, sz), NEW t \in EndOfSearch(its, n, sz)
  PROVE  s = t
<1>1. PICK k \in 0..(sz - 1) : StopsAt(its, n, sz, k) /\ s = Probe(n, sz, k)
  BY DEF EndOfSearch
<1>2. PICK i \in 0..(sz - 1) : StopsAt(its, n, sz, i) /\ t = Probe(n, sz, i)
  BY DEF EndOfSearch
<1>3. ~(k < i) /\ ~(i < k)
  BY <1>1, <1>2 DEF StopsAt, IsTable
<1>4. k = i
  BY <1>3 DEF IsTable
<1> QED BY <1>1, <1>2, <1>4

\* get_hash returns a free slot of the array.
LEMMA FreeSlot ==
  ASSUME NEW its, NEW sz, IsTable(its, sz), NEW n \in Names,
         NEW s \in get_hash(its, n, sz)
  PROVE  s \in 0..(sz - 1) /\ its[s] = NULL
<1>1. PICK k \in 0..(sz - 1) : FreeAt(its, n, sz, k) /\ s = Probe(n, sz, k)
  BY DEF get_hash
<1>2. s \in 0..(sz - 1)
  BY <1>1, ProbeRange DEF IsTable
<1> QED BY <1>1, <1>2 DEF FreeAt

\* Storing an item of a name that is not in the table, in the slot get_hash
\* gives, hides no other item and makes the new one findable.
LEMMA StoreKeepsFound ==
  ASSUME NEW its, NEW sz, IsTable(its, sz), NEW S \in SUBSET Names,
         AllFound(its, sz, S),
         NEW it \in Item, NEW s \in get_hash(its, it.name, sz),
         it.name \in S => \A t \in 0..(sz - 1) : its[t] # NULL => its[t].name # it.name
  PROVE  AllFound([its EXCEPT ![s] = it], sz, S)
<1> DEFINE n == it.name
           new == [its EXCEPT ![s] = it]
<1>0. n \in Names /\ it # NULL
  BY NullAssumption DEF Item
<1>1. s \in 0..(sz - 1) /\ its[s] = NULL
  BY <1>0, FreeSlot
<1>2. new \in Table(sz) /\ new[s] = it
  BY <1>1 DEF IsTable, Table
<1>3. \A t \in 0..(sz - 1) : t # s => new[t] = its[t]
  BY <1>1 DEF IsTable, Table
<1> SUFFICES ASSUME NEW t \in 0..(sz - 1), new[t] # NULL, new[t].name \in S
             PROVE  t \in EndOfSearch(new, new[t].name, sz)
  BY DEF AllFound
<1>4. CASE t = s
  <2>1. PICK k \in 0..(sz - 1) : FreeAt(its, n, sz, k) /\ s = Probe(n, sz, k)
    BY DEF get_hash
  <2>2. ASSUME NEW j \in 0..(k - 1) PROVE ~Stops(new, n, sz, j)
    <3>1. Probe(n, sz, j) \in 0..(sz - 1)
      BY <1>0, ProbeRange DEF IsTable
    <3>2. its[Probe(n, sz, j)] # NULL
      BY <2>1, <2>2 DEF FreeAt
    <3>3. Probe(n, sz, j) # s
      BY <1>1, <3>2
    <3>4. its[Probe(n, sz, j)].name # n
      BY <1>2, <1>4, <3>1, <3>2
    <3> QED BY <1>3, <3>1, <3>2, <3>3, <3>4 DEF Stops
  <2>3. StopsAt(new, n, sz, k)
    BY <1>2, <2>1, <2>2 DEF StopsAt, Stops
  <2> QED BY <1>2, <1>4, <2>1, <2>3 DEF EndOfSearch
<1>5. CASE t # s
  <2> DEFINE m == its[t].name
  <2>1. new[t] = its[t] /\ m \in S /\ its[t] # NULL
    BY <1>3, <1>5
  <2>2. m \in Names
    BY <2>1
  <2>3. t \in EndOfSearch(its, m, sz)
    BY <2>1 DEF AllFound
  <2>4. PICK k \in 0..(sz - 1) : StopsAt(its, m, sz, k) /\ t = Probe(m, sz, k)
    BY <2>3 DEF EndOfSearch
  <2>5. ASSUME NEW j \in 0..(k - 1) PROVE ~Stops(new, m, sz, j)
    <3>1. Probe(m, sz, j) \in 0..(sz - 1)
      BY <2>2, ProbeRange DEF IsTable
    <3>2. its[Probe(m, sz, j)] # NULL /\ its[Probe(m, sz, j)].name # m
      BY <2>4, <2>5 DEF StopsAt, Stops
    <3>3. Probe(m, sz, j) # s
      BY <1>1, <3>2
    <3> QED BY <1>3, <3>1, <3>2, <3>3 DEF Stops
  <2>6. StopsAt(new, m, sz, k)
    BY <2>1, <2>4, <2>5 DEF StopsAt, Stops
  <2> QED BY <2>1, <2>4, <2>6 DEF EndOfSearch
<1> QED BY <1>4, <1>5

-----------------------------------------------------------------------------
(* Type correctness.                                                       *)

\* The next size is a size.
LEMMA NextSizesRange ==
  ASSUME NEW sz \in Nat, NEW new_size \in NextSizes(sz)
  PROVE  new_size \in Nat /\ new_size > 2
BY SymtableAssumption DEF NextSizes

\* An array of NULLs is a table.
LEMMA EmptyIsTable ==
  ASSUME NEW sz \in Nat
  PROVE  Empty(sz) \in Table(sz)
BY DEF Empty, Table

\* Storing an item in a slot of a table gives a table.
LEMMA StoreIsTable ==
  ASSUME NEW sz \in Nat, NEW its \in Table(sz), NEW s \in 0..(sz - 1), NEW it \in Item
  PROVE  [its EXCEPT ![s] = it] \in Table(sz)
BY DEF Table

\* symtable_init makes a table of the right types.
LEMMA TypeInit == Init => TypeOK
<1> SUFFICES ASSUME Init PROVE TypeOK
  OBVIOUS
<1>1. Primes[1] \in Nat /\ Primes[1] > 2
  BY SymtableAssumption
<1>2. size \in Nat /\ size > 2 /\ items \in Table(size) /\ newItems \in Table(size)
  BY <1>1, EmptyIsTable DEF Init
<1> QED BY <1>2, SymtableAssumption DEF Init, TypeOK, Errors

\* Every call, and every step of resize, keeps the types.
LEMMA TypeNext == TypeOK /\ [Next]_vars => TypeOK'
<1> SUFFICES ASSUME TypeOK, [Next]_vars PROVE TypeOK'
  OBVIOUS
<1> USE DEF TypeOK, Errors
<1>0. IsTable(items, size) /\ IsTable(newItems, newSize)
  BY DEF IsTable
<1>1. ASSUME Diverge PROVE TypeOK'
  BY <1>1 DEF Diverge, resizeVars, failureVars
<1>2. ASSUME NEW n \in Names, Search(n) PROVE TypeOK'
  <2>1. CASE EndOfSearch(items, n, size) = {} /\ Diverge
    BY <1>1, <2>1
  <2>2. CASE \E s \in EndOfSearch(items, n, size) :
               /\ IF IsActive(items, s)
                  THEN found' = items[s].uid /\ error' = "OK"
                  ELSE found' = NULL /\ error' = "NOT_FOUND"
               /\ UNCHANGED <<items, size, count, deactivated, uid,
                              failureVars, pc, resizeVars>>
    <3>1. PICK s \in EndOfSearch(items, n, size) :
               /\ IF IsActive(items, s)
                  THEN found' = items[s].uid /\ error' = "OK"
                  ELSE found' = NULL /\ error' = "NOT_FOUND"
               /\ UNCHANGED <<items, size, count, deactivated, uid,
                              failureVars, pc, resizeVars>>
      BY <2>2
    <3>2. s \in 0..(size - 1)
      BY <1>0, SearchEnd
    <3>3. IsActive(items, s) => items[s].uid \in Nat
      BY <3>2 DEF IsActive, Table, Item
    <3> QED BY <3>1, <3>3 DEF resizeVars, failureVars
  <2> QED BY <1>2, <2>1, <2>2 DEF Search
<1>3. ASSUME NEW n \in Names, InsertAbsent(n), pc = "idle" PROVE TypeOK'
  <2>1. PICK s \in get_hash(items, n, size) :
          /\ \/ /\ uid < MaxUid
                /\ items' = [items EXCEPT ![s] = item_init(n)]
                /\ uid' = uid + 1
                /\ error' = "OK"
                /\ UNCHANGED lostItems
             \/ /\ MallocMayFail
                /\ lostItems' = lostItems + 1
                /\ error' = "INTERNAL"
                /\ UNCHANGED <<items, uid>>
          /\ found' = NULL
          /\ count' = count + 1
          /\ check_load(count + 1)
          /\ UNCHANGED <<size, deactivated, failedResizes>>
    BY <1>3 DEF InsertAbsent
  <2>2. s \in 0..(size - 1)
    BY <1>0, FreeSlot
  <2>3. item_init(n) \in Item
    BY DEF item_init, Item
  <2>4. items' \in Table(size)
    BY <2>1, <2>2, <2>3, StoreIsTable
  <2>5. /\ uid' \in 0..MaxUid /\ error' \in Errors
        /\ lostItems' \in Nat /\ failedResizes' \in Nat /\ lostItems' + failedResizes' <= MaxAllocFailures
    <3>1. /\ uid \in 0..MaxUid /\ MaxUid \in Nat /\ MaxAllocFailures \in Nat
          /\ lostItems \in Nat /\ failedResizes \in Nat
          /\ lostItems + failedResizes <= MaxAllocFailures /\ failedResizes' = failedResizes
      BY <1>0, <2>1, SymtableAssumption
    <3>2. CASE uid < MaxUid /\ uid' = uid + 1 /\ error' = "OK" /\ UNCHANGED lostItems
      BY <3>1, <3>2
    <3>3. CASE MallocMayFail /\ lostItems' = lostItems + 1 /\ error' = "INTERNAL" /\ uid' = uid
      <4>1. lostItems + failedResizes < MaxAllocFailures
        BY <3>3 DEF MallocMayFail
      <4> QED BY <3>1, <3>3, <4>1
    <3> QED BY <2>1, <3>2, <3>3
  <2>6. /\ pc' \in {"idle", "resize", "undefined"}
        /\ newSize' \in Nat /\ newSize' > 2
        /\ newItems' \in Table(newSize')
        /\ slot' \in 0..size
    BY <2>1, NextSizesRange, EmptyIsTable DEF check_load, resizeVars
  <2> QED BY <2>1, <2>4, <2>5, <2>6
<1>4. ASSUME NEW n \in Names, Insert(n) PROVE TypeOK'
  <2>1. CASE Diverge
    BY <1>1, <2>1
  <2>2. CASE InsertAbsent(n)
    BY <1>3, <1>4, <2>2 DEF Insert
  <2>3. CASE /\ error' = "ALREADY_STORED" /\ found' = NULL
             /\ UNCHANGED <<items, size, count, deactivated, uid,
                            failureVars, pc, resizeVars>>
    BY <2>3 DEF resizeVars, failureVars
  <2> QED BY <1>4, <2>1, <2>2, <2>3 DEF Insert
<1>5. ASSUME Rehash PROVE TypeOK'
  <2>1. ASSUME NEW s \in get_hash(newItems, items[slot].name, newSize), IsActive(items, slot)
        PROVE  [newItems EXCEPT ![s] = items[slot]] \in Table(newSize)
    <3>1. items[slot] \in Item
      BY <1>5, <2>1 DEF Rehash, IsActive, Table
    <3>2. items[slot].name \in Names
      BY <3>1 DEF Item
    <3>3. s \in 0..(newSize - 1)
      BY <1>0, <3>2, FreeSlot
    <3> QED BY <3>1, <3>3, StoreIsTable
  <2>2. newItems' \in Table(newSize) /\ slot' \in 0..size /\ pc' \in {"resize", "diverged"}
    BY <1>5, <2>1 DEF Rehash
  <2> QED BY <1>5, <2>2 DEF Rehash, failureVars
<1>6. ASSUME Replace PROVE TypeOK'
  BY <1>6 DEF Replace, failureVars
<1>7. ASSUME ResizeFails PROVE TypeOK'
  BY <1>7, SymtableAssumption DEF ResizeFails, resizeVars, MallocMayFail
<1>8. ASSUME NEW n \in Names, Delete(n) PROVE TypeOK'
  <2>1. CASE Diverge
    BY <1>1, <2>1
  <2>2. ASSUME NEW s \in EndOfSearch(items, n, size), IsActive(items, s)
        PROVE  [items EXCEPT ![s].active = FALSE] \in Table(size)
    <3>1. s \in 0..(size - 1)
      BY <1>0, SearchEnd
    <3>2. items[s] \in Item
      BY <2>2, <3>1 DEF IsActive, Table
    <3>3. [items[s] EXCEPT !.active = FALSE] \in Item
      BY <3>2 DEF Item
    <3> QED BY <3>1, <3>3 DEF Table
  <2>3. CASE /\ items' \in Table(size)
             /\ deactivated' \in Int
             /\ error' \in Errors /\ found' = NULL
             /\ UNCHANGED <<size, count, uid, failureVars, pc, resizeVars>>
    BY <2>3 DEF resizeVars, failureVars
  <2> QED BY <1>8, <2>1, <2>2, <2>3 DEF Delete
<1>9. ASSUME Dispose PROVE TypeOK'
  BY <1>9, EmptyIsTable DEF Dispose, resizeVars, failureVars
<1>10. CASE UNCHANGED vars
  BY <1>10 DEF vars, resizeVars, failureVars
<1> QED BY <1>2, <1>4, <1>5, <1>6, <1>7, <1>8, <1>9, <1>10, SymtableAssumption DEF Next

\* The table's fields keep their types and no access leaves the arrays, for
\* every sequence of calls.
THEOREM TypeCorrect == Spec => []TypeOK
BY TypeInit, TypeNext, PTL DEF Spec

-----------------------------------------------------------------------------
(* Stored names are found.                                                 *)

\* In an array of NULLs there is nothing to find.
LEMMA EmptyFound ==
  ASSUME NEW sz \in Nat, NEW S
  PROVE  AllFound(Empty(sz), sz, S)
BY DEF AllFound, Empty

\* A name that is never deleted is stored once.
LEMMA StoredOnce ==
  ASSUME TypeOK, Findable,
         NEW s \in 0..(size - 1), NEW t \in 0..(size - 1),
         items[s] # NULL, items[t] # NULL,
         items[s].name = items[t].name, items[s].name \notin Deletable
  PROVE  s = t
<1>1. items[s].name \in Names
  BY DEF TypeOK, Table, Item
<1>2. s \in EndOfSearch(items, items[s].name, size) /\ t \in EndOfSearch(items, items[s].name, size)
  BY <1>1 DEF Findable, AllFound
<1> QED BY <1>1, <1>2, SearchUnique DEF TypeOK, IsTable

\* When the search for n ends at no active item, and n is never deleted, the
\* table has no item of that name.
LEMMA NotFoundNotStored ==
  ASSUME FoundInv, NEW n \in Names \ Deletable,
         NEW s \in EndOfSearch(items, n, size), ~IsActive(items, s),
         NEW t \in 0..(size - 1), items[t] # NULL
  PROVE  items[t].name # n
<1> SUFFICES ASSUME items[t].name = n PROVE FALSE
  OBVIOUS
<1>1. t \in EndOfSearch(items, n, size)
  BY DEF FoundInv, Findable, AllFound
<1>2. s = t
  BY <1>1, SearchUnique DEF FoundInv, TypeOK, IsTable
<1> QED BY <1>2 DEF IsActive, FoundInv, InactiveDeletable

\* The empty table of symtable_init satisfies the inductive invariant.
LEMMA FoundInit == Init => FoundInv
<1> SUFFICES ASSUME Init PROVE FoundInv
  OBVIOUS
<1>1. TypeOK
  BY TypeInit
<1>2. Findable
  BY <1>1, EmptyFound DEF Init, Findable, TypeOK
<1>3. NewFindable /\ InactiveDeletable /\ Copied
  BY <1>1 DEF Init, NewFindable, InactiveDeletable, Copied, Empty
<1> QED BY <1>1, <1>2, <1>3 DEF FoundInv

\* What an operation leaves when it does not touch the arrays.
LEMMA FoundUnchanged ==
  ASSUME FoundInv, TypeOK', UNCHANGED <<items, size, newItems, newSize, slot>>,
         pc' = "resize" => pc = "resize"
  PROVE  FoundInv'
<1>1. Findable' /\ InactiveDeletable'
  BY DEF FoundInv, Findable, InactiveDeletable
<1>2. NewFindable' /\ Copied'
  BY DEF FoundInv, NewFindable, Copied, IsActive
<1> QED BY <1>1, <1>2 DEF FoundInv

\* Every call, and every step of resize, keeps the inductive invariant.
LEMMA FoundNext == FoundInv /\ [Next]_vars => FoundInv'
<1> SUFFICES ASSUME FoundInv, [Next]_vars PROVE FoundInv'
  OBVIOUS
<1>t. TypeOK /\ TypeOK'
  BY TypeNext DEF FoundInv
<1>0. IsTable(items, size) /\ IsTable(newItems, newSize)
  BY <1>t DEF IsTable, TypeOK
<1>1. ASSUME Diverge PROVE FoundInv'
  BY <1>1, <1>t, FoundUnchanged DEF Diverge, resizeVars
<1>2. ASSUME NEW n \in Names, Search(n) PROVE FoundInv'
  BY <1>1, <1>2, <1>t, FoundUnchanged DEF Search, resizeVars
<1>3. ASSUME NEW n \in Names, InsertAbsent(n), pc = "idle",
             NEW e \in EndOfSearch(items, n, size), ~IsActive(items, e)
      PROVE  FoundInv'
  <2>1. PICK s \in get_hash(items, n, size) :
          /\ \/ items' = [items EXCEPT ![s] = item_init(n)]
             \/ UNCHANGED items
          /\ check_load(count + 1)
          /\ UNCHANGED size
    BY <1>3 DEF InsertAbsent
  <2>2. item_init(n) \in Item /\ item_init(n).name = n /\ item_init(n).active
    BY <1>t DEF item_init, Item, TypeOK
  <2>3. s \in 0..(size - 1) /\ items[s] = NULL
    BY <1>0, FreeSlot
  <2>4. n \notin Deletable => \A t \in 0..(size - 1) : items[t] # NULL => items[t].name # n
    BY <1>3, NotFoundNotStored
  <2>5. Findable'
    <3>1. CASE UNCHANGED items
      BY <2>1, <3>1 DEF FoundInv, Findable
    <3>2. CASE items' = [items EXCEPT ![s] = item_init(n)]
      <4>1. AllFound([items EXCEPT ![s] = item_init(n)], size, Names \ Deletable)
        <5>1. AllFound(items, size, Names \ Deletable)
          BY DEF FoundInv, Findable
        <5> HIDE DEF FoundInv
        <5> QED BY <1>0, <2>2, <2>4, <5>1, StoreKeepsFound
      <4> QED BY <2>1, <3>2, <4>1 DEF Findable
    <3> QED BY <2>1, <3>1, <3>2
  <2>6. InactiveDeletable'
    BY <1>0, <2>1, <2>2, <2>3 DEF FoundInv, InactiveDeletable, IsTable, Table
  <2>7. NewFindable' /\ Copied'
    <3>1. CASE pc' = "resize"
      <4>1. newSize' \in Nat /\ newItems' = Empty(newSize') /\ slot' = 0
        BY <1>t, <2>1, <3>1 DEF check_load, TypeOK
      <4>2. NewFindable'
        BY <4>1, EmptyFound DEF NewFindable
      <4>3. Copied'
        BY <4>1 DEF Copied, Empty
      <4> QED BY <4>2, <4>3
    <3> QED BY <3>1 DEF NewFindable, Copied
  <2> QED BY <1>t, <2>5, <2>6, <2>7 DEF FoundInv
<1>4. ASSUME NEW n \in Names, Insert(n) PROVE FoundInv'
  <2>1. CASE Diverge
    BY <1>1, <2>1
  <2>2. CASE \E e \in EndOfSearch(items, n, size) : ~IsActive(items, e) /\ InsertAbsent(n)
    BY <1>3, <1>4, <2>2 DEF Insert
  <2>3. CASE UNCHANGED <<items, size, pc, resizeVars>>
    BY <1>t, <2>3, FoundUnchanged DEF resizeVars
  <2> QED BY <1>4, <2>1, <2>2, <2>3 DEF Insert
<1>5. ASSUME Rehash PROVE FoundInv'
  <2>1. pc = "resize" /\ slot \in 0..(size - 1) /\ UNCHANGED <<items, size, newSize>>
    BY <1>5, <1>t DEF Rehash, TypeOK
  <2>2. Findable' /\ InactiveDeletable'
    BY <2>1 DEF FoundInv, Findable, InactiveDeletable
  <2>3. CASE pc' # "resize"
    BY <1>t, <2>2, <2>3 DEF FoundInv, NewFindable, Copied
  <2>4. CASE ~IsActive(items, slot) /\ slot' = slot + 1 /\ UNCHANGED newItems
    <3>1. NewFindable'
      BY <2>1, <2>4 DEF FoundInv, NewFindable
    <3>2. Copied'
      BY <1>t, <2>1, <2>4 DEF FoundInv, Copied, IsActive, TypeOK
    <3> QED BY <1>t, <2>2, <3>1, <3>2 DEF FoundInv
  <2>5. CASE /\ IsActive(items, slot)
             /\ \E s \in get_hash(newItems, items[slot].name, newSize) :
                  newItems' = [newItems EXCEPT ![s] = items[slot]]
             /\ slot' = slot + 1
    <3> DEFINE it == items[slot]
    <3>1. it \in Item /\ it # NULL /\ it.name \in Names
      BY <1>t, <2>1, <2>5 DEF IsActive, TypeOK, Table, Item
    <3>2. PICK s \in get_hash(newItems, it.name, newSize) :
            newItems' = [newItems EXCEPT ![s] = it]
      BY <2>5
    <3>3. s \in 0..(newSize - 1) /\ newItems[s] = NULL
      BY <1>0, <3>1, FreeSlot
    <3>4. ASSUME it.name \notin Deletable, NEW t \in 0..(newSize - 1), newItems[t] # NULL
          PROVE  newItems[t].name # it.name
      <4>1. PICK r \in 0..(slot - 1) : IsActive(items, r) /\ newItems[t] = items[r]
        BY <2>1, <3>4 DEF FoundInv, Copied
      <4>2. r \in 0..(size - 1) /\ r # slot /\ items[r] # NULL
        BY <1>t, <2>1, <4>1 DEF IsActive, TypeOK
      <4>3. SUFFICES ASSUME items[r].name = it.name PROVE r = slot
        BY <4>1, <4>2
      <4> QED BY <2>1, <3>1, <3>4, <4>2, <4>3, StoredOnce DEF FoundInv
    <3>5. AllFound([newItems EXCEPT ![s] = it], newSize, Names \ Deletable)
      <4>1. AllFound(newItems, newSize, Names \ Deletable)
        BY <2>1 DEF FoundInv, NewFindable
      <4> QED BY <1>0, <3>1, <3>4, <4>1, StoreKeepsFound
    <3>6. NewFindable'
      BY <2>1, <3>2, <3>5 DEF NewFindable
    <3>7. Copied'
      <4>1. newItems'[s] = it /\ \A t \in 0..(newSize - 1) : t # s => newItems'[t] = newItems[t]
        BY <1>0, <3>2, <3>3 DEF IsTable, Table
      <4>2. ASSUME NEW t \in 0..(newSize - 1), newItems'[t] # NULL
            PROVE  \E r \in 0..slot : IsActive(items, r) /\ newItems'[t] = items[r]
        BY <2>1, <2>5, <4>1, <4>2 DEF FoundInv, Copied
      <4>3. ASSUME NEW r \in 0..slot, IsActive(items, r)
            PROVE  \E t \in 0..(newSize - 1) : newItems'[t] = items[r]
        <5>1. CASE r = slot
          BY <3>3, <4>1, <5>1
        <5>2. CASE r # slot
          <6>1. PICK t \in 0..(newSize - 1) : newItems[t] = items[r]
            BY <2>1, <4>3, <5>2 DEF FoundInv, Copied
          <6>2. t # s
            BY <3>3, <4>3, <6>1 DEF IsActive
          <6> QED BY <4>1, <6>1, <6>2
        <5> QED BY <5>1, <5>2
      <4>4. slot' - 1 = slot
        BY <2>1, <2>5
      <4> QED BY <2>1, <4>2, <4>3, <4>4 DEF Copied, IsActive
    <3> QED BY <1>t, <2>2, <3>6, <3>7 DEF FoundInv
  <2> QED BY <1>5, <2>3, <2>4, <2>5 DEF Rehash
<1>6. ASSUME Replace PROVE FoundInv'
  <2>1. pc = "resize" /\ pc' = "idle" /\ items' = newItems /\ size' = newSize
    BY <1>6 DEF Replace
  <2>2. Findable'
    BY <2>1 DEF FoundInv, NewFindable, Findable
  <2>3. InactiveDeletable'
    BY <2>1 DEF FoundInv, Copied, InactiveDeletable, IsActive
  <2>4. NewFindable' /\ Copied'
    BY <2>1 DEF NewFindable, Copied
  <2> QED BY <1>t, <2>2, <2>3, <2>4 DEF FoundInv
<1>7. ASSUME ResizeFails PROVE FoundInv'
  BY <1>7, <1>t, FoundUnchanged DEF ResizeFails, resizeVars
<1>8. ASSUME NEW n \in Deletable, Delete(n) PROVE FoundInv'
  <2>0. n \in Names
    BY SymtableAssumption
  <2>1. CASE Diverge
    BY <1>1, <2>1
  <2>2. CASE UNCHANGED <<items, size, pc, resizeVars>>
    BY <1>t, <2>2, FoundUnchanged DEF resizeVars
  <2>3. CASE \E s \in EndOfSearch(items, n, size) :
               /\ IsActive(items, s)
               /\ items' = [items EXCEPT ![s].active = FALSE]
               /\ UNCHANGED <<size, pc, resizeVars>>
    <3>1. PICK s \in EndOfSearch(items, n, size) :
               /\ IsActive(items, s)
               /\ items' = [items EXCEPT ![s].active = FALSE]
               /\ UNCHANGED <<size, pc, resizeVars>>
      BY <2>3
    <3>2. s \in 0..(size - 1) /\ items[s] # NULL /\ items[s].name = n
      BY <1>0, <2>0, <3>1, SearchEnd DEF IsActive
    <3>3. items[s] \in Item
      BY <1>t, <3>2 DEF TypeOK, Table
    <3>4. items'[s] \in Item /\ items'[s].name = n
      BY <1>0, <3>1, <3>2, <3>3 DEF IsTable, Table, Item
    <3>5. \A t \in 0..(size - 1) : t # s => items'[t] = items[t]
      BY <1>0, <3>1, <3>2 DEF IsTable, Table
    <3>6. InactiveDeletable'
      BY <3>1, <3>4, <3>5 DEF FoundInv, InactiveDeletable
    <3>7. \A m \in Names, k \in Nat : Stops(items', m, size, k) <=> Stops(items, m, size, k)
      <4> SUFFICES ASSUME NEW m \in Names, NEW k \in Nat
                   PROVE  Stops(items', m, size, k) <=> Stops(items, m, size, k)
        OBVIOUS
      <4>1. Probe(m, size, k) \in 0..(size - 1)
        BY <1>0, ProbeRange DEF IsTable
      <4>2. items'[s] # NULL
        BY <3>4, NullAssumption
      <4> QED BY <3>2, <3>4, <3>5, <4>1, <4>2 DEF Stops
    <3>8. \A m \in Names : EndOfSearch(items', m, size) = EndOfSearch(items, m, size)
      <4> SUFFICES ASSUME NEW m \in Names
                   PROVE  EndOfSearch(items', m, size) = EndOfSearch(items, m, size)
        OBVIOUS
      <4>1. \A k \in 0..(size - 1) : StopsAt(items', m, size, k) <=> StopsAt(items, m, size, k)
        BY <1>0, <3>7 DEF StopsAt, IsTable
      <4> QED BY <4>1 DEF EndOfSearch
    <3>9. Findable'
      <4>1. ASSUME NEW t \in 0..(size - 1), items'[t] # NULL, items'[t].name \in Names \ Deletable
            PROVE  t \in EndOfSearch(items', items'[t].name, size)
        <5>1. t # s
          BY <3>4, <4>1
        <5>2. t \in EndOfSearch(items, items[t].name, size)
          BY <3>5, <4>1, <5>1 DEF FoundInv, Findable, AllFound
        <5> QED BY <3>5, <3>8, <4>1, <5>1, <5>2
      <4> QED BY <3>1, <4>1 DEF Findable, AllFound
    <3>10. pc = "idle"
      BY <1>8 DEF Delete
    <3>11. NewFindable' /\ Copied'
      BY <3>1, <3>10 DEF NewFindable, Copied
    <3> QED BY <1>t, <3>6, <3>9, <3>11 DEF FoundInv
  <2> QED BY <1>8, <2>1, <2>2, <2>3 DEF Delete
<1>9. ASSUME Dispose PROVE FoundInv'
  <2>1. pc' = "disposed" /\ items' = Empty(size) /\ size' = size
    BY <1>9 DEF Dispose
  <2>2. Findable'
    BY <1>t, <2>1, EmptyFound DEF Findable, TypeOK
  <2>3. InactiveDeletable' /\ NewFindable' /\ Copied'
    BY <2>1 DEF InactiveDeletable, NewFindable, Copied, Empty
  <2> QED BY <1>t, <2>2, <2>3 DEF FoundInv
<1>10. CASE UNCHANGED vars
  BY <1>t, <1>10, FoundUnchanged DEF vars, resizeVars
<1> QED BY <1>2, <1>4, <1>5, <1>6, <1>7, <1>8, <1>9, <1>10 DEF Next

\* A stored name that is never deleted is found as long as the table lives,
\* whatever collides with it and however often the table grows.
THEOREM StoredNamesAreFound == Spec => []Findable
<1>1. FoundInv => Findable
  BY DEF FoundInv
<1> QED BY FoundInit, FoundNext, <1>1, PTL DEF Spec

-----------------------------------------------------------------------------
(* What a step does to the arrays and the counters.                        *)

\* A call that only reports, or a probing loop that does not end.
Quiet ==
  /\ UNCHANGED <<items, size, count, deactivated, uid, failureVars, resizeVars>>
  /\ pc' \in {pc, "diverged"}

\* symtable_insert takes the slot s for n, which the search did not find.
Takes(n, s) ==
  /\ pc = "idle"
  /\ \/ /\ items' = [items EXCEPT ![s] = item_init(n)]
        /\ uid' = uid + 1
        /\ UNCHANGED lostItems
     \/ /\ lostItems' = lostItems + 1
        /\ UNCHANGED <<items, uid>>
  /\ count' = count + 1
  /\ check_load(count + 1)
  /\ UNCHANGED <<size, deactivated, failedResizes>>

\* symtable_delete marks the item in the slot s.
Marks(s) ==
  /\ pc = "idle"
  /\ IsActive(items, s)
  /\ items' = [items EXCEPT ![s].active = FALSE]
  /\ deactivated' = deactivated + 1
  /\ UNCHANGED <<size, count, uid, failureVars, pc, resizeVars>>

\* Every step of the table is one of these.
LEMMA StepCases ==
  ASSUME [Next]_vars
  PROVE  \/ Quiet
         \/ \E n \in Names : \E e \in EndOfSearch(items, n, size) :
              \E s \in get_hash(items, n, size) : ~IsActive(items, e) /\ Takes(n, s)
         \/ \E n \in Deletable : \E s \in EndOfSearch(items, n, size) : Marks(s)
         \/ Rehash \/ Replace \/ ResizeFails \/ Dispose
<1>1. ASSUME Diverge PROVE Quiet
  BY <1>1 DEF Diverge, Quiet
<1>2. ASSUME NEW n \in Names, Search(n) PROVE Quiet
  BY <1>1, <1>2 DEF Search, Quiet
<1>3. ASSUME NEW n \in Names, Insert(n)
      PROVE  \/ Quiet
             \/ \E e \in EndOfSearch(items, n, size) :
                  \E s \in get_hash(items, n, size) : ~IsActive(items, e) /\ Takes(n, s)
  <2>1. CASE \E e \in EndOfSearch(items, n, size) : ~IsActive(items, e) /\ InsertAbsent(n)
    BY <1>3, <2>1 DEF Insert, InsertAbsent, Takes
  <2>2. CASE Diverge
    BY <1>1, <2>2
  <2>3. CASE UNCHANGED <<items, size, count, deactivated, uid, failureVars, pc, resizeVars>>
    BY <2>3 DEF Quiet
  <2> QED BY <1>3, <2>1, <2>2, <2>3 DEF Insert
<1>4. ASSUME NEW n \in Deletable, Delete(n)
      PROVE  Quiet \/ \E s \in EndOfSearch(items, n, size) : Marks(s)
  BY <1>1, <1>4 DEF Delete, Quiet, Marks
<1>5. CASE UNCHANGED vars
  BY <1>5 DEF vars, Quiet
<1> QED BY <1>2, <1>3, <1>4, <1>5 DEF Next

-----------------------------------------------------------------------------
(* Uids are unique.                                                        *)

\* The empty table satisfies the inductive invariant.
LEMMA UidInit == Init => UidInv
<1> SUFFICES ASSUME Init PROVE UidInv
  OBVIOUS
<1>1. FoundInv
  BY FoundInit
<1>2. UidsDistinct /\ UidsUsed /\ NewUidsDistinct
  BY DEF Init, UidsDistinct, UidsUsed, NewUidsDistinct, Empty
<1> QED BY <1>1, <1>2 DEF UidInv

\* Every call, and every step of resize, keeps it.
LEMMA UidNext == UidInv /\ [Next]_vars => UidInv'
<1> SUFFICES ASSUME UidInv, [Next]_vars PROVE UidInv'
  OBVIOUS
<1>f. FoundInv /\ FoundInv' /\ TypeOK /\ TypeOK'
  BY FoundNext DEF UidInv, FoundInv
<1>0. IsTable(items, size) /\ IsTable(newItems, newSize)
  BY <1>f DEF IsTable, TypeOK
<1> SUFFICES UidsDistinct' /\ UidsUsed' /\ NewUidsDistinct'
  BY <1>f DEF UidInv
<1>u. UidsDistinct /\ UidsUsed /\ NewUidsDistinct /\ Copied
  BY DEF UidInv, FoundInv
<1>1. CASE Quiet
  BY <1>1, <1>u DEF Quiet, resizeVars, UidsDistinct, UidsUsed, NewUidsDistinct
<1>2. ASSUME NEW n \in Names, NEW s \in get_hash(items, n, size), Takes(n, s)
      PROVE  UidsDistinct' /\ UidsUsed' /\ NewUidsDistinct'
  <2>1. s \in 0..(size - 1) /\ size' = size
    BY <1>0, <1>2, FreeSlot DEF Takes
  <2>2. UidsDistinct' /\ UidsUsed'
    <3>1. CASE items' = [items EXCEPT ![s] = item_init(n)] /\ uid' = uid + 1
      <4>1. items'[s] = item_init(n) /\ items'[s].uid = uid
        BY <1>0, <2>1, <3>1 DEF item_init, IsTable, Table
      <4>2. \A t \in 0..(size - 1) : t # s => items'[t] = items[t]
        BY <1>0, <2>1, <3>1 DEF IsTable, Table
      <4>3. \A t \in 0..(size - 1) : t # s /\ items'[t] # NULL => items'[t].uid < uid
        BY <1>u, <4>2 DEF UidsUsed
      <4>4. UidsDistinct'
        BY <1>f, <1>u, <2>1, <4>1, <4>2, <4>3 DEF UidsDistinct, TypeOK
      <4>5. uid \in Nat /\ \A t \in 0..(size - 1) : items[t] # NULL => items[t].uid \in Nat
        <5>1. uid \in Nat /\ items \in [0..(size - 1) -> Item \union {NULL}]
          BY <1>f DEF TypeOK, Table
        <5> QED BY <5>1 DEF Item
      <4>6. UidsUsed'
        BY <2>1, <3>1, <4>1, <4>2, <4>3, <4>5 DEF UidsUsed
      <4> QED BY <4>4, <4>6
    <3>2. CASE UNCHANGED <<items, uid>>
      BY <1>u, <2>1, <3>2 DEF UidsDistinct, UidsUsed
    <3> QED BY <1>2, <3>1, <3>2 DEF Takes
  <2>3. NewUidsDistinct'
    <3>1. pc' = "resize" => newItems' = Empty(newSize')
      BY <1>2 DEF Takes, check_load
    <3> QED BY <3>1 DEF NewUidsDistinct, Empty
  <2> QED BY <2>2, <2>3
<1>3. ASSUME NEW n \in Deletable, NEW s \in EndOfSearch(items, n, size), Marks(s)
      PROVE  UidsDistinct' /\ UidsUsed' /\ NewUidsDistinct'
  <2>1. s \in 0..(size - 1) /\ size' = size /\ uid' = uid /\ items[s] # NULL
    BY <1>0, <1>3, SearchEnd, SymtableAssumption DEF Marks, IsActive
  <2>2. items[s] \in Item
    BY <1>f, <2>1 DEF TypeOK, Table
  <2>3. items'[s].uid = items[s].uid
    BY <1>0, <1>3, <2>1, <2>2 DEF Marks, IsTable, Table, Item
  <2>4. \A t \in 0..(size - 1) : t # s => items'[t] = items[t]
    BY <1>0, <1>3, <2>1 DEF Marks, IsTable, Table
  <2>5. UidsDistinct' /\ UidsUsed'
    BY <1>u, <2>1, <2>3, <2>4 DEF UidsDistinct, UidsUsed
  <2>6. NewUidsDistinct'
    BY <1>3 DEF Marks, NewUidsDistinct
  <2> QED BY <2>5, <2>6
<1>4. CASE Rehash
  <2>1. pc = "resize" /\ slot \in 0..(size - 1) /\ UNCHANGED <<items, size, uid, newSize>>
    BY <1>4, <1>f DEF Rehash, TypeOK
  <2>2. UidsDistinct' /\ UidsUsed'
    BY <1>u, <2>1 DEF UidsDistinct, UidsUsed
  <2>3. CASE UNCHANGED newItems
    BY <1>u, <2>1, <2>2, <2>3 DEF NewUidsDistinct
  <2>4. CASE /\ IsActive(items, slot)
             /\ \E s \in get_hash(newItems, items[slot].name, newSize) :
                  newItems' = [newItems EXCEPT ![s] = items[slot]]
    <3> DEFINE it == items[slot]
    <3>1. it \in Item /\ it # NULL /\ it.name \in Names
      BY <1>f, <2>1, <2>4 DEF IsActive, TypeOK, Table, Item
    <3>2. PICK s \in get_hash(newItems, it.name, newSize) :
            newItems' = [newItems EXCEPT ![s] = it]
      BY <2>4
    <3>3. s \in 0..(newSize - 1)
      BY <1>0, <3>1, FreeSlot
    <3>4. newItems'[s] = it /\ \A t \in 0..(newSize - 1) : t # s => newItems'[t] = newItems[t]
      BY <1>0, <3>2, <3>3 DEF IsTable, Table
    <3>5. ASSUME NEW t \in 0..(newSize - 1), newItems[t] # NULL
          PROVE  newItems[t].uid # it.uid
      <4>1. PICK r \in 0..(slot - 1) : IsActive(items, r) /\ newItems[t] = items[r]
        BY <1>u, <2>1, <3>5 DEF Copied
      <4>2. r \in 0..(size - 1) /\ r # slot /\ items[r] # NULL
        BY <1>f, <2>1, <4>1 DEF IsActive, TypeOK
      <4> QED BY <1>u, <2>1, <3>1, <4>1, <4>2 DEF UidsDistinct
    <3>6. NewUidsDistinct'
      BY <1>u, <2>1, <3>4, <3>5 DEF NewUidsDistinct
    <3> QED BY <2>2, <3>6
  <2> QED BY <1>4, <2>3, <2>4 DEF Rehash
<1>5. CASE Replace
  <2>1. UidsUsed'
    <3>1. pc = "resize" /\ items' = newItems /\ size' = newSize /\ uid' = uid /\ slot = size
      BY <1>5 DEF Replace
    <3> QED BY <1>u, <3>1 DEF UidsUsed, Copied, IsActive
  <2> QED BY <1>5, <1>u, <2>1 DEF Replace, UidsDistinct, NewUidsDistinct
<1>6. CASE ResizeFails
  BY <1>6, <1>u DEF ResizeFails, resizeVars, UidsDistinct, UidsUsed, NewUidsDistinct
<1>7. CASE Dispose
  BY <1>7 DEF Dispose, UidsDistinct, UidsUsed, NewUidsDistinct, Empty
<1> QED BY <1>1, <1>2, <1>3, <1>4, <1>5, <1>6, <1>7, StepCases

\* No two items of a table ever have the same uid, with any number of
\* insertions, deletions, failures and resizes.
THEOREM UidsAreUnique == Spec => []UidsDistinct
<1>1. UidInv => UidsDistinct
  BY DEF UidInv
<1> QED BY UidInit, UidNext, <1>1, PTL DEF Spec

-----------------------------------------------------------------------------
(***************************************************************************)
(* How full the table gets: its counters are the true ones, and its        *)
(* probing loops end as long as less than half of the slots are taken.     *)
(***************************************************************************)

-----------------------------------------------------------------------------
(* Counting slots.                                                         *)

\* A set of slots is finite.
LEMMA SlotsFinite ==
  ASSUME NEW sz \in Nat, NEW S \in SUBSET (0..(sz - 1))
  PROVE  IsFiniteSet(S) /\ Cardinality(S) \in Nat
<1>1. IsFiniteSet(0..(sz - 1))
  BY FS_Interval
<1>2. IsFiniteSet(S)
  BY <1>1, FS_Subset
<1> QED BY <1>2, FS_CardinalityType

\* The slots that are taken, and those of them with an inactive item, are slots.
LEMMA OccupiedSlots ==
  ASSUME NEW its, NEW sz \in Nat
  PROVE  /\ Occupied(its, sz) \in SUBSET (0..(sz - 1))
         /\ Inactive(its, sz) \in SUBSET (0..(sz - 1))
         /\ IsFiniteSet(Occupied(its, sz)) /\ Cardinality(Occupied(its, sz)) \in Nat
         /\ IsFiniteSet(Inactive(its, sz)) /\ Cardinality(Inactive(its, sz)) \in Nat
<1>1. /\ Occupied(its, sz) \in SUBSET (0..(sz - 1))
      /\ Inactive(its, sz) \in SUBSET (0..(sz - 1))
  BY DEF Occupied, Inactive
<1> QED BY <1>1, SlotsFinite

\* Storing an active item in a free slot takes one slot more.
LEMMA StoreOccupies ==
  ASSUME NEW its, NEW sz, IsTable(its, sz), NEW s \in 0..(sz - 1), its[s] = NULL,
         NEW it \in Item, it.active
  PROVE  LET new == [its EXCEPT ![s] = it]
         IN /\ Cardinality(Occupied(new, sz)) = Cardinality(Occupied(its, sz)) + 1
            /\ Inactive(new, sz) = Inactive(its, sz)
<1> DEFINE new == [its EXCEPT ![s] = it]
<1>1. it # NULL
  BY NullAssumption
<1>2. new[s] = it /\ \A t \in 0..(sz - 1) : t # s => new[t] = its[t]
  BY DEF IsTable, Table
<1>3. Occupied(new, sz) = Occupied(its, sz) \union {s} /\ s \notin Occupied(its, sz)
  BY <1>1, <1>2 DEF Occupied
<1>4. Inactive(new, sz) = Inactive(its, sz)
  BY <1>1, <1>2 DEF Occupied, Inactive
<1>5. IsFiniteSet(Occupied(its, sz))
  BY OccupiedSlots DEF IsTable
<1>6. Cardinality(Occupied(new, sz)) = Cardinality(Occupied(its, sz)) + 1
  BY <1>3, <1>5, FS_AddElement
<1> QED BY <1>4, <1>6

\* In an array of NULLs no slot is taken.
LEMMA EmptyOccupied ==
  ASSUME NEW sz \in Nat
  PROVE  Cardinality(Occupied(Empty(sz), sz)) = 0 /\ Cardinality(Inactive(Empty(sz), sz)) = 0
<1>1. Occupied(Empty(sz), sz) = {} /\ Inactive(Empty(sz), sz) = {}
  BY DEF Occupied, Inactive, Empty
<1> QED BY <1>1, FS_EmptySet

\* Of the slots that are taken, those without an inactive item are active.
LEMMA ActiveCount ==
  ASSUME NEW its, NEW sz \in Nat
  PROVE  Cardinality({s \in 0..(sz - 1) : IsActive(its, s)})
           = Cardinality(Occupied(its, sz)) - Cardinality(Inactive(its, sz))
<1> DEFINE O == Occupied(its, sz)
           I == Inactive(its, sz)
<1>1. {s \in 0..(sz - 1) : IsActive(its, s)} = O \ I /\ O \intersect I = I
  BY DEF Occupied, Inactive, IsActive
<1>2. IsFiniteSet(O)
  BY OccupiedSlots
<1> QED BY <1>1, <1>2, FS_Difference

-----------------------------------------------------------------------------
(* The counters.                                                           *)

\* check_load lets at most 65% pass.
LEMMA NotOverloaded ==
  ASSUME NEW c \in Int, NEW sz \in Nat, ~Overloaded(c, sz)
  PROVE  100 * c <= 65 * sz
BY DEF Overloaded

LEMMA LoadLess ==
  ASSUME NEW c \in Int, NEW f \in Nat, NEW sz \in Nat, 100 * c <= 65 * sz
  PROVE  100 * (c - f) <= 65 * sz
OBVIOUS

\* The search of resize() for a size finds the prime behind the present one.
LEMMA NextSize ==
  ASSUME NEW i \in 1..Len(Primes), NEW new_size \in NextSizes(Primes[i])
  PROVE  i < Len(Primes) /\ new_size = Primes[i + 1]
<1>1. PICK k \in 1..Len(Primes) :
        /\ new_size = Primes[k] /\ Primes[i] < Primes[k]
        /\ \A j \in 1..(k - 1) : Primes[j] <= Primes[i]
  BY DEF NextSizes
<1>2. \A j \in 1..Len(Primes) : Primes[j] \in Nat
  BY SymtableAssumption
<1>3. ~(k < i) /\ k # i
  BY <1>1, <1>2, SymtableAssumption
<1>4. ~(i + 1 < k)
  <2> SUFFICES ASSUME i + 1 < k PROVE FALSE
    OBVIOUS
  <2>1. i + 1 \in 1..(k - 1) /\ i + 1 \in 1..Len(Primes)
    OBVIOUS
  <2>2. Primes[i + 1] <= Primes[i]
    BY <1>1, <2>1
  <2>3. Primes[i] < Primes[i + 1]
    BY <2>1, SymtableAssumption
  <2> QED BY <1>2, <2>1, <2>2, <2>3
<1>5. k = i + 1
  BY <1>3, <1>4
<1> QED BY <1>1, <1>5

\* The empty table satisfies the inductive invariant.
LEMMA CountInit == Init => CountInv
<1> SUFFICES ASSUME Init PROVE CountInv
  OBVIOUS
<1>1. FoundInv /\ TypeOK
  BY FoundInit, TypeInit
<1>2. SizesListed /\ CopiedOnce /\ CountWhileResizing
  BY SymtableAssumption DEF Init, SizesListed, CopiedOnce, CountWhileResizing
<1>3. CountAccurate
  <2>1. size \in Nat /\ items = Empty(size) /\ count = 0 /\ deactivated = 0
    BY <1>1 DEF Init, TypeOK
  <2>2. pc = "idle" /\ lostItems = 0 /\ failedResizes = 0
    BY DEF Init
  <2>3. Cardinality(Occupied(items, size)) = 0 /\ Cardinality(Inactive(items, size)) = 0
    BY <2>1, EmptyOccupied
  <2> QED BY <2>1, <2>2, <2>3 DEF CountAccurate
<1> QED BY <1>1, <1>2, <1>3 DEF CountInv

\* Every call, and every step of resize, keeps it.
LEMMA CountNext == CountInv /\ [Next]_vars => CountInv'
<1> SUFFICES ASSUME CountInv, [Next]_vars PROVE CountInv'
  OBVIOUS
<1>t. TypeOK /\ TypeOK' /\ FoundInv' /\ Copied
  BY FoundNext DEF CountInv, FoundInv
<1>0. IsTable(items, size) /\ IsTable(newItems, newSize)
  BY <1>t DEF IsTable, TypeOK
<1>i. SizesListed /\ CopiedOnce /\ CountAccurate /\ CountWhileResizing
  BY DEF CountInv
<1> DEFINE Goal == SizesListed' /\ CopiedOnce' /\ CountAccurate' /\ CountWhileResizing'
<1> SUFFICES Goal
  BY <1>t DEF CountInv
<1>1. CASE Quiet
  <2>1. CASE pc' = pc
    BY <1>1, <2>1, <1>i DEF Quiet, resizeVars, SizesListed, CopiedOnce, CountAccurate,
                            CountWhileResizing, IsActive, failureVars
  <2>2. CASE pc' = "diverged"
    BY <1>1, <2>2, <1>i DEF Quiet, resizeVars, SizesListed, CopiedOnce, CountAccurate,
                            CountWhileResizing
  <2> QED BY <1>1, <2>1, <2>2 DEF Quiet
<1>2. ASSUME NEW n \in Names, NEW s \in get_hash(items, n, size), Takes(n, s)
      PROVE  Goal
  <2>1. s \in 0..(size - 1) /\ items[s] = NULL /\ pc = "idle"
    BY <1>0, <1>2, FreeSlot DEF Takes
  <2>2. item_init(n) \in Item /\ item_init(n).active
    BY <1>t DEF item_init, Item, TypeOK
  <2>3. size' = size /\ deactivated' = deactivated /\ count' = count + 1 /\ check_load(count + 1)
    BY <1>2 DEF Takes
  <2>4. SizesListed'
    <3>1. PICK i \in 1..Len(Primes) : size = Primes[i]
      BY <1>i DEF SizesListed
    <3>2. pc' = "resize" => newSize' \in NextSizes(Primes[i])
      BY <2>3, <3>1 DEF check_load
    <3>3. pc' = "resize" => i < Len(Primes) /\ newSize' = Primes[i + 1]
      BY <3>2, NextSize
    <3> QED BY <2>3, <3>1, <3>3 DEF SizesListed
  <2>5. CopiedOnce'
    <3> SUFFICES ASSUME pc' = "resize" PROVE CopiedOnce'
      BY DEF CopiedOnce
    <3>1. newSize' \in Nat /\ newItems' = Empty(newSize') /\ slot' = 0
      BY <1>t, <2>3 DEF check_load, TypeOK
    <3>2. {r \in 0..(slot' - 1) : IsActive(items', r)} = {}
      BY <3>1
    <3> QED BY <3>1, <3>2, EmptyOccupied, FS_EmptySet DEF CopiedOnce
  <2>6. /\ count = Cardinality(Occupied(items, size)) + lostItems
        /\ deactivated = Cardinality(Inactive(items, size))
        /\ 100 * (count - failedResizes) <= 65 * size
    BY <1>i, <2>1 DEF CountAccurate
  <2>7. /\ count' = Cardinality(Occupied(items', size')) + lostItems'
        /\ deactivated' = Cardinality(Inactive(items', size'))
    <3>1. Cardinality(Occupied(items, size)) \in Nat /\ lostItems \in Nat
      BY <1>t, OccupiedSlots DEF TypeOK
    <3>2. CASE items' = [items EXCEPT ![s] = item_init(n)] /\ lostItems' = lostItems
      <4>1. /\ Cardinality(Occupied(items', size)) = Cardinality(Occupied(items, size)) + 1
            /\ Cardinality(Inactive(items', size)) = Cardinality(Inactive(items, size))
        BY <1>0, <2>1, <2>2, <3>2, StoreOccupies
      <4> QED BY <2>3, <2>6, <3>1, <3>2, <4>1
    <3>3. CASE items' = items /\ lostItems' = lostItems + 1
      BY <2>3, <2>6, <3>1, <3>3
    <3> QED BY <1>2, <3>2, <3>3 DEF Takes
  <2>8. count \in Int /\ count' \in Int /\ size' \in Nat /\ failedResizes' \in Nat /\ failedResizes' = failedResizes
    BY <1>t, <1>2 DEF TypeOK, Takes
  <2>9. pc' = "idle" => 100 * (count' - failedResizes') <= 65 * size'
    <3> SUFFICES ASSUME pc' = "idle" PROVE 100 * (count' - failedResizes') <= 65 * size'
      OBVIOUS
    <3>1. ~Overloaded(count', size')
      BY <2>3 DEF check_load
    <3>2. 100 * count' <= 65 * size'
      BY <2>8, <3>1, NotOverloaded
    <3> QED BY <2>8, <3>2, LoadLess
  <2>10. 100 * (count' - 1 - failedResizes') <= 65 * size'
    BY <2>3, <2>6, <2>8
  <2>11. CountAccurate' /\ CountWhileResizing'
    BY <2>7, <2>9, <2>10 DEF CountAccurate, CountWhileResizing
  <2> QED BY <2>4, <2>5, <2>11
<1>3. ASSUME NEW n \in Deletable, NEW s \in EndOfSearch(items, n, size), Marks(s)
      PROVE  Goal
  <2>1. s \in 0..(size - 1) /\ items[s] # NULL /\ items[s].active /\ pc = "idle"
    BY <1>0, <1>3, SearchEnd, SymtableAssumption DEF Marks, IsActive
  <2>2. items[s] \in Item
    BY <1>t, <2>1 DEF TypeOK, Table
  <2>3. items'[s] \in Item /\ ~items'[s].active
    BY <1>0, <1>3, <2>1, <2>2 DEF Marks, IsTable, Table, Item
  <2>4. \A t \in 0..(size - 1) : t # s => items'[t] = items[t]
    BY <1>0, <1>3, <2>1 DEF Marks, IsTable, Table
  <2>5. size' = size /\ count' = count /\ deactivated' = deactivated + 1
          /\ UNCHANGED failureVars /\ pc' = pc
    BY <1>3 DEF Marks
  <2>6. Occupied(items', size) = Occupied(items, size)
    BY <2>1, <2>3, <2>4, NullAssumption DEF Occupied
  <2>7. Inactive(items', size) = Inactive(items, size) \union {s} /\ s \notin Inactive(items, size)
    BY <2>1, <2>3, <2>4, <2>6 DEF Occupied, Inactive
  <2>8. IsFiniteSet(Inactive(items, size))
    BY <1>t, OccupiedSlots DEF TypeOK
  <2>9. Cardinality(Inactive(items', size)) = Cardinality(Inactive(items, size)) + 1
    BY <2>7, <2>8, FS_AddElement
  <2>10. CountAccurate'
    BY <1>i, <2>1, <2>5, <2>6, <2>9 DEF CountAccurate, failureVars
  <2> QED BY <1>i, <2>1, <2>5, <2>10 DEF SizesListed, CopiedOnce, CountWhileResizing
<1>4. CASE Rehash
  <2>1. /\ pc = "resize" /\ pc' # "idle" /\ slot \in 0..(size - 1)
        /\ UNCHANGED <<items, size, count, deactivated, failureVars, newSize>>
    BY <1>4, <1>t DEF Rehash, TypeOK
  <2>2. SizesListed' /\ CountAccurate' /\ CountWhileResizing'
    BY <1>i, <2>1 DEF SizesListed, CountAccurate, CountWhileResizing, failureVars
  <2> DEFINE Before == {s \in 0..(slot - 1) : IsActive(items, s)}
  <2>3. Cardinality(Occupied(newItems, newSize)) = Cardinality(Before)
    BY <1>i, <2>1 DEF CopiedOnce
  <2>4. CASE pc' # "resize"
    BY <2>2, <2>4 DEF CopiedOnce
  <2>5. CASE ~IsActive(items, slot) /\ slot' = slot + 1 /\ UNCHANGED newItems
    <3>1. {s \in 0..(slot' - 1) : IsActive(items', s)} = Before
      BY <1>t, <2>1, <2>5 DEF TypeOK, IsActive
    <3> QED BY <2>1, <2>2, <2>3, <2>5, <3>1 DEF CopiedOnce
  <2>6. CASE /\ IsActive(items, slot)
             /\ \E s \in get_hash(newItems, items[slot].name, newSize) :
                  newItems' = [newItems EXCEPT ![s] = items[slot]]
             /\ slot' = slot + 1
    <3> DEFINE it == items[slot]
    <3>1. it \in Item /\ it.name \in Names /\ it.active
      BY <1>t, <2>1, <2>6 DEF IsActive, TypeOK, Table, Item
    <3>2. PICK s \in get_hash(newItems, it.name, newSize) :
            newItems' = [newItems EXCEPT ![s] = it]
      BY <2>6
    <3>3. s \in 0..(newSize - 1) /\ newItems[s] = NULL
      BY <1>0, <3>1, FreeSlot
    <3>4. Cardinality(Occupied(newItems', newSize)) = Cardinality(Occupied(newItems, newSize)) + 1
      BY <1>0, <3>1, <3>2, <3>3, StoreOccupies
    <3>5. {r \in 0..(slot' - 1) : IsActive(items', r)} = Before \union {slot} /\ slot \notin Before
      BY <1>t, <2>1, <2>6 DEF TypeOK, IsActive
    <3>6. IsFiniteSet(Before)
      BY <1>t, <2>1, SlotsFinite, Before \in SUBSET (0..(slot - 1)), slot \in Nat DEF TypeOK
    <3>7. Cardinality({r \in 0..(slot' - 1) : IsActive(items', r)}) = Cardinality(Before) + 1
      BY <3>5, <3>6, FS_AddElement
    <3> QED BY <2>1, <2>2, <2>3, <3>4, <3>7 DEF CopiedOnce
  <2> QED BY <1>4, <2>4, <2>5, <2>6 DEF Rehash
<1>5. CASE Replace
  <2>1. /\ pc = "resize" /\ pc' = "idle" /\ slot = size
        /\ items' = newItems /\ size' = newSize
        /\ count' = count - deactivated /\ deactivated' = 0
        /\ lostItems' = lostItems /\ failedResizes' = failedResizes
    BY <1>5 DEF Replace, failureVars
  <2>2. PICK i \in 1..Len(Primes) :
          i < Len(Primes) /\ size = Primes[i] /\ newSize = Primes[i + 1]
    BY <1>i, <2>1 DEF SizesListed
  <2>3. SizesListed'
    BY <2>1, <2>2, SymtableAssumption, i + 1 \in 1..Len(Primes) DEF SizesListed
  <2>4. CopiedOnce' /\ CountWhileResizing'
    BY <2>1 DEF CopiedOnce, CountWhileResizing
  <2>5. CountAccurate'
    <3>1. /\ count = Cardinality(Occupied(items, size)) + lostItems
          /\ deactivated = Cardinality(Inactive(items, size))
          /\ 100 * (count - 1 - failedResizes) <= 65 * size
      BY <1>i, <2>1 DEF CountWhileResizing
    <3>2. /\ Cardinality(Occupied(items, size)) \in Nat /\ Cardinality(Occupied(newItems, newSize)) \in Nat
          /\ Cardinality(Inactive(items, size)) \in Nat /\ lostItems \in Nat /\ failedResizes \in Nat
          /\ size \in Nat /\ newSize \in Nat /\ size > 2
      BY <1>t, OccupiedSlots DEF TypeOK
    <3>3. Cardinality(Occupied(items, size)) - Cardinality(Inactive(items, size))
            = Cardinality(Occupied(newItems, newSize))
      BY <1>i, <1>t, <2>1, ActiveCount DEF CopiedOnce, TypeOK
    <3>4. count' = Cardinality(Occupied(newItems, newSize)) + lostItems'
      <4>1. /\ count = Cardinality(Occupied(items, size)) + lostItems
            /\ deactivated = Cardinality(Inactive(items, size))
        BY <3>1
      <4>2. count' = count - deactivated /\ lostItems' = lostItems
        BY <2>1
      <4>3. \A o, d, l, m \in Int : o - d = m => (o + l) - d = m + l
        OBVIOUS
      <4> QED BY <3>2, <3>3, <4>1, <4>2, <4>3
    <3>5. Inactive(newItems, newSize) = {}
      BY <1>t, <2>1 DEF Copied, IsActive, Occupied, Inactive
    <3>6. deactivated' = Cardinality(Inactive(newItems, newSize))
      BY <2>1, <3>5, FS_EmptySet
    <3>7. 13 * size <= 10 * newSize
      BY <2>2, PrimesAssumption
    <3>8. PICK c \in Int : c = count - failedResizes
      BY <3>1, <3>2
    <3>9. 100 * c <= 65 * newSize
      <4>1. 100 * (c - 1) <= 65 * size
        BY <3>1, <3>2, <3>8
      <4>2. CASE size <= 5
        BY <3>2, <3>7, <3>8, <4>1, <4>2
      <4>3. CASE size > 5
        BY <3>2, <3>7, <3>8, <4>1, <4>3
      <4> QED BY <3>2, <4>2, <4>3
    <3>10. 100 * (count' - failedResizes') <= 65 * newSize
      <4>1. count' - failedResizes' <= c
        <5>1. count \in Int /\ deactivated \in Nat /\ failedResizes \in Nat
          BY <1>t, <3>1, <3>2 DEF TypeOK
        <5>2. count' - failedResizes' = count - deactivated - failedResizes
          BY <2>1
        <5> QED BY <3>8, <5>1, <5>2
      <4>2. count' - failedResizes' \in Int
        BY <2>1, <3>1, <3>2
      <4>3. PICK d \in Int : d = count' - failedResizes'
        BY <4>2
      <4>4. 100 * d <= 65 * newSize
        BY <3>2, <3>8, <3>9, <4>1, <4>3
      <4> QED BY <4>3, <4>4
    <3> QED BY <2>1, <3>4, <3>6, <3>10 DEF CountAccurate
  <2> QED BY <2>3, <2>4, <2>5
<1>6. CASE ResizeFails
  <2>1. /\ pc = "resize" /\ pc' = "idle" /\ lostItems' = lostItems /\ failedResizes' = failedResizes + 1
        /\ UNCHANGED <<items, size, count, deactivated>>
    BY <1>6 DEF ResizeFails
  <2>2. count \in Int /\ failedResizes \in Nat /\ size \in Nat
    BY <1>t DEF TypeOK
  <2>3. CountAccurate'
    BY <1>i, <2>1, <2>2 DEF CountAccurate, CountWhileResizing
  <2> QED BY <1>i, <2>1, <2>3 DEF SizesListed, CopiedOnce, CountWhileResizing
<1>7. CASE Dispose
  BY <1>i, <1>7 DEF Dispose, SizesListed, CopiedOnce, CountAccurate, CountWhileResizing
<1> QED BY <1>1, <1>2, <1>3, <1>4, <1>5, <1>6, <1>7, StepCases

\* Between calls the counters that check_load and resize rely on are those of the
\* slots, but for exactly one per item that could not be allocated, and the load
\* exceeds 65% by no more than one item per resize that failed: for every sequence
\* of calls, whichever of their allocations fail.
THEOREM CountersAreAccurate == Spec => []CountAccurate
<1>1. CountInv => CountAccurate
  BY DEF CountInv
<1> QED BY CountInit, CountNext, <1>1, PTL DEF Spec

-----------------------------------------------------------------------------
(* Probe paths.                                                            *)

\* Quotient and remainder.
LEMMA Division ==
  ASSUME NEW a \in Int, NEW p \in Nat, p > 0
  PROVE  /\ a \div p \in Int
         /\ a % p \in 0..(p - 1)
         /\ a = p * (a \div p) + (a % p)
<1>1. a \div p \in Int
  OBVIOUS
<1>2. a % p \in 0..(p - 1)
  OBVIOUS
<1>3. a = p * (a \div p) + (a % p)
  OBVIOUS
<1> QED BY <1>1, <1>2, <1>3

\* A multiple leaves no remainder.
LEMMA MultipleMod ==
  ASSUME NEW q \in Int, NEW p \in Nat, p > 0
  PROVE  (p * q) % p = 0
<1> DEFINE d == (p * q) \div p
           r == (p * q) % p
<1>1. p * q \in Int
  OBVIOUS
<1>2. d \in Int /\ r \in 0..(p - 1) /\ p * q = p * d + r
  BY <1>1, Division
<1> HIDE DEF d, r
<1>3. p * (q - d) = r
  BY <1>2
<1>4. ~(q - d >= 1) /\ ~(q - d <= -1)
  BY <1>2, <1>3
<1>5. q - d = 0
  BY <1>2, <1>4
<1>6. r = 0
  BY <1>3, <1>5
<1> QED BY <1>6 DEF r

\* The offsets of the probing loops are whole: k * (k - 1) is even.
LEMMA Offset ==
  ASSUME NEW k \in Int
  PROVE  (k * (k - 1)) \div 2 \in Int /\ 2 * ((k * (k - 1)) \div 2) = k * (k - 1)
<1>1. PICK m \in Int : k = 2 * m \/ k = 2 * m + 1
  <2>1. k \div 2 \in Int /\ (k = 2 * (k \div 2) \/ k = 2 * (k \div 2) + 1)
    OBVIOUS
  <2> QED BY <2>1
<1>2. CASE k = 2 * m
  <2>1. k * (k - 1) = 2 * (m * (2 * m - 1)) /\ m * (2 * m - 1) \in Int
    BY <1>2
  <2>2. (2 * (m * (2 * m - 1))) \div 2 = m * (2 * m - 1)
    BY <2>1
  <2> QED BY <2>1, <2>2
<1>3. CASE k = 2 * m + 1
  <2>1. k * (k - 1) = 2 * (m * (2 * m + 1)) /\ m * (2 * m + 1) \in Int
    BY <1>3
  <2>2. (2 * (m * (2 * m + 1))) \div 2 = m * (2 * m + 1)
    BY <2>1
  <2> QED BY <2>1, <2>2
<1> QED BY <1>1, <1>2, <1>3

\* The sizes are odd.
LEMMA OddSize ==
  ASSUME NEW p \in 1..Len(Primes), NEW m \in Int
  PROVE  Primes[p] # 2 * m
<1> SUFFICES ASSUME Primes[p] = 2 * m PROVE FALSE
  OBVIOUS
<1>1. Primes[p] \in Nat /\ Primes[p] > 2
  BY SymtableAssumption
<1>2. 2 \in 1..(Primes[p] - 1) /\ m \in 1..(Primes[p] - 1)
  BY <1>1
<1>3. (2 * m) % Primes[p] # 0
  BY <1>2, PrimesAssumption
<1>4. (Primes[p] * 1) % Primes[p] = 0
  BY <1>1, MultipleMod
<1>5. Primes[p] * 1 = 2 * m
  BY <1>1
<1> QED BY <1>3, <1>4, <1>5

\* The first (size + 1) / 2 different tests of a probing loop look at different
\* slots, since the size is prime.
LEMMA ProbesDiffer ==
  ASSUME NEW n \in Names, NEW p \in 1..Len(Primes),
         NEW i \in Nat, NEW j \in Nat, 0 < i, i < j, 2 * j <= Primes[p] + 1
  PROVE  Probe(n, Primes[p], i) # Probe(n, Primes[p], j)
<1> DEFINE sz == Primes[p]
           h0 == hash(n, sz)
           h == hash2(n, sz)
           ti == (i * (i - 1)) \div 2
           tj == (j * (j - 1)) \div 2
           x == h0 + ti * h
           y == h0 + tj * h
           a == j - i
           b == i + j - 1
           r == (a * b) % sz
           k == (a * b) \div sz
           q == (y \div sz) - (x \div sz)
<1> SUFFICES ASSUME x % sz = y % sz PROVE FALSE
  BY DEF Probe
<1>1. sz \in Nat /\ sz > 2
  BY SymtableAssumption
<1>2. h0 \in Int
  BY <1>1, SymtableAssumption, ModRange DEF hash
<1>3. h \in 1..(sz - 1)
  <2>1. H2[n] \in Int /\ sz - 1 \in Nat /\ sz - 1 > 0
    <3>1. H2[n] \in Nat
      BY SymtableAssumption
    <3> HIDE DEF sz
    <3> QED BY <1>1, <3>1
  <2>2. H2[n] % (sz - 1) \in 0..(sz - 1 - 1)
    BY <2>1, ModRange
  <2> QED BY <1>1, <2>2 DEF hash2
<1>4. a \in 1..(sz - 1) /\ b \in 1..(sz - 1)
  BY <1>1
<1>5. a * b \in Int
  BY <1>4
<1>6. r \in 1..(sz - 1) /\ k \in Int /\ a * b = sz * k + r
  <2>1. r \in 0..(sz - 1) /\ k \in Int /\ a * b = sz * k + r
    <3>1. sz > 0
      BY <1>1
    <3> DEFINE ab == a * b
    <3>2. ab \in Int
      BY <1>5
    <3> HIDE DEF ab, sz
    <3>3. ab % sz \in 0..(sz - 1) /\ ab \div sz \in Int /\ ab = sz * (ab \div sz) + (ab % sz)
      BY <1>1, <3>1, <3>2, Division
    <3> QED BY <3>3 DEF ab
  <2>2. r # 0
    BY <1>4, PrimesAssumption
  <2> QED BY <2>1, <2>2
<1>7. ti \in Int /\ 2 * ti = i * (i - 1) /\ tj \in Int /\ 2 * tj = j * (j - 1)
  BY Offset
<1>8. x \in Int /\ y \in Int
  <2> HIDE DEF ti, tj, h, h0, sz
  <2> QED BY <1>2, <1>3, <1>7
<1>9. q \in Int /\ y - x = sz * q
  <2>0. sz > 0
    BY <1>1
  <2> HIDE DEF x, y, sz
  <2>1. /\ x \div sz \in Int /\ x = sz * (x \div sz) + (x % sz)
        /\ y \div sz \in Int /\ y = sz * (y \div sz) + (y % sz)
        /\ x % sz \in Int
    BY <1>1, <1>8, <2>0, Division
  <2> QED BY <1>1, <1>8, <2>1
<1>10. y - x = (tj - ti) * h
  <2> HIDE DEF ti, tj, h, h0, sz
  <2> QED BY <1>2, <1>3, <1>7
<1>11. 2 * (tj - ti) = a * b
  <2> HIDE DEF ti, tj
  <2>1. i * (i - 1) + a * b = j * (j - 1)
    OBVIOUS
  <2> QED BY <1>5, <1>7, <2>1
<1>12. (a * b) * h = sz * (2 * q)
  <2> HIDE DEF ti, tj, h, sz, x, y, q, a, b
  <2>1. (2 * (tj - ti)) * h = 2 * ((tj - ti) * h)
    BY <1>3, <1>7
  <2>2. 2 * (sz * q) = sz * (2 * q)
    BY <1>1, <1>9
  <2> QED BY <1>9, <1>10, <1>11, <2>1, <2>2
<1>13. r * h = sz * (2 * q - k * h)
  <2> HIDE DEF h, sz, q, a, b, r, k
  <2>1. (sz * k + r) * h = sz * (k * h) + r * h
    BY <1>1, <1>3, <1>6
  <2>2. sz * (2 * q - k * h) = sz * (2 * q) - sz * (k * h)
    BY <1>1, <1>3, <1>6, <1>9
  <2>3. r * h \in Int /\ sz * (k * h) \in Int /\ sz * (2 * q) \in Int
    BY <1>1, <1>3, <1>6, <1>9
  <2> QED BY <1>6, <1>12, <2>1, <2>2, <2>3
<1>14. (r * h) % sz = 0
  <2> HIDE DEF h, sz, q, r, k
  <2>1. 2 * q - k * h \in Int
    BY <1>3, <1>6, <1>9
  <2> QED BY <1>1, <1>13, <2>1, MultipleMod
<1> QED BY <1>3, <1>6, <1>14, PrimesAssumption

\* Adding a multiple does not change the remainder.
LEMMA AddMultiple ==
  ASSUME NEW x \in Int, NEW m \in Int, NEW p \in Nat, p > 0
  PROVE  (x + p * m) % p = x % p
<1> DEFINE y == x + p * m
           qx == x \div p
           qy == y \div p
           rx == x % p
           ry == y % p
<1>1. p * m \in Int /\ y \in Int
  OBVIOUS
<1> HIDE DEF y
<1>2. /\ qx \in Int /\ rx \in 0..(p - 1) /\ x = p * qx + rx
      /\ qy \in Int /\ ry \in 0..(p - 1) /\ y = p * qy + ry
  BY <1>1, Division
<1> HIDE DEF qx, qy, rx, ry
<1>3. p * (qy - qx - m) = rx - ry
  <2>1. p * (qy - qx - m) = p * qy - p * qx - p * m
    BY <1>2
  <2>2. p * qy \in Int /\ p * qx \in Int
    BY <1>2
  <2> QED BY <1>1, <1>2, <2>1, <2>2 DEF y
<1>4. ~(qy - qx - m >= 1) /\ ~(qy - qx - m <= -1)
  BY <1>2, <1>3
<1>5. qy - qx - m = 0
  BY <1>2, <1>4
<1>6. rx = ry
  BY <1>2, <1>3, <1>5
<1> QED BY <1>6 DEF rx, ry, y

\* The probe path repeats after as many tests as the table has slots: a loop
\* that has not ended by then never ends.
LEMMA ProbesRepeat ==
  ASSUME NEW n \in Names, NEW p \in 1..Len(Primes), NEW k \in Nat
  PROVE  Probe(n, Primes[p], k + Primes[p]) = Probe(n, Primes[p], k)
<1> DEFINE sz == Primes[p]
           h0 == hash(n, sz)
           step == hash2(n, sz)
           t == (k * (k - 1)) \div 2
           u == ((k + sz) * ((k + sz) - 1)) \div 2
<1>1. sz \in Nat /\ sz > 2
  BY SymtableAssumption
<1>2. h0 \in Int
  BY <1>1, SymtableAssumption, ModRange DEF hash
<1>3. step \in Int
  <2>1. H2[n] \in Int /\ sz - 1 \in Nat /\ sz - 1 > 0
    <3>1. H2[n] \in Nat
      BY SymtableAssumption
    <3> HIDE DEF sz
    <3> QED BY <1>1, <3>1
  <2>2. H2[n] % (sz - 1) \in 0..(sz - 1 - 1)
    BY <2>1, ModRange
  <2> QED BY <1>1, <2>2 DEF hash2
<1>4. PICK h \in Nat : sz = 2 * h + 1
  <2>1. sz \div 2 \in Nat /\ (sz = 2 * (sz \div 2) \/ sz = 2 * (sz \div 2) + 1)
    BY <1>1
  <2>2. sz # 2 * (sz \div 2)
    BY <2>1, OddSize
  <2> QED BY <2>1, <2>2
<1>5. /\ t \in Int /\ 2 * t = k * (k - 1)
      /\ u \in Int /\ 2 * u = (k + sz) * ((k + sz) - 1)
  BY <1>1, Offset, k \in Int, k + sz \in Int
<1>6. u = t + sz * (k + h)
  <2> HIDE DEF t, u, sz
  <2>1. (k + sz) * ((k + sz) - 1) = k * (k - 1) + 2 * (sz * (k + h))
    BY <1>1, <1>4
  <2>2. sz * (k + h) \in Int /\ k * (k - 1) \in Int
    BY <1>1
  <2> QED BY <1>5, <2>1, <2>2
<1>7. h0 + u * step = (h0 + t * step) + sz * ((k + h) * step)
  <2> HIDE DEF t, u, sz, h0, step
  <2>1. (t + sz * (k + h)) * step = t * step + sz * ((k + h) * step)
    <3>1. sz \in Int /\ k + h \in Int /\ step \in Int /\ t \in Int
      BY <1>1, <1>3, <1>5
    <3>2. \A a, b, c, d \in Int : (a + b * c) * d = a * d + b * (c * d)
      OBVIOUS
    <3> QED BY <3>1, <3>2
  <2>2. t * step \in Int /\ sz * ((k + h) * step) \in Int
    BY <1>1, <1>3, <1>5
  <2> QED BY <1>2, <1>6, <2>1, <2>2
<1>8. (h0 + u * step) % sz = (h0 + t * step) % sz
  <2> HIDE DEF t, u, sz, h0, step
  <2>1. h0 + t * step \in Int /\ (k + h) * step \in Int /\ sz > 0
    BY <1>1, <1>2, <1>3, <1>5
  <2> DEFINE x == h0 + t * step
             m == (k + h) * step
  <2>2. x \in Int /\ m \in Int /\ sz \in Nat /\ sz > 0
    BY <1>1, <2>1
  <2>3. h0 + u * step = x + sz * m
    BY <1>7
  <2> HIDE DEF x, m
  <2>4. (x + sz * m) % sz = x % sz
    BY <2>2, AddMultiple
  <2> QED BY <2>3, <2>4 DEF x
<1> QED BY <1>8 DEF Probe

\* A set of natural numbers that is not empty has a least element.
LEMMA LeastNatural ==
  ASSUME NEW S \in SUBSET Nat, S # {}
  PROVE  \E m \in S : \A k \in S : m <= k
<1>1. PICK m \in S : \A k \in S : <<k, m>> \notin OpToRel(<, Nat)
  BY NatLessThanWellFounded, WFMin, Zenon
<1>2. \A k \in S : ~(k < m)
  BY <1>1 DEF OpToRel
<1> QED BY <1>2

\* A loop of symtable_search that does not end meets no free slot.
LEMMA SearchMeetsNoFreeSlot ==
  ASSUME NEW its, NEW n, NEW sz \in Nat, EndOfSearch(its, n, sz) = {},
         NEW k \in 0..(sz - 1)
  PROVE  its[Probe(n, sz, k)] # NULL
<1> SUFFICES ASSUME its[Probe(n, sz, k)] = NULL PROVE FALSE
  OBVIOUS
<1> DEFINE S == {i \in 0..(sz - 1) : Stops(its, n, sz, i)}
<1>1. k \in S /\ S \in SUBSET Nat
  BY DEF Stops
<1>2. PICK m \in S : \A i \in S : m <= i
  BY <1>1, LeastNatural, Zenon
<1>3. \A j \in 0..(m - 1) : ~Stops(its, n, sz, j)
  BY <1>2
<1>4. m \in 0..(sz - 1) /\ StopsAt(its, n, sz, m)
  BY <1>2, <1>3 DEF StopsAt
<1> QED BY <1>4 DEF EndOfSearch

\* Neither does a loop of get_hash.
LEMMA GetHashMeetsNoFreeSlot ==
  ASSUME NEW its, NEW n, NEW sz \in Nat, get_hash(its, n, sz) = {},
         NEW k \in 0..(sz - 1)
  PROVE  its[Probe(n, sz, k)] # NULL
<1> SUFFICES ASSUME its[Probe(n, sz, k)] = NULL PROVE FALSE
  OBVIOUS
<1> DEFINE S == {i \in 0..(sz - 1) : its[Probe(n, sz, i)] = NULL}
<1>1. k \in S /\ S \in SUBSET Nat
  OBVIOUS
<1>2. PICK m \in S : \A i \in S : m <= i
  BY <1>1, LeastNatural, Zenon
<1>3. \A j \in 0..(m - 1) : its[Probe(n, sz, j)] # NULL
  BY <1>2
<1>4. m \in 0..(sz - 1) /\ FreeAt(its, n, sz, m)
  BY <1>2, <1>3 DEF FreeAt
<1> QED BY <1>4 DEF get_hash

\* A probe path without a free slot takes more than half of the table.
LEMMA FullPath ==
  ASSUME NEW its, NEW p \in 1..Len(Primes), NEW n \in Names,
         \A k \in 0..(Primes[p] - 1) : its[Probe(n, Primes[p], k)] # NULL
  PROVE  2 * Cardinality(Occupied(its, Primes[p])) > Primes[p]
<1> DEFINE sz == Primes[p]
<1>1. sz \in Nat /\ sz > 2
  BY SymtableAssumption
<1>2. PICK h \in Nat : sz = 2 * h + 1
  <2>1. sz \div 2 \in Nat /\ (sz = 2 * (sz \div 2) \/ sz = 2 * (sz \div 2) + 1)
    BY <1>1
  <2>2. sz # 2 * (sz \div 2)
    BY <2>1, OddSize
  <2> QED BY <2>1, <2>2
<1> DEFINE path == [k \in 1..(h + 1) |-> Probe(n, sz, k)]
<1>3. \A k \in 1..(h + 1) : path[k] \in Occupied(its, sz)
  <2> SUFFICES ASSUME NEW k \in 1..(h + 1) PROVE path[k] \in Occupied(its, sz)
    OBVIOUS
  <2>1. k \in 0..(sz - 1) /\ k \in Int
    BY <1>1, <1>2
  <2>2. Probe(n, sz, k) \in 0..(sz - 1)
    BY <1>1, <2>1, ProbeRange
  <2> QED BY <2>1, <2>2 DEF Occupied
<1>4. \A i, j \in 1..(h + 1) : i < j => path[i] # path[j]
  <2> SUFFICES ASSUME NEW i \in 1..(h + 1), NEW j \in 1..(h + 1), i < j
               PROVE  path[i] # path[j]
    OBVIOUS
  <2>1. i \in Nat /\ j \in Nat /\ 0 < i /\ 2 * j <= sz + 1
    BY <1>2
  <2> QED BY <2>1, ProbesDiffer
<1>5. \A i, j \in 1..(h + 1) : path[i] = path[j] => i = j
  <2> SUFFICES ASSUME NEW i \in 1..(h + 1), NEW j \in 1..(h + 1), i # j
               PROVE  path[i] # path[j]
    OBVIOUS
  <2>1. i < j \/ j < i
    OBVIOUS
  <2> HIDE DEF path
  <2> QED BY <1>4, <2>1
<1>6. path \in Injection(1..(h + 1), Occupied(its, sz))
  <2>1. path \in [1..(h + 1) -> Occupied(its, sz)] /\ DOMAIN path = 1..(h + 1)
    BY <1>3
  <2> HIDE DEF path
  <2> QED BY <1>5, <2>1 DEF Injection, IsInjective
<1>7. IsFiniteSet(Occupied(its, sz)) /\ Cardinality(Occupied(its, sz)) \in Nat
  BY <1>1, OccupiedSlots
<1>8. Cardinality(1..(h + 1)) <= Cardinality(Occupied(its, sz))
  <2> HIDE DEF path, sz
  <2> QED BY <1>6, <1>7, FS_Injection
<1>9. Cardinality(1..(h + 1)) = h + 1
  BY FS_Interval
<1> QED BY <1>2, <1>7, <1>8, <1>9

\* resize() never meets a full probe path in the larger array when every
\* allocation succeeds.
LEMMA RehashEnds ==
  ASSUME CountInv, lostItems = 0, failedResizes = 0, pc = "resize", slot < size, IsActive(items, slot)
  PROVE  get_hash(newItems, items[slot].name, newSize) # {}
<1> SUFFICES ASSUME get_hash(newItems, items[slot].name, newSize) = {} PROVE FALSE
  OBVIOUS
<1>1. TypeOK /\ SizesListed /\ CopiedOnce /\ CountWhileResizing
  BY DEF CountInv, FoundInv
<1>2. PICK i \in 1..Len(Primes) :
        i < Len(Primes) /\ size = Primes[i] /\ newSize = Primes[i + 1]
  BY <1>1 DEF SizesListed
<1>3. i + 1 \in 1..Len(Primes)
  BY <1>2, SymtableAssumption
<1>4. slot \in 0..(size - 1) /\ size \in Nat /\ newSize \in Nat /\ count \in Int
  BY <1>1 DEF TypeOK
<1>5. items[slot].name \in Names
  BY <1>1, <1>4 DEF TypeOK, IsActive, Table, Item
<1>6. \A k \in 0..(newSize - 1) : newItems[Probe(items[slot].name, newSize, k)] # NULL
  BY <1>4, GetHashMeetsNoFreeSlot
<1>7. 2 * Cardinality(Occupied(newItems, newSize)) > newSize
  BY <1>2, <1>3, <1>5, <1>6, FullPath
<1> DEFINE Before == {s \in 0..(slot - 1) : IsActive(items, s)}
<1>8. Cardinality(Before) <= count - 1
  <2>1. Before \in SUBSET (Occupied(items, size) \ {slot}) /\ slot \in Occupied(items, size)
    BY <1>4 DEF Occupied, IsActive
  <2>2. IsFiniteSet(Occupied(items, size))
    BY <1>4, OccupiedSlots
  <2>3. /\ IsFiniteSet(Occupied(items, size) \ {slot})
        /\ Cardinality(Occupied(items, size) \ {slot}) = Cardinality(Occupied(items, size)) - 1
    BY <2>1, <2>2, FS_RemoveElement
  <2>4. Cardinality(Before) <= Cardinality(Occupied(items, size) \ {slot})
    BY <2>1, <2>3, FS_Subset
  <2>5. count = Cardinality(Occupied(items, size)) /\ Cardinality(Occupied(items, size)) \in Nat
    BY <1>1, <1>4, OccupiedSlots DEF CountWhileResizing
  <2> QED BY <2>3, <2>4, <2>5
<1>9. Cardinality(Occupied(newItems, newSize)) <= count - 1
  BY <1>1, <1>8 DEF CopiedOnce
<1>10. 100 * (count - 1) <= 65 * size
  <2>1. 100 * (count - 1 - 0) <= 65 * size
    BY <1>1 DEF CountWhileResizing
  <2> QED BY <1>4, <2>1
<1>11. 13 * size <= 10 * newSize
  BY <1>2, PrimesAssumption
<1>12. Cardinality(Occupied(newItems, newSize)) \in Nat
  BY <1>4, OccupiedSlots
<1> QED BY <1>4, <1>7, <1>9, <1>10, <1>11, <1>12

\* Where a probing loop runs forever, the table is more than half full.
LEMMA DivergesHalfFull ==
  ASSUME CountInv, [Next]_vars, lostItems = 0, failedResizes = 0, pc' = "diverged", pc # "diverged"
  PROVE  pc = "idle" /\ 2 * Cardinality(Occupied(items, size)) > size
<1>1. TypeOK /\ SizesListed
  BY DEF CountInv, FoundInv
<1>2. PICK i \in 1..Len(Primes) : size = Primes[i]
  BY <1>1 DEF SizesListed
<1>3. size \in Nat
  BY <1>1 DEF TypeOK
<1>4. ASSUME NEW n \in Names, EndOfSearch(items, n, size) = {}
      PROVE  2 * Cardinality(Occupied(items, size)) > size
  <2>1. \A k \in 0..(size - 1) : items[Probe(n, size, k)] # NULL
    BY <1>3, <1>4, SearchMeetsNoFreeSlot
  <2> QED BY <1>2, <2>1, FullPath
<1>5. ASSUME NEW n \in Names, get_hash(items, n, size) = {}
      PROVE  2 * Cardinality(Occupied(items, size)) > size
  <2>1. \A k \in 0..(size - 1) : items[Probe(n, size, k)] # NULL
    BY <1>3, <1>5, GetHashMeetsNoFreeSlot
  <2> QED BY <1>2, <2>1, FullPath
<1>6. ASSUME NEW n \in Names, Search(n) \/ Delete(n)
      PROVE  pc = "idle" /\ EndOfSearch(items, n, size) = {}
  BY <1>6 DEF Search, Delete
<1>7. ASSUME NEW n \in Names, Insert(n)
      PROVE  /\ pc = "idle"
             /\ EndOfSearch(items, n, size) = {} \/ get_hash(items, n, size) = {}
  BY <1>7 DEF Insert, InsertAbsent, check_load
<1>8. ASSUME Rehash PROVE FALSE
  BY <1>8, RehashEnds DEF Rehash
<1>9. ~Replace /\ ~ResizeFails /\ ~Dispose /\ ~UNCHANGED vars
  BY DEF Replace, ResizeFails, Dispose, vars
<1> QED BY <1>4, <1>5, <1>6, <1>7, <1>8, <1>9, SymtableAssumption DEF Next

\* When every allocation succeeds, get_hash and symtable_search run forever
\* only in a table that is more than half full, and never in the larger array
\* that resize() fills: for all names, hash values and prime sizes.
THEOREM ProbingEndsBelowHalf ==
  ASSUME MaxAllocFailures = 0
  PROVE  Spec => DivergesOnlyHalfFull
<1>1. CountInv => lostItems = 0 /\ failedResizes = 0
  BY DEF CountInv, FoundInv, TypeOK
<1>2. CountInv /\ [Next]_vars
        => [pc' = "diverged" /\ pc # "diverged"
              => pc = "idle" /\ 2 * Cardinality(Occupied(items, size)) > size]_vars
  BY <1>1, DivergesHalfFull
<1> QED BY CountInit, CountNext, <1>2, PTL DEF Spec, DivergesOnlyHalfFull

-----------------------------------------------------------------------------
(***************************************************************************)
(* The hash table implements the dictionary of SymtableAbs.                *)
(*                                                                         *)
(* The hypothesis Deletable = {} is how the compiler uses the table: it    *)
(* never calls symtable_delete.  With deletions the theorem would be       *)
(* false: a name that is inserted again after it was deleted is stored     *)
(* behind its inactive item and not found.                                 *)
(***************************************************************************)

\* The names of the dictionary are those of the active items.
LEMMA DeclaredName ==
  ASSUME NEW n
  PROVE  n \in Abs!DeclaredNames
           <=> \E s \in 0..(size - 1) : IsActive(items, s) /\ items[s].name = n
<1>1. ASSUME n \in Abs!DeclaredNames
      PROVE  \E s \in 0..(size - 1) : IsActive(items, s) /\ items[s].name = n
  <2>1. PICK d \in Declared : n = d.name
    BY <1>1 DEF Abs!DeclaredNames
  <2>2. PICK s \in 0..(size - 1) :
          IsActive(items, s) /\ d = [name |-> items[s].name, uid |-> items[s].uid]
    BY <2>1 DEF Declared
  <2> QED BY <2>1, <2>2
<1>2. ASSUME NEW s \in 0..(size - 1), IsActive(items, s), items[s].name = n
      PROVE  n \in Abs!DeclaredNames
  <2> DEFINE d == [name |-> items[s].name, uid |-> items[s].uid]
  <2>1. d \in Declared
    BY <1>2 DEF Declared
  <2>2. d.name = n
    BY <1>2
  <2> QED BY <2>1, <2>2 DEF Abs!DeclaredNames
<1> QED BY <1>1, <1>2

\* A name the search does not find is not in the dictionary.
LEMMA NotFoundNotDeclared ==
  ASSUME FoundInv, Deletable = {}, NEW n \in Names,
         NEW s \in EndOfSearch(items, n, size), ~IsActive(items, s)
  PROVE  n \notin Abs!DeclaredNames
<1>1. \A t \in 0..(size - 1) : items[t] # NULL => items[t].name # n
  BY NotFoundNotStored
<1> QED BY <1>1, DeclaredName DEF IsActive

\* A name the search finds is in the dictionary, with the uid of its item.
LEMMA FoundDeclared ==
  ASSUME TypeOK, NEW n \in Names, NEW s \in EndOfSearch(items, n, size), IsActive(items, s)
  PROVE  /\ [name |-> n, uid |-> items[s].uid] \in Declared
         /\ n \in Abs!DeclaredNames
<1>1. s \in 0..(size - 1) /\ items[s].name = n
  BY SearchEnd DEF TypeOK, IsTable, IsActive
<1> QED BY <1>1, DeclaredName DEF Declared

\* The dictionary does not see a step that leaves the items alone.
LEMMA SameDeclared ==
  ASSUME UNCHANGED <<items, size>>
  PROVE  Declared' = Declared
BY DEF Declared, IsActive

\* An item that is stored in a free slot is added to the dictionary.
LEMMA StoreDeclares ==
  ASSUME TypeOK, NEW n \in Names, NEW s \in get_hash(items, n, size),
         items' = [items EXCEPT ![s] = item_init(n)], size' = size
  PROVE  Declared' = Declared \union {[name |-> n, uid |-> uid]}
<1>1. s \in 0..(size - 1) /\ items[s] = NULL
  BY FreeSlot DEF TypeOK, IsTable
<1>2. /\ items'[s] = item_init(n)
      /\ \A t \in 0..(size - 1) : t # s => items'[t] = items[t]
  BY <1>1 DEF TypeOK, Table
<1>3. item_init(n) # NULL /\ item_init(n).active /\ item_init(n).name = n /\ item_init(n).uid = uid
  <2>1. item_init(n) \in Item
    BY DEF item_init, Item, TypeOK
  <2> QED BY <2>1, NullAssumption DEF item_init
<1>4. \A t \in 0..(size - 1) : IsActive(items', t) <=> t = s \/ IsActive(items, t)
  BY <1>1, <1>2, <1>3 DEF IsActive
<1>5. ~IsActive(items, s)
  BY <1>1 DEF IsActive
<1>6. ASSUME NEW d \in Declared' PROVE d \in Declared \union {[name |-> n, uid |-> uid]}
  <2>1. PICK t \in 0..(size - 1) :
          IsActive(items', t) /\ d = [name |-> items'[t].name, uid |-> items'[t].uid]
    BY <1>6 DEF Declared
  <2> QED BY <1>2, <1>3, <1>4, <2>1 DEF Declared
<1>7. ASSUME NEW d \in Declared PROVE d \in Declared'
  <2>1. PICK t \in 0..(size - 1) :
          IsActive(items, t) /\ d = [name |-> items[t].name, uid |-> items[t].uid]
    BY <1>7 DEF Declared
  <2>2. t # s /\ IsActive(items', t)
    BY <1>4, <1>5, <2>1
  <2> QED BY <1>2, <2>1, <2>2 DEF Declared
<1>8. [name |-> n, uid |-> uid] \in Declared'
  BY <1>1, <1>2, <1>3, <1>4 DEF Declared
<1> QED BY <1>6, <1>7, <1>8

\* The end of resize() changes nothing for the callers: the new array holds the
\* items of the old one.
LEMMA ReplaceDeclares ==
  ASSUME FoundInv, Replace
  PROVE  Declared' = Declared
<1>1. pc = "resize" /\ slot = size /\ items' = newItems /\ size' = newSize
  BY DEF Replace
<1>2. /\ \A t \in 0..(newSize - 1) :
           newItems[t] # NULL =>
             \E s \in 0..(size - 1) : IsActive(items, s) /\ newItems[t] = items[s]
      /\ \A s \in 0..(size - 1) :
           IsActive(items, s) => \E t \in 0..(newSize - 1) : newItems[t] = items[s]
  BY <1>1 DEF FoundInv, Copied
<1>3. ASSUME NEW d \in Declared' PROVE d \in Declared
  <2>1. PICK t \in 0..(newSize - 1) :
          IsActive(newItems, t) /\ d = [name |-> newItems[t].name, uid |-> newItems[t].uid]
    BY <1>1, <1>3 DEF Declared
  <2>2. PICK s \in 0..(size - 1) : IsActive(items, s) /\ newItems[t] = items[s]
    BY <1>2, <2>1 DEF IsActive
  <2> QED BY <2>1, <2>2 DEF Declared
<1>4. ASSUME NEW d \in Declared PROVE d \in Declared'
  <2>1. PICK s \in 0..(size - 1) :
          IsActive(items, s) /\ d = [name |-> items[s].name, uid |-> items[s].uid]
    BY <1>4 DEF Declared
  <2>2. PICK t \in 0..(newSize - 1) : newItems[t] = items[s]
    BY <1>2, <2>1
  <2>3. IsActive(newItems, t)
    BY <2>1, <2>2 DEF IsActive
  <2> QED BY <1>1, <2>1, <2>2, <2>3 DEF Declared
<1> QED BY <1>3, <1>4

\* An array of NULLs is an empty dictionary.
LEMMA EmptyDeclares ==
  ASSUME items = Empty(size)
  PROVE  Declared = {}
BY DEF Declared, IsActive, Empty

-----------------------------------------------------------------------------
\* A table begins as an empty dictionary.
LEMMA RefinesInit == Init => Abs!Init
BY EmptyDeclares DEF Init, Abs!Init

\* Every step of the table is a step of the dictionary, or one its callers do
\* not see.
LEMMA RefinesNext ==
  ASSUME FoundInv, Deletable = {}, [Next]_vars
  PROVE  [Abs!Next]_(Abs!absVars)
<1>t. TypeOK
  BY DEF FoundInv
<1>1. ASSUME pc = "idle", Diverge PROVE UNCHANGED Abs!absVars
  <2>1. Declared' = Declared
    BY <1>1, SameDeclared DEF Diverge
  <2>2. (pc' = "disposed") = (pc = "disposed")
    BY <1>1 DEF Diverge
  <2> QED BY <1>1, <2>1, <2>2 DEF Diverge, Abs!absVars
<1>2. ASSUME NEW n \in Names, Search(n) PROVE [Abs!Next]_(Abs!absVars)
  <2>1. CASE Diverge
    BY <1>1, <1>2, <2>1 DEF Search
  <2>2. ASSUME NEW s \in EndOfSearch(items, n, size),
               IF IsActive(items, s)
                 THEN found' = items[s].uid /\ error' = "OK"
                 ELSE found' = NULL /\ error' = "NOT_FOUND",
               UNCHANGED <<items, size, uid, pc>>
        PROVE  Abs!Search(n)
    <3>1. Declared' = Declared
      BY <2>2, SameDeclared
    <3>2. pc # "disposed" /\ (pc' = "disposed") = (pc = "disposed")
      BY <1>2, <2>2 DEF Search
    <3>3. CASE IsActive(items, s)
      <4> DEFINE d == [name |-> n, uid |-> items[s].uid]
      <4>1. d \in Declared
        BY <1>t, <3>3, FoundDeclared
      <4>2. d.name = n /\ found' = d.uid /\ error' = "OK"
        BY <2>2, <3>3
      <4> HIDE DEF d
      <4> QED BY <2>2, <3>1, <3>2, <4>1, <4>2 DEF Abs!Search
    <3>4. CASE ~IsActive(items, s)
      <4>1. n \notin Abs!DeclaredNames
        BY <3>4, NotFoundNotDeclared
      <4> QED BY <2>2, <3>1, <3>2, <3>4, <4>1 DEF Abs!Search
    <3> QED BY <3>3, <3>4
  <2>3. Abs!Search(n) => Abs!Next
    BY DEF Abs!Next
  <2> QED BY <1>2, <2>1, <2>2, <2>3 DEF Search
<1>3. ASSUME NEW n \in Names, Insert(n) PROVE [Abs!Next]_(Abs!absVars)
  <2>0. pc = "idle"
    BY <1>3 DEF Insert
  <2>1. CASE Diverge
    BY <1>1, <2>0, <2>1
  <2>2. ASSUME NEW s \in EndOfSearch(items, n, size), IsActive(items, s),
               error' = "ALREADY_STORED", found' = NULL,
               UNCHANGED <<items, size, uid, pc>>
        PROVE  Abs!Insert(n)
    <3>1. Declared' = Declared /\ n \in Abs!DeclaredNames
      BY <1>t, <2>2, SameDeclared, FoundDeclared
    <3>2. pc # "disposed" /\ (pc' = "disposed") = (pc = "disposed")
      BY <2>0, <2>2
    <3> QED BY <2>2, <3>1, <3>2 DEF Abs!Insert
  <2>3. ASSUME NEW e \in EndOfSearch(items, n, size), ~IsActive(items, e), InsertAbsent(n)
        PROVE  Abs!Insert(n)
    <3>1. n \notin Abs!DeclaredNames
      BY <2>3, NotFoundNotDeclared
    <3>2. PICK s \in get_hash(items, n, size) :
            /\ \/ /\ items' = [items EXCEPT ![s] = item_init(n)]
                  /\ uid' = uid + 1
                  /\ error' = "OK"
               \/ /\ error' = "INTERNAL"
                  /\ UNCHANGED <<items, uid>>
            /\ found' = NULL
            /\ check_load(count + 1)
            /\ size' = size
      BY <2>3 DEF InsertAbsent
    <3>3. pc # "disposed" /\ (pc' = "disposed") = (pc = "disposed")
      BY <2>0, <3>2 DEF check_load
    <3>4. CASE items' = [items EXCEPT ![s] = item_init(n)] /\ uid' = uid + 1 /\ error' = "OK"
      <4>1. Declared' = Declared \union {[name |-> n, uid |-> uid]}
        BY <1>t, <3>2, <3>4, StoreDeclares
      <4> QED BY <3>1, <3>2, <3>3, <3>4, <4>1 DEF Abs!Insert
    <3>5. CASE error' = "INTERNAL" /\ UNCHANGED <<items, uid>>
      <4>1. Declared' = Declared
        BY <3>2, <3>5, SameDeclared
      <4> QED BY <3>1, <3>2, <3>3, <3>5, <4>1 DEF Abs!Insert
    <3> QED BY <3>2, <3>4, <3>5
  <2>4. Abs!Insert(n) => Abs!Next
    BY DEF Abs!Next
  <2> QED BY <1>3, <2>1, <2>2, <2>3, <2>4 DEF Insert
<1>4. ASSUME Rehash PROVE UNCHANGED Abs!absVars
  <2>1. Declared' = Declared
    BY <1>4, SameDeclared DEF Rehash
  <2>2. (pc' = "disposed") = (pc = "disposed")
    BY <1>4 DEF Rehash
  <2> QED BY <1>4, <2>1, <2>2 DEF Rehash, Abs!absVars
<1>5. ASSUME Replace PROVE UNCHANGED Abs!absVars
  <2>1. Declared' = Declared
    BY <1>5, ReplaceDeclares
  <2>2. (pc' = "disposed") = (pc = "disposed")
    BY <1>5 DEF Replace
  <2> QED BY <1>5, <2>1, <2>2 DEF Replace, Abs!absVars
<1>6. ASSUME ResizeFails PROVE [Abs!Next]_(Abs!absVars)
  <2>1. Declared' = Declared
    BY <1>6, SameDeclared DEF ResizeFails
  <2>2. pc # "disposed" /\ (pc' = "disposed") = (pc = "disposed")
    BY <1>6 DEF ResizeFails
  <2>3. CASE error = "OK"
    BY <1>6, <2>1, <2>2, <2>3 DEF ResizeFails, Abs!ReportFailure, Abs!Next
  <2>4. CASE error # "OK"
    BY <1>6, <2>1, <2>2, <2>4 DEF ResizeFails, Abs!absVars
  <2> QED BY <2>3, <2>4
<1>7. ASSUME Dispose PROVE Abs!Next
  <2>1. items' = Empty(size') /\ pc = "idle" /\ pc' = "disposed"
    BY <1>7 DEF Dispose
  <2>2. Declared' = {}
    BY <2>1 DEF Declared, IsActive, Empty
  <2>3. pc # "disposed" /\ (pc' = "disposed") = TRUE
    BY <2>1
  <2> QED BY <1>7, <2>2, <2>3 DEF Dispose, Abs!Dispose, Abs!Next
<1>8. CASE UNCHANGED vars
  <2>1. Declared' = Declared
    BY <1>8, SameDeclared DEF vars
  <2> QED BY <1>8, <2>1 DEF vars, Abs!absVars
<1> QED BY <1>2, <1>3, <1>4, <1>5, <1>6, <1>7, <1>8 DEF Next

\* For the callers of symtable_insert and symtable_search that never delete, as
\* the compiler, the table is a dictionary: collisions, probing and resizing do
\* not show, and a name keeps the uid it was given.
THEOREM TableIsDictionary ==
  ASSUME Deletable = {}
  PROVE  Spec => ImplementsDictionary
<1>1. FoundInv /\ [Next]_vars => [Abs!Next]_(Abs!absVars)
  BY RefinesNext
<1> QED BY RefinesInit, FoundInit, FoundNext, <1>1, PTL DEF Spec, ImplementsDictionary, Abs!Spec
=============================================================================
