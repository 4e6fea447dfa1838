------------------------------ MODULE Symtable ------------------------------
(***************************************************************************)
(* The symbol table of the compiler (symtable.c): a hash table with open   *)
(* addressing.  A slot holds NULL or an item; a name is looked for along   *)
(* its probe path, starting at hash(name) and stepping by hash2(name); an  *)
(* insertion that pushes the load over 65% moves every active item into a  *)
(* larger array.                                                           *)
(*                                                                         *)
(* One client operation is one action, except that the copying loop of     *)
(* resize() is one action per old slot: control stays in the table (pc)    *)
(* until the loop is over.                                                 *)
(***************************************************************************)
EXTENDS Integers, Sequences, FiniteSets

CONSTANTS
  Names,          \* the identifiers the client uses
  Deletable,      \* those it also deletes; the compiler deletes none
  H1, H2,         \* the sdbm and djb2 value of each name, before the modulo
  Primes,         \* the table sizes, in order (const primes[] in resize)
  MaxUid,         \* bound: number of items ever created
  MaxAllocFailures, \* bound: number of failing malloc() calls
  NULL

ASSUME SymtableAssumption ==
  /\ Deletable \subseteq Names
  /\ H1 \in [Names -> Nat]
  /\ H2 \in [Names -> Nat]
  /\ Primes \in Seq(Nat) /\ Len(Primes) > 0
  /\ \A i \in 1..Len(Primes) : Primes[i] > 2
  /\ \A i, j \in 1..Len(Primes) : i < j => Primes[i] < Primes[j]
  /\ MaxUid \in Nat
  /\ MaxAllocFailures \in Nat

\* The sizes are prime, and each is at least 1.3 times the one before it.
ASSUME PrimesAssumption ==
  /\ \A i \in 1..Len(Primes) :
       \A a, b \in 1..(Primes[i] - 1) : (a * b) % Primes[i] # 0
  /\ \A i \in 1..(Len(Primes) - 1) : 13 * Primes[i] <= 10 * Primes[i + 1]

Item == [name : Names, active : BOOLEAN, uid : Nat]

ASSUME NullAssumption == NULL \notin Item /\ NULL \notin Nat

VARIABLES
  items,          \* symtab->items
  size, count, deactivated, \* the other fields of symtab_t
  uid,            \* static unique_id of item_init
  error,          \* *error after the last call
  found,          \* uid of the item the last search returned, or NULL
  lostItems, failedResizes, \* how many malloc() calls of item_init and of resize failed
  pc,             \* where control is
  newItems, newSize, slot \* locals of resize(): resized_items, new_size, i

failureVars == <<lostItems, failedResizes>>
resizeVars == <<newItems, newSize, slot>>
vars == <<items, size, count, deactivated, uid, error, found,
          failureVars, pc, resizeVars>>

MallocMayFail == lostItems + failedResizes < MaxAllocFailures

Errors == {"OK", "NOT_FOUND", "ALREADY_STORED", "INTERNAL"}

Table(sz) == [0..(sz - 1) -> Item \union {NULL}]
Empty(sz) == [s \in 0..(sz - 1) |-> NULL]

-----------------------------------------------------------------------------
(* Probing.                                                                *)

hash(n, sz)  == H1[n] % sz

\* Bug: the step of the second hash may be zero.
ZeroStep(n, sz) == H2[n] % (sz - 1)
hash2(n, sz) == (H2[n] % (sz - 1)) + 1

\* The index the probing loops look at in their k-th test (k = 0, 1, ...):
\* the k-th pass adds k * step, so the offsets are 0, 0, 1, 3, 6, ... steps.
\* For an odd sz they repeat after sz tests.
Probe(n, sz, k) == (hash(n, sz) + ((k * (k - 1)) \div 2) * hash2(n, sz)) % sz

\* The loop of get_hash leaves at the first free slot of the path ...
FreeAt(its, n, sz, k) ==
  /\ its[Probe(n, sz, k)] = NULL
  /\ \A j \in 0..(k - 1) : its[Probe(n, sz, j)] # NULL

\* Bug: the first index is used, occupied or not.
NoProbing(its, n, sz) == {hash(n, sz)}

\* ... and never leaves when the path has none.
get_hash(its, n, sz) == {Probe(n, sz, k) : k \in {i \in 0..(sz - 1) : FreeAt(its, n, sz, i)}}

\* The loop of symtable_search also leaves at an item with the wanted name.
Stops(its, n, sz, k) ==
  \/ its[Probe(n, sz, k)] = NULL
  \/ its[Probe(n, sz, k)].name = n

StopsAt(its, n, sz, k) ==
  /\ Stops(its, n, sz, k)
  /\ \A j \in 0..(k - 1) : ~Stops(its, n, sz, j)

\* The slot at which the search for n ends; empty when it never does.
EndOfSearch(its, n, sz) ==
  {Probe(n, sz, k) : k \in {i \in 0..(sz - 1) : StopsAt(its, n, sz, i)}}

IsActive(its, s) == its[s] # NULL /\ its[s].active

-----------------------------------------------------------------------------
\* symtable_init
Init ==
  /\ size = Primes[1] /\ count = 0 /\ deactivated = 0
  /\ items = Empty(size)
  /\ uid = 0
  /\ error = "OK" /\ found = NULL
  /\ lostItems = 0 /\ failedResizes = 0
  /\ pc = "idle"
  /\ newItems = Empty(size) /\ newSize = size /\ slot = 0

Diverge ==
  /\ pc' = "diverged"
  /\ UNCHANGED <<items, size, count, deactivated, uid, error, found,
                 failureVars, resizeVars>>

\* symtable_search, called for its result.
Search(n) ==
  /\ pc = "idle"
  /\ \/ /\ EndOfSearch(items, n, size) = {}
        /\ Diverge
     \/ \E s \in EndOfSearch(items, n, size) :
          /\ IF IsActive(items, s)
             THEN found' = items[s].uid /\ error' = "OK"
             ELSE found' = NULL /\ error' = "NOT_FOUND"
          /\ UNCHANGED <<items, size, count, deactivated, uid,
                         failureVars, pc, resizeVars>>

\* Bug: the number of items serves as the unique id.
CountAsUid(n) == [name |-> n, active |-> TRUE, uid |-> count]
item_init(n) == [name |-> n, active |-> TRUE, uid |-> uid]

\* 0.65 < (float)count / size
Overloaded(c, sz) == 65 * sz < 100 * c

\* The first prime above sz, in a singleton; empty when primes[] has none.
NextSizes(sz) ==
  {Primes[i] : i \in {k \in 1..Len(Primes) :
     sz < Primes[k] /\ \A j \in 1..(k - 1) : Primes[j] <= sz}}

\* check_load and the part of resize before its copying loop.  Beyond the
\* last prime the code reads past the array: anything may follow.
check_load(c) ==
  \/ /\ ~Overloaded(c, size)
     /\ pc' = "idle"
     /\ UNCHANGED resizeVars
  \/ /\ Overloaded(c, size)
     /\ NextSizes(size) = {}
     /\ pc' = "undefined"
     /\ UNCHANGED resizeVars
  \/ /\ Overloaded(c, size)
     /\ \E new_size \in NextSizes(size) :
          newSize' = new_size /\ newItems' = Empty(new_size)
     /\ pc' = "resize"
     /\ slot' = 0

\* symtable_insert of a name the search does not find.
InsertAbsent(n) ==
  \E s \in get_hash(items, n, size) :
    /\ \/ /\ uid < MaxUid
          /\ items' = [items EXCEPT ![s] = item_init(n)]
          /\ uid' = uid + 1
          /\ error' = "OK"
          /\ UNCHANGED lostItems
       \/ /\ MallocMayFail  \* item_init returns NULL, which is stored and counted
          /\ lostItems' = lostItems + 1
          /\ error' = "INTERNAL"
          /\ UNCHANGED <<items, uid>>
    /\ found' = NULL
    /\ count' = count + 1
    /\ check_load(count + 1)
    /\ UNCHANGED <<size, deactivated, failedResizes>>

Insert(n) ==
  /\ pc = "idle"
  /\ \/ /\ EndOfSearch(items, n, size) = {}
        /\ Diverge
     \/ \E s \in EndOfSearch(items, n, size) :
          \/ /\ IsActive(items, s)
             /\ error' = "ALREADY_STORED" /\ found' = NULL
             /\ UNCHANGED <<items, size, count, deactivated, uid,
                            failureVars, pc, resizeVars>>
          \/ /\ ~IsActive(items, s)
             /\ InsertAbsent(n)
          \/ /\ ~IsActive(items, s)
             /\ get_hash(items, n, size) = {}
             /\ Diverge

\* Bug: resize copies an item to the index it had, without rehashing it.
CopySlot ==
  /\ pc = "resize"
  /\ slot < size
  /\ newItems' = IF IsActive(items, slot)
                 THEN [newItems EXCEPT ![slot] = items[slot]] ELSE newItems
  /\ slot' = slot + 1
  /\ UNCHANGED <<items, size, count, deactivated, uid, error, found,
                 failureVars, newSize, pc>>

\* One pass of the copying loop of resize.
Rehash ==
  /\ pc = "resize"
  /\ slot < size
  /\ \/ /\ ~IsActive(items, slot)
        /\ slot' = slot + 1
        /\ UNCHANGED <<newItems, pc>>
     \/ /\ IsActive(items, slot)
        /\ \E s \in get_hash(newItems, items[slot].name, newSize) :
             newItems' = [newItems EXCEPT ![s] = items[slot]]
        /\ slot' = slot + 1
        /\ UNCHANGED pc
     \/ /\ IsActive(items, slot)
        /\ get_hash(newItems, items[slot].name, newSize) = {}
        /\ pc' = "diverged"
        /\ UNCHANGED <<newItems, slot>>
  /\ UNCHANGED <<items, size, count, deactivated, uid, error, found,
                 failureVars, newSize>>

\* Bug: resize forgets to store the new size.
KeepSize ==
  /\ pc = "resize" /\ slot = size
  /\ items' = newItems
  /\ count' = count - deactivated
  /\ deactivated' = 0
  /\ pc' = "idle"
  /\ UNCHANGED <<size, uid, error, found, failureVars, resizeVars>>

\* Bug: the items that resize drops stay in the count.
KeepCount ==
  /\ pc = "resize" /\ slot = size
  /\ items' = newItems
  /\ size' = newSize
  /\ deactivated' = 0
  /\ pc' = "idle"
  /\ UNCHANGED <<count, uid, error, found, failureVars, resizeVars>>

\* The end of resize: the new array replaces the old one.
Replace ==
  /\ pc = "resize"
  /\ slot = size
  /\ items' = newItems
  /\ size' = newSize
  /\ count' = count - deactivated
  /\ deactivated' = 0
  /\ pc' = "idle"
  /\ slot' = 0
  /\ UNCHANGED <<uid, error, found, failureVars, newItems, newSize>>

\* malloc of the new array fails: the insertion stands, the table keeps its
\* size, and report_error records the first error only.
ResizeFails ==
  /\ pc = "resize"
  /\ slot = 0
  /\ MallocMayFail
  /\ failedResizes' = failedResizes + 1
  /\ error' = IF error = "OK" THEN "INTERNAL" ELSE error
  /\ pc' = "idle"
  /\ UNCHANGED <<items, size, count, deactivated, uid, found, lostItems, resizeVars>>

\* symtable_delete: the item stays in its slot, inactive.
Delete(n) ==
  /\ pc = "idle"
  /\ \/ /\ EndOfSearch(items, n, size) = {}
        /\ Diverge
     \/ \E s \in EndOfSearch(items, n, size) :
          \/ /\ IsActive(items, s)
             /\ items' = [items EXCEPT ![s].active = FALSE]
             /\ deactivated' = deactivated + 1
             /\ error' = "OK" /\ found' = NULL
             /\ UNCHANGED <<size, count, uid, failureVars, pc, resizeVars>>
          \/ /\ ~IsActive(items, s)
             /\ error' = "NOT_FOUND" /\ found' = NULL
             /\ UNCHANGED <<items, size, count, deactivated, uid,
                            failureVars, pc, resizeVars>>

\* symtable_dispose
Dispose ==
  /\ pc = "idle"
  /\ items' = Empty(size)
  /\ pc' = "disposed"
  /\ UNCHANGED <<size, count, deactivated, uid, error, found,
                 failureVars, resizeVars>>

Next ==
  \/ \E n \in Names : Search(n) \/ Insert(n)
  \/ \E n \in Deletable : Delete(n)
  \/ Rehash \/ Replace \/ ResizeFails
  \/ Dispose

Spec == Init /\ [][Next]_vars

\* The copying loop is never abandoned; clients may stop calling.
FairSpec == Spec /\ WF_vars(Rehash \/ Replace)

-----------------------------------------------------------------------------
(* Properties.                                                             *)

\* The variables hold what their C declarations allow, and control is at one
\* of the places the code can be in (symtab_t, symtab_item_t).
TypeOK ==
  /\ size \in Nat /\ size > 2
  /\ items \in Table(size)
  /\ count \in Int /\ deactivated \in Int
  /\ uid \in 0..MaxUid
  /\ error \in Errors
  /\ found \in Nat \union {NULL}
  /\ lostItems \in Nat /\ failedResizes \in Nat
  /\ lostItems + failedResizes <= MaxAllocFailures
  /\ pc \in {"idle", "resize", "diverged", "undefined", "disposed"}
  /\ newSize \in Nat /\ newSize > 2
  /\ newItems \in Table(newSize)
  /\ slot \in 0..size

\* Every item of a table is where symtable_search of its name ends.
AllFound(its, sz, names) ==
  \A s \in 0..(sz - 1) :
    its[s] # NULL /\ its[s].name \in names
      => s \in EndOfSearch(its, its[s].name, sz)

\* A name that is never deleted can be found as long as the table lives: no
\* insertion of another name, collision or resize hides the slot in which
\* symtable_insert or resize put it, and it is never stored twice.
Findable == AllFound(items, size, Names \ Deletable)

\* The array resize() is filling already has that property.
NewFindable == pc = "resize" => AllFound(newItems, newSize, Names \ Deletable)

\* Only names that are deleted have inactive items, in either array.
InactiveDeletable ==
  \A s \in 0..(size - 1) :
    items[s] # NULL /\ ~items[s].active => items[s].name \in Deletable

\* During resize() the new array holds the active items of the old slots
\* that were visited, and only them.
Copied ==
  pc = "resize" =>
    /\ \A t \in 0..(newSize - 1) :
         newItems[t] # NULL =>
           \E s \in 0..(slot - 1) : IsActive(items, s) /\ newItems[t] = items[s]
    /\ \A s \in 0..(slot - 1) :
         IsActive(items, s) => \E t \in 0..(newSize - 1) : newItems[t] = items[s]

\* The inductive invariant behind Findable.
FoundInv == TypeOK /\ Findable /\ NewFindable /\ InactiveDeletable /\ Copied

\* Two items never share a uid (item_init's static counter): the code
\* generator names variables by it.
UidsDistinct ==
  \A s, t \in 0..(size - 1) :
    items[s] # NULL /\ items[t] # NULL /\ s # t => items[s].uid # items[t].uid

\* No item has the uid that item_init gives next.
UidsUsed == \A s \in 0..(size - 1) : items[s] # NULL => items[s].uid < uid

\* resize() copies no item twice.
NewUidsDistinct ==
  pc = "resize" =>
    \A s, t \in 0..(newSize - 1) :
      newItems[s] # NULL /\ newItems[t] # NULL /\ s # t => newItems[s].uid # newItems[t].uid

\* The inductive invariant behind UidsDistinct.
UidInv == FoundInv /\ UidsDistinct /\ UidsUsed /\ NewUidsDistinct

Occupied(its, sz) == {s \in 0..(sz - 1) : its[s] # NULL}
Inactive(its, sz) == {s \in Occupied(its, sz) : ~its[s].active}

\* Between calls the counters that check_load and resize work with are those of
\* the slots, but for an item that item_init could not allocate: it is counted for
\* good, through every later resize.  At most 65% of the slots are taken, and one
\* slot more for each resize that failed, which the next insertion tries again.
CountAccurate ==
  pc = "idle" =>
    /\ count = Cardinality(Occupied(items, size)) + lostItems
    /\ deactivated = Cardinality(Inactive(items, size))
    /\ 100 * (count - failedResizes) <= 65 * size

\* The table has one of the sizes of primes[], and resize() takes the next.
SizesListed ==
  \E i \in 1..Len(Primes) :
    /\ size = Primes[i]
    /\ pc = "resize" => i < Len(Primes) /\ newSize = Primes[i + 1]

\* resize() has copied one item for each active item of the slots it visited.
CopiedOnce ==
  pc = "resize" =>
    Cardinality(Occupied(newItems, newSize)) = Cardinality({s \in 0..(slot - 1) : IsActive(items, s)})

\* During resize() the counters are those of the old array, which one item more
\* than 65% of its slots made too full.
CountWhileResizing ==
  pc = "resize" =>
    /\ count = Cardinality(Occupied(items, size)) + lostItems
    /\ deactivated = Cardinality(Inactive(items, size))
    /\ 100 * (count - 1 - failedResizes) <= 65 * size

\* The inductive invariant behind CountAccurate.
CountInv == FoundInv /\ SizesListed /\ CopiedOnce /\ CountAccurate /\ CountWhileResizing

\* A probing loop can only run forever in a table that is at least half full:
\* with fewer items than the (size + 1) / 2 slots of a probe path, get_hash
\* and symtable_search end.
DivergesOnlyHalfFull ==
  [][pc' = "diverged" /\ pc # "diverged"
       => pc = "idle" /\ 2 * Cardinality(Occupied(items, size)) > size]_vars

\* Every resize() ends: the copying loop never meets a full probe path in the
\* larger array, so control comes back to symtable_insert's caller.
ResizeEnds == pc = "resize" ~> pc = "idle"

\* get_hash: "gets hash of 1st null slot" (symtable.c:76).  Violated: the
\* offsets of the probe path cover only half of the slots, so get_hash and
\* symtable_search may run forever in a table that has free slots.
ProbingEnds == pc # "diverged"

-----------------------------------------------------------------------------
\* What the table promises its clients: see SymtableAbs.
Declared ==
  {[name |-> items[s].name, uid |-> items[s].uid] :
     s \in {t \in 0..(size - 1) : IsActive(items, t)}}

Abs == INSTANCE SymtableAbs WITH declared <- Declared, closed <- (pc = "disposed")

\* The table implements a dictionary from names to items: collisions, probing
\* and resizing are invisible to the callers of symtable_insert and
\* symtable_search.
ImplementsDictionary == Abs!Spec
=============================================================================
