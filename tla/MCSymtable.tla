----------------------------- MODULE MCSymtable -----------------------------
(***************************************************************************)
(* Instances of Symtable.  The hash values are those that hash() and       *)
(* hash2() compute for these identifiers, reduced modulo a common multiple *)
(* of the moduli the sizes of the instance use, which changes no index.    *)
(***************************************************************************)
EXTENDS Symtable, TLC

\* The first two sizes of primes[], and eight variable names: seven of them
\* fill a table of 11 slots, the eighth makes it grow to 23.
Locals == {"sum", "str", "m", "x", "len", "min", "count", "y"}
LocalsH1 == "sum" :> 23 @@ "str" :> 209 @@ "m" :> 109 @@ "x" :> 120
         @@ "len" :> 28 @@ "min" :> 187 @@ "count" :> 122 @@ "y" :> 121
LocalsH2 == "sum" :> 32 @@ "str" :> 4 @@ "m" :> 32 @@ "x" :> 43
         @@ "len" :> 22 @@ "min" :> 33 @@ "count" :> 28 @@ "y" :> 44
RealPrimes == <<11, 23>>

\* The declarations come in two groups, each in any order: the tables of 11
\* slots still have many layouts, and each is filled to the resize.
EarlyNames == {"sum", "str", "m", "x"}
IsNew(n) == \E s \in 0..(size - 1) : items'[s] # items[s] /\ items'[s].name = n
EarlyFirst ==
  uid' # uid /\ uid < Cardinality(EarlyNames) => \E n \in EarlyNames : IsNew(n)
GroupedSpec == Init /\ [][Next /\ EarlyFirst]_vars /\ WF_vars(Rehash \/ Replace)

\* A table of sizes scaled down so that several resizes, the end of primes[],
\* deletions and failing allocations are all within reach.
Few == {"sum", "str", "m", "x", "len"}
FewH1 == "sum" :> 47 @@ "str" :> 78 @@ "m" :> 4 @@ "x" :> 15 @@ "len" :> 37
FewH2 == "sum" :> 10 @@ "str" :> 6 @@ "m" :> 10 @@ "x" :> 9 @@ "len" :> 8
SmallPrimes == <<3, 5, 7>>
=============================================================================
