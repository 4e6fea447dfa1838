----------------------------- MODULE SymtableAbs -----------------------------
(***************************************************************************)
(* What symtable.h promises: a dictionary that holds at most one item per  *)
(* name, identified by the uid it got when it was created.                 *)
(***************************************************************************)
EXTENDS Naturals

CONSTANTS Names, Deletable, NULL

VARIABLES
  declared,   \* the items stored, as records [name, uid]
  uid,        \* the next uid
  error, found,  \* what the last call reported
  closed      \* the table was disposed of

absVars == <<declared, uid, error, found, closed>>

DeclaredNames == {d.name : d \in declared}

Init ==
  /\ declared = {} /\ uid = 0
  /\ error = "OK" /\ found = NULL
  /\ closed = FALSE

Insert(n) ==
  /\ ~closed
  /\ \/ /\ n \in DeclaredNames
        /\ error' = "ALREADY_STORED"
        /\ UNCHANGED <<declared, uid>>
     \/ /\ n \notin DeclaredNames
        /\ declared' = declared \union {[name |-> n, uid |-> uid]}
        /\ uid' = uid + 1
        /\ error' = "OK"
     \/ /\ n \notin DeclaredNames
        /\ error' = "INTERNAL"
        /\ UNCHANGED <<declared, uid>>
  /\ found' = NULL
  /\ UNCHANGED closed

\* An insertion that succeeded may still report that memory ran out.
ReportFailure ==
  /\ ~closed
  /\ error' = "INTERNAL"
  /\ UNCHANGED <<declared, uid, found, closed>>

Search(n) ==
  /\ ~closed
  /\ \/ \E d \in declared :
          d.name = n /\ found' = d.uid /\ error' = "OK"
     \/ /\ n \notin DeclaredNames
        /\ found' = NULL /\ error' = "NOT_FOUND"
  /\ UNCHANGED <<declared, uid, closed>>

Delete(n) ==
  /\ ~closed
  /\ \/ /\ n \in DeclaredNames
        /\ error' = "OK"
     \/ /\ n \notin DeclaredNames
        /\ error' = "NOT_FOUND"
  /\ declared' = {d \in declared : d.name # n}
  /\ found' = NULL
  /\ UNCHANGED <<uid, closed>>

Dispose ==
  /\ ~closed
  /\ closed' = TRUE
  /\ declared' = {}
  /\ UNCHANGED <<uid, error, found>>

Next ==
  \/ \E n \in Names : Insert(n) \/ Search(n)
  \/ \E n \in Deletable : Delete(n)
  \/ ReportFailure \/ Dispose

Spec == Init /\ [][Next]_absVars
=============================================================================
