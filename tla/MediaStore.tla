------------------------------ MODULE MediaStore ------------------------------
(***************************************************************************)
(* What src/modules/media promises of a row of the media table and of the  *)
(* object that it names in the object store: the object is there before    *)
(* the row, goes before the row, and neither comes back.                   *)
(***************************************************************************)
CONSTANT Media \* media ids, each with the storage key that is made for it

VARIABLES object, \* object[m]: whether the store has it yet, has it, or had it
          row     \* row[m]: whether the table has it yet, shows it, or showed it

vars == <<object, row>>

Init ==
  /\ object = [m \in Media |-> "none"]
  /\ row = [m \in Media |-> "none"]

Store(m) ==
  /\ object[m] = "none"
  /\ object' = [object EXCEPT ![m] = "stored"]
  /\ UNCHANGED row

Register(m) ==
  /\ object[m] = "stored" /\ row[m] = "none"
  /\ row' = [row EXCEPT ![m] = "live"]
  /\ UNCHANGED object

\* By a deletion, by the cleanup job, or by an upload that takes it back.
Erase(m) ==
  /\ object[m] = "stored"
  /\ object' = [object EXCEPT ![m] = "gone"]
  /\ UNCHANGED row

\* The rows of one transaction.
Retire(S) ==
  /\ \A m \in S : row[m] # "none" /\ object[m] = "gone"
  /\ row' = [m \in Media |-> IF m \in S THEN "deleted" ELSE row[m]]
  /\ UNCHANGED object

Next ==
  \/ \E m \in Media : Store(m) \/ Register(m) \/ Erase(m)
  \/ \E S \in SUBSET Media : Retire(S)

Spec == Init /\ [][Next]_vars
=============================================================================
