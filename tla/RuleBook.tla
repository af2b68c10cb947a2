------------------------------ MODULE RuleBook ------------------------------
(***************************************************************************)
(* What the FLock driver's rule storage promises to whoever manages the    *)
(* rules: the file is replaced as a whole, by the rules in memory; memory  *)
(* is replaced as a whole only while the driver boots, by the rules of the *)
(* file or, without memory for them, by none; and a request takes out at   *)
(* most one rule and brings in at most one, or takes out all of them.      *)
(***************************************************************************)
CONSTANT Rule

VARIABLES
    memory,     \* the rules the filters obey
    file,       \* the rules the next boot will find
    booting     \* the storage's loader has not ended

book == <<memory, file, booting>>

BookInit ==
    /\ memory = {}
    /\ file \subseteq Rule
    /\ booting = TRUE

ChangeOne ==
    /\ \E gone, new \in Rule :
          /\ memory \ {gone} \subseteq memory'
          /\ memory' \subseteq memory \cup {new}
    /\ UNCHANGED <<file, booting>>

Clear ==
    /\ memory' = {}
    /\ UNCHANGED <<file, booting>>

Save ==
    /\ file' = memory
    /\ UNCHANGED <<memory, booting>>

Reload ==
    /\ booting
    /\ memory' \in {file, {}}
    /\ UNCHANGED <<file, booting>>

Booted ==
    /\ booting' = FALSE
    /\ UNCHANGED <<memory, file>>

BookNext == ChangeOne \/ Clear \/ Save \/ Reload \/ Booted

BookSpec == BookInit /\ [][BookNext]_book
=============================================================================
