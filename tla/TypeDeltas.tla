----------------------------- MODULE TypeDeltas -----------------------------
(***************************************************************************)
(* The block both Properties (kvp_list.go) and Message Parameters          *)
(* (parameters.go) are written as: entries in ascending order of type,     *)
(* each type the difference from the one before it.  An entry is a record  *)
(* [type, value]; on the wire it is [delta, value].                        *)
(***************************************************************************)
EXTENDS Integers, Sequences, FiniteSets

\* sort.SliceStable: entries of one type stay in the order they were given.
ComesBefore(pp, i, j) == pp[i].type < pp[j].type \/ (pp[i].type = pp[j].type /\ i < j)
Place(pp, i) == Cardinality({j \in DOMAIN pp : ComesBefore(pp, j, i)}) + 1
SortedByType(pp) ==
  [k \in DOMAIN pp |-> pp[CHOOSE i \in DOMAIN pp : Place(pp, i) = k]]

AsDeltas(pp) ==
  LET sorted == SortedByType(pp)
      before(i) == IF i = 1 THEN 0 ELSE sorted[i - 1].type
  IN [i \in DOMAIN pp |-> [delta |-> sorted[i].type - before(i), value |-> sorted[i].value]]

FromDeltas(block) ==
  LET type[i \in 0 .. Len(block)] == IF i = 0 THEN 0 ELSE type[i - 1] + block[i].delta
  IN [i \in DOMAIN block |-> [type |-> type[i], value |-> block[i].value]]
=============================================================================
