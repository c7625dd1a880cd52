---------------------------- MODULE Measurements ----------------------------
(***************************************************************************)
(* The measurement section of a catalog (openchoice-core/src/catalog.rs):  *)
(* what the packer's side promises of it (module Ingest) and the reader's  *)
(* side relies on (module CatalogSearch).                                  *)
(*                                                                         *)
(* A row is its key; the payload is whatever its position holds.  Keys are *)
(* packed into one integer, hardware above index, as the source packs them *)
(* into a u64.                                                             *)
(***************************************************************************)
EXTENDS Integers

CONSTANT Span   \* how many model indices there are: 2^32 in the source

ASSUME SpanAssumption == Span \in Nat \ {0}

Row == [hw : Nat, index : 0..(Span - 1)]

\* The u64 the source compares.
Key(row) == row.hw * Span + row.index

\* A section of `count` rows, in strictly increasing order: the packer sorts
\* by (hw_key, model_index) and has one row for each.
SectionType(table) ==
    /\ table.count \in Nat
    /\ table.rows \in [0..(table.count - 1) -> Row]
    /\ \A i, j \in 0..(table.count - 1) :
          i < j => Key(table.rows[i]) < Key(table.rows[j])
=============================================================================
