------------------------------ MODULE Archive ------------------------------
(***************************************************************************)
(* What the flat-file archive promises its readers, whatever the jobs that *)
(* maintain it do: a partition that can be read stays readable, and the    *)
(* manifest names only partitions that can be read, and never forgets one. *)
(* FlatfileArchive is shown to implement this.                             *)
(***************************************************************************)
CONSTANT Keys            \* the (dataset, date) partitions

VARIABLES landed,        \* partitions a whole-partition read finds data in
          recorded       \* partitions _meta/flatfile_manifest.json lists

vars == <<landed, recorded>>

Init == /\ landed = {}
        /\ recorded = {}

\* The rows of k become readable. They never stop being so.
Land(k) == /\ landed' = landed \cup {k}
           /\ UNCHANGED recorded

\* The manifest gains an entry, only for rows that are readable already.
Record(k) == /\ k \in landed
             /\ recorded' = recorded \cup {k}
             /\ UNCHANGED landed

Next == \E k \in Keys : Land(k) \/ Record(k)

Spec == Init /\ [][Next]_vars
=============================================================================
