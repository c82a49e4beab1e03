------------------------------ MODULE MCSpool ------------------------------
(* Spool for TLC: named clients and reload goroutines, interchangeable in the
   safety runs. *)
EXTENDS Spool, TLC

CONSTANTS
  c1, c2, poll, hup,
  Lasting      \* queues no edit removes

Symmetry == Permutations(Clients) \union Permutations(Loaders)

\* Overlapping reloads are explored without deaths or paused queues, and deaths with
\* at most one edit and reloads one after the other.
Bound ==
  /\ Lasting \subseteq file
  /\ bounds.crashes > 0 \/ stopping => bounds.edits <= 1 /\ ~overlap
  /\ overlap => \A q \in Queues : ~paused[q]

=============================================================================
