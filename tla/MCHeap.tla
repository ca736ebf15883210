------------------------------- MODULE MCHeap -------------------------------
(* Heap for TLC. *)
EXTENDS Heap, TLC, FiniteSetsExt

CONSTANT
    MaxHeld     \* bound on the number of places that hold a value

Size(S, t) == FoldSet(LAMBDA i, n : n + 1 + Cardinality(S[t][i]), 0, DOMAIN S[t])
Places(t) == Len(shadow[t]) + Cardinality(temps[t]) + Size(building, t)

\* Bound of the run: how many variables, registers, buffers, building and places
\* of objects hold a value at a time.  A behaviour is not followed beyond the
\* first loss.
FewPlaces ==
    /\ ~lost
    /\ FoldSet(LAMBDA t, n : n + Places(t), 0, Threads)
         + FoldSet(LAMBDA c, n : n + Cardinality(inflight[c]), 0, Chans)
         + FoldSet(LAMBDA o, n : n + Cardinality(refs[o]), 0, Obj)
         + FoldSet(LAMBDA k, n : n + Cardinality(frame[k]), 0, Tasks) <= MaxHeld

HeapSymmetry == Permutations(Obj) \cup Permutations(Threads)
=============================================================================
