--------------------------- MODULE WriteOnceStore ---------------------------
(***************************************************************************)
(* What the harvester promises about the directory its capture bundles     *)
(* live in, and nothing about how it keeps the promise: a path holds       *)
(* nothing until one step gives it a whole bundle, and from then on the    *)
(* path never changes.  tools/fingerprint-harvester/README.md calls it     *)
(* "created atomically and never overwritten".                             *)
(***************************************************************************)
CONSTANTS
    Paths,       \* the places a bundle can be written to
    Bundles,     \* the whole bundles
    NoBundle     \* what a path holds before a bundle is written to it

VARIABLE store

Init == store = [path \in Paths |-> NoBundle]

\* One bundle appears, whole, at a path that held none.
Create(path) ==
    /\ store[path] = NoBundle
    /\ store'[path] \in Bundles
    /\ store' = [store EXCEPT ![path] = store'[path]]

Next == \E path \in Paths : Create(path)

Spec == Init /\ [][Next]_store
=============================================================================
