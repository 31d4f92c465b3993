--------------------------- MODULE MCFlowAutosave ---------------------------
(***************************************************************************)
(* Two tabs on a Flow of one node, to which a second may be added with an  *)
(* edge.                                                                   *)
(***************************************************************************)
EXTENDS FlowAutosave, TLC

CONSTANTS a, b, n1, n2, e1, v, raw

MCEnds == (e1 :> {n1, n2})

\* The server rewrites the data "raw" as v.
MCCanon == (v :> v) @@ (raw :> v)

MCFirst == [nodes |-> (n1 :> v), edges |-> {}]

\* As at first, the node changed in place, the node removed, a node and its
\* edge added.
MCDrafts ==
  {MCFirst,
   [nodes |-> (n1 :> raw), edges |-> {}],
   [nodes |-> [n \in {} |-> v], edges |-> {}],
   [nodes |-> (n1 :> v) @@ (n2 :> v), edges |-> {e1}]}

MCEdits == (a :> 1) @@ (b :> 1)

MCBreaks == (a :> 1) @@ (b :> 0)

=============================================================================
