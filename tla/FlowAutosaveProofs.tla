------------------------- MODULE FlowAutosaveProofs -------------------------
(***************************************************************************)
(* A tab that says its graph is saved, and knows the current revision,     *)
(* shows the graph of the server, for any number of tabs and any graphs.   *)
(*                                                                         *)
(* The invariant speaks of what a tab knows (Sound): the baseline is the   *)
(* graph of its revision as long as that is the current one, a committed   *)
(* batch replayed over the baseline gives the graph it was committed to,   *)
(* and what was read under the current revision is current, because the    *)
(* revision is read first.                                                 *)
(*                                                                         *)
(* A save deletes only nodes its user has changed: what a tab has lost of  *)
(* its baseline its user has deleted (Own), and so has what it is deleting.*)
(***************************************************************************)
EXTENDS FlowAutosave, TLAPS

Batch == [delEdges : SUBSET Edges, delNodes : SUBSET Nodes,
          upNodes : NodeMaps, upEdges : SUBSET Edges]

\* No node is both deleted and written.
Apart(d) == d.delNodes \cap DOMAIN d.upNodes = {}

-----------------------------------------------------------------------------
(* Graphs and diffs *)

LEMMA NodeMapForm ==
  ASSUME NEW f
  PROVE  f \in NodeMaps <=>
           /\ f = [n \in DOMAIN f |-> f[n]]
           /\ DOMAIN f \subseteq Nodes
           /\ \A n \in DOMAIN f : f[n] \in Values
<1>1. ASSUME f \in NodeMaps
      PROVE  /\ f = [n \in DOMAIN f |-> f[n]]
             /\ DOMAIN f \subseteq Nodes
             /\ \A n \in DOMAIN f : f[n] \in Values
  <2>1. PICK N \in SUBSET Nodes : f \in [N -> Values]
    BY <1>1 DEF NodeMaps
  <2> QED BY <2>1
<1>2. ASSUME f = [n \in DOMAIN f |-> f[n]],
             DOMAIN f \subseteq Nodes,
             \A n \in DOMAIN f : f[n] \in Values
      PROVE  f \in NodeMaps
  <2>1. f \in [DOMAIN f -> Values]
    BY <1>2
  <2> QED BY <2>1, <1>2 DEF NodeMaps
<1> QED BY <1>1, <1>2

LEMMA PatchedType ==
  ASSUME NEW f \in NodeMaps, NEW d \in Batch
  PROVE  /\ Patched(f, d) \in NodeMaps
         /\ DOMAIN Patched(f, d) = (DOMAIN f \ d.delNodes) \cup DOMAIN d.upNodes
         /\ \A n \in DOMAIN Patched(f, d) :
              Patched(f, d)[n] = IF n \in DOMAIN d.upNodes THEN d.upNodes[n] ELSE f[n]
<1> DEFINE p == Patched(f, d)
<1>1. /\ p = [n \in DOMAIN p |-> p[n]]
      /\ DOMAIN p = (DOMAIN f \ d.delNodes) \cup DOMAIN d.upNodes
      /\ \A n \in DOMAIN p : p[n] = IF n \in DOMAIN d.upNodes THEN d.upNodes[n] ELSE f[n]
  BY DEF Patched
<1>2. /\ DOMAIN f \subseteq Nodes
      /\ \A n \in DOMAIN f : f[n] \in Values
  BY NodeMapForm
<1>3. d.upNodes \in NodeMaps
  BY DEF Batch
<1>4. /\ DOMAIN d.upNodes \subseteq Nodes
      /\ \A n \in DOMAIN d.upNodes : d.upNodes[n] \in Values
  BY <1>3, NodeMapForm
<1>5. DOMAIN p \subseteq Nodes /\ \A n \in DOMAIN p : p[n] \in Values
  BY <1>1, <1>2, <1>4
<1>6. p \in NodeMaps
  <2> HIDE DEF p
  <2> QED BY <1>1, <1>5, NodeMapForm
<1> QED BY <1>1, <1>6

LEMMA ReplayType ==
  ASSUME NEW g \in Graphs, NEW d \in Batch
  PROVE  Replay(g, d) \in Graphs
<1>1. Patched(g.nodes, d) \in NodeMaps
  BY PatchedType DEF Graphs
<1>2. (g.edges \ d.delEdges) \cup d.upEdges \subseteq Edges
  BY DEF Graphs, Batch
<1> QED BY <1>1, <1>2 DEF Replay, Graphs

LEMMA DiffType ==
  ASSUME NEW a \in Graphs, NEW b \in Graphs, NEW R
  PROVE  Diff(a, b, R) \in Batch /\ Apart(Diff(a, b, R))
<1> DEFINE up == [n \in {k \in DOMAIN b.nodes : Differs(a, b, R, k)} |-> b.nodes[n]]
<1>1. /\ a.nodes \in NodeMaps /\ b.nodes \in NodeMaps
      /\ a.edges \subseteq Edges /\ b.edges \subseteq Edges
  BY DEF Graphs
<1>2. DOMAIN a.nodes \subseteq Nodes /\ DOMAIN b.nodes \subseteq Nodes
  BY <1>1, NodeMapForm
<1>3. \A n \in DOMAIN b.nodes : b.nodes[n] \in Values
  BY <1>1, NodeMapForm
<1>4. /\ up = [n \in DOMAIN up |-> up[n]]
      /\ DOMAIN up \subseteq DOMAIN b.nodes
      /\ \A n \in DOMAIN up : up[n] = b.nodes[n]
  OBVIOUS
<1>5. up \in NodeMaps
  <2> HIDE DEF up
  <2> QED BY <1>2, <1>3, <1>4, NodeMapForm
<1>6. Diff(a, b, R) = [delEdges |-> a.edges \ b.edges,
                       delNodes |-> DOMAIN a.nodes \ DOMAIN b.nodes,
                       upNodes |-> up, upEdges |-> b.edges \ a.edges]
  BY DEF Diff
<1> HIDE DEF up
<1> QED BY <1>1, <1>2, <1>4, <1>5, <1>6 DEF Batch, Apart

\* Graphs between which nothing is to be saved are equal.
LEMMA NoMutation ==
  ASSUME NEW a \in Graphs, NEW b \in Graphs, NEW R, ~Mutates(Diff(a, b, R))
  PROVE  a = b
<1>1. /\ a.nodes \in NodeMaps /\ b.nodes \in NodeMaps
      /\ a = [nodes |-> a.nodes, edges |-> a.edges]
      /\ b = [nodes |-> b.nodes, edges |-> b.edges]
  BY DEF Graphs
<1>2. /\ a.edges \ b.edges = {} /\ b.edges \ a.edges = {}
      /\ DOMAIN a.nodes \ DOMAIN b.nodes = {}
      /\ {k \in DOMAIN b.nodes : Differs(a, b, R, k)} = {}
  BY DEF Mutates, Diff
<1>3. a.edges = b.edges
  BY <1>2
<1>4. DOMAIN a.nodes = DOMAIN b.nodes /\ \A k \in DOMAIN b.nodes : a.nodes[k] = b.nodes[k]
  BY <1>2 DEF Differs
<1>5. /\ a.nodes = [n \in DOMAIN a.nodes |-> a.nodes[n]]
      /\ b.nodes = [n \in DOMAIN b.nodes |-> b.nodes[n]]
  BY <1>1, NodeMapForm
<1>6. a.nodes = b.nodes
  BY <1>4, <1>5
<1> QED BY <1>1, <1>3, <1>6

LEMMA NothingType == Nothing \in Batch /\ Apart(Nothing)
<1>1. NoNodes = [n \in DOMAIN NoNodes |-> NoNodes[n]] /\ DOMAIN NoNodes = {}
  BY DEF NoNodes
<1>2. NoNodes \in NodeMaps
  BY <1>1, NodeMapForm
<1> QED BY <1>1, <1>2 DEF Nothing, Batch, Apart

LEMMA BatchesType ==
  ASSUME NEW d \in Batch, Apart(d), NEW x \in Batches(d)
  PROVE  x \in Batch /\ Apart(x)
<1>1. CASE x = d
  BY <1>1
<1>2. ASSUME NEW S \in Slices(d.delEdges), x = [Nothing EXCEPT !.delEdges = S]
      PROVE  x \in Batch /\ Apart(x)
  BY <1>2, NothingType DEF Slices, Batch, Apart
<1>3. ASSUME NEW S \in Slices(d.delNodes), x = [Nothing EXCEPT !.delNodes = S]
      PROVE  x \in Batch /\ Apart(x)
  <2>1. DOMAIN x.upNodes = {}
    BY <1>3 DEF Nothing, NoNodes
  <2> QED BY <1>3, <2>1, NothingType DEF Slices, Batch, Apart
<1>4. ASSUME NEW S \in Slices(DOMAIN d.upNodes),
             x = [Nothing EXCEPT !.upNodes = [n \in S |-> d.upNodes[n]]]
      PROVE  x \in Batch /\ Apart(x)
  <2> DEFINE u == [n \in S |-> d.upNodes[n]]
  <2>1. d.upNodes \in NodeMaps /\ S \subseteq DOMAIN d.upNodes
    BY DEF Batch, Slices
  <2>2. u = [n \in DOMAIN u |-> u[n]] /\ DOMAIN u = S /\ \A n \in S : u[n] = d.upNodes[n]
    OBVIOUS
  <2>3. u \in NodeMaps
    <3>1. DOMAIN d.upNodes \subseteq Nodes /\ \A n \in DOMAIN d.upNodes : d.upNodes[n] \in Values
      BY <2>1, NodeMapForm
    <3> HIDE DEF u
    <3> QED BY <2>1, <2>2, <3>1, NodeMapForm
  <2>4. x.delNodes = {}
    BY <1>4 DEF Nothing
  <2> HIDE DEF u
  <2>5. x = [Nothing EXCEPT !.upNodes = u]
    BY <1>4 DEF u
  <2> QED BY <2>3, <2>4, <2>5, NothingType DEF Batch, Apart
<1>5. ASSUME NEW S \in Slices(d.upEdges), x = [Nothing EXCEPT !.upEdges = S]
      PROVE  x \in Batch /\ Apart(x)
  BY <1>5, NothingType DEF Slices, Batch, Apart
<1> QED BY <1>1, <1>2, <1>3, <1>4, <1>5 DEF Batches
-----------------------------------------------------------------------------
(* What a tab knows *)

\* g is the graph of the server, as the server writes it.
Agrees(g, s) == CanonNodes(g.nodes) = s.graph.nodes /\ g.edges = s.graph.edges

Row == [rev : Nat, graph : Graphs]

Proper(s) == s \in Row /\ WellFormed(s.graph) /\ CanonNodes(s.graph.nodes) = s.graph.nodes

\* The baseline is the graph of its revision, as long as that is current.
Known(e, s) ==
  e.mode # "loading" => e.rev <= s.rev /\ (e.rev = s.rev => Agrees(e.base, s))

\* Only a dirty tab has anything to save, or means to.
Clean(e) == /\ ~e.dirty => e.local = e.base
            /\ e.timer => e.mode # "loading" /\ e.dirty

\* What a request was made from is still the baseline.
Pending(e) ==
  e.task \in {"sent", "answered"} =>
    e.mode # "loading" /\ e.dirty /\ e.req.base = e.rev /\ e.req \in Requests /\ Apart(e.req.batch)

\* A committed batch, replayed over the baseline, gives the graph committed.
Landed(e, s) ==
  e.task = "answered" /\ e.reply = "saved" =>
    e.rev < s.rev /\ (s.rev = e.rev + 1 => Agrees(Replay(e.base, e.req.batch), s))

\* What was read under the current revision is current.
Fetched(e, s) ==
  /\ e.read.rev # None => e.read.rev \in Nat /\ e.read.rev <= s.rev
  /\ e.read.nodes # None => e.read.rev # None /\ (e.read.rev = s.rev => e.read.nodes = s.graph.nodes)
  /\ e.read.edges # None => e.read.rev # None /\ (e.read.rev = s.rev => e.read.edges = s.graph.edges)

Sound(e, s) ==
  /\ e \in TabTypes
  /\ Known(e, s) /\ Clean(e) /\ Pending(e) /\ Landed(e, s) /\ Fetched(e, s)

AutosaveInv ==
  /\ Proper(server)
  /\ tab \in [Tabs -> TabTypes]
  /\ \A t \in Tabs : Sound(tab[t], server)
  /\ orphan \in [Tabs -> Requests \cup {None}]

\* A save that returns changes only its task and its status.
LEMMA ReturnedType ==
  ASSUME NEW e \in TabTypes, NEW st \in {"saved", "error"}
  PROVE  LET r == Returned(e, st)
         IN  /\ r \in TabTypes
             /\ r.mode = e.mode /\ r.local = e.local /\ r.base = e.base /\ r.rev = e.rev
             /\ r.dirty = e.dirty /\ r.timer = e.timer /\ r.task = "idle" /\ r.read = NoRead
<1>1. MaxReplays \in Nat
  BY AutosaveAssumption
<1>2. NoRead \in [rev : Nat \cup {None}, nodes : NodeMaps \cup {None},
                  edges : (SUBSET Edges) \cup {None}]
  BY DEF NoRead
<1>3. 0 \in 0 .. MaxReplays
  BY <1>1
<1> DEFINE r == [e EXCEPT !.task = "idle", !.status = st, !.req = None,
                          !.reply = None, !.conflicts = 0, !.read = NoRead]
<1>4. r = Returned(e, st)
  BY DEF Returned
<1>5. r.mode = e.mode /\ r.local = e.local /\ r.base = e.base /\ r.rev = e.rev
      /\ r.dirty = e.dirty /\ r.timer = e.timer /\ r.task = "idle" /\ r.read = NoRead
  BY DEF TabTypes
<1>6. r \in TabTypes
  BY <1>2, <1>3 DEF TabTypes
<1> HIDE DEF r
<1> QED BY <1>4, <1>5, <1>6

\* Between two awaits: the baseline stays, and the loop ends only when there
\* is nothing left to save.
LEMMA LoopFacts ==
  ASSUME NEW e \in TabTypes, NEW f \in Loop(e)
  PROVE  /\ f \in TabTypes
         /\ f.mode = e.mode /\ f.base = e.base /\ f.rev = e.rev /\ f.local = e.local
         /\ f.read = NoRead
         /\ \/ f.task = "idle" /\ f.local = f.base /\ ~f.timer
            \/ /\ f.task = "sent" /\ f.dirty = e.dirty
               /\ f.req \in Requests /\ f.req.base = e.rev /\ Apart(f.req.batch)
<1> DEFINE d == Diff(e.base, e.local, e.received)
<1>1. e.base \in Graphs /\ e.local \in Graphs /\ e.rev \in Nat
  BY DEF TabTypes
<1>2. CASE ~Mutates(d)
  <2>1. f = [Returned(e, "saved") EXCEPT !.dirty = FALSE, !.timer = FALSE]
    BY <1>2 DEF Loop
  <2>2. e.local = e.base
    BY <1>1, <1>2, NoMutation
  <2> DEFINE r == Returned(e, "saved")
  <2>3. /\ r \in TabTypes
        /\ r.mode = e.mode /\ r.local = e.local /\ r.base = e.base /\ r.rev = e.rev
        /\ r.dirty = e.dirty /\ r.timer = e.timer /\ r.task = "idle" /\ r.read = NoRead
    BY ReturnedType
  <2> HIDE DEF r
  <2>4. f = [r EXCEPT !.dirty = FALSE, !.timer = FALSE]
    BY <2>1 DEF r
  <2> QED BY <2>2, <2>3, <2>4 DEF TabTypes
<1>3. CASE Mutates(d)
  <2>1. PICK x \in Batches(d) :
          f = [e EXCEPT !.task = "sent", !.status = "saving", !.reply = None, !.read = NoRead,
                        !.req = [base |-> e.rev, batch |-> x]]
    BY <1>3 DEF Loop
  <2>2. x \in Batch /\ Apart(x)
    BY <1>1, DiffType, BatchesType
  <2>3. [base |-> e.rev, batch |-> x] \in Requests
    BY <1>1, <2>2 DEF Requests, Batch
  <2> HIDE DEF d
  <2> QED BY <2>1, <2>2, <2>3 DEF TabTypes, NoRead
<1> QED BY <1>2, <1>3

LEMMA LoopSound ==
  ASSUME NEW e \in TabTypes, NEW s \in Row, Known(e, s), e.mode # "loading", e.dirty,
         NEW f \in Loop(e)
  PROVE  Sound(f, s)
<1>1. /\ f \in TabTypes
      /\ f.mode = e.mode /\ f.base = e.base /\ f.rev = e.rev /\ f.local = e.local
      /\ f.read = NoRead
      /\ \/ f.task = "idle" /\ f.local = f.base /\ ~f.timer
         \/ /\ f.task = "sent" /\ f.dirty = e.dirty
            /\ f.req \in Requests /\ f.req.base = e.rev /\ Apart(f.req.batch)
  BY LoopFacts
<1>2. Known(f, s)
  BY <1>1 DEF Known
<1>3. Clean(f) /\ Pending(f) /\ Landed(f, s)
  BY <1>1 DEF Clean, Pending, Landed
<1>4. Fetched(f, s)
  BY <1>1 DEF Fetched, NoRead
<1> QED BY <1>1, <1>2, <1>3, <1>4 DEF Sound

\* A commit of another request leaves what a tab knows true of the older
\* revision.
LEMMA MovedOn ==
  ASSUME NEW e, NEW s \in Row, NEW z \in Row, Sound(e, s), z.rev = s.rev + 1
  PROVE  Sound(e, z)
<1>1. e \in TabTypes /\ s.rev \in Nat /\ (e.rev \in Nat)
  BY DEF Sound, Row, TabTypes
<1>2. Known(e, z)
  BY <1>1 DEF Sound, Known
<1>3. Landed(e, z)
  BY <1>1 DEF Sound, Landed
<1>4. Fetched(e, z)
  BY <1>1 DEF Sound, Fetched
<1> QED BY <1>1, <1>2, <1>3, <1>4 DEF Sound

\* The server applies a valid batch exactly as a tab replays it.
LEMMA AppliedIsReplayed ==
  ASSUME NEW s, Proper(s), NEW d \in Batch, Valid(s.graph, d)
  PROVE  LET z == [rev |-> s.rev + 1, graph |-> Applied(s.graph, d)]
         IN  /\ Proper(z)
             /\ \A g \in Graphs : Apart(d) /\ Agrees(g, s) => Agrees(Replay(g, d), z)
<1> DEFINE old == s.graph.nodes
           p == Patched(old, d)
           new == [n \in DOMAIN p |-> IF n \in DOMAIN d.upNodes THEN Canon[p[n]] ELSE p[n]]
           kept == {x \in s.graph.edges \ d.delEdges : Ends[x] \cap d.delNodes = {}}
           z == [rev |-> s.rev + 1, graph |-> [nodes |-> new, edges |-> kept \cup d.upEdges]]
<1>1. /\ s.rev \in Nat /\ old \in NodeMaps /\ s.graph.edges \subseteq Edges
      /\ d.upNodes \in NodeMaps /\ d.delNodes \subseteq Nodes
      /\ d.upEdges \subseteq Edges
  BY DEF Proper, Row, Graphs, Batch
<1>2. z = [rev |-> s.rev + 1, graph |-> Applied(s.graph, d)]
  BY DEF Applied
<1>3. /\ p \in NodeMaps
      /\ DOMAIN p = (DOMAIN old \ d.delNodes) \cup DOMAIN d.upNodes
      /\ \A n \in DOMAIN p : p[n] = IF n \in DOMAIN d.upNodes THEN d.upNodes[n] ELSE old[n]
  BY <1>1, PatchedType
<1>4. /\ DOMAIN p \subseteq Nodes
      /\ \A n \in DOMAIN p : p[n] \in Values
  <2> HIDE DEF p
  <2> QED BY <1>3, NodeMapForm
<1>5. \A n \in DOMAIN old : Canon[old[n]] = old[n]
  <2>1. CanonNodes(old) = old
    BY DEF Proper
  <2>2. \A n \in DOMAIN old : CanonNodes(old)[n] = Canon[old[n]]
    BY DEF CanonNodes
  <2> QED BY <2>1, <2>2
<1>6. /\ new = [n \in DOMAIN new |-> new[n]] /\ DOMAIN new = DOMAIN p
      /\ \A n \in DOMAIN p : new[n] = IF n \in DOMAIN d.upNodes THEN Canon[p[n]] ELSE p[n]
  <2> HIDE DEF p
  <2> QED OBVIOUS
<1> HIDE DEF p, new
<1>7. new \in NodeMaps
  <2>1. \A n \in DOMAIN new : new[n] \in Values
    BY <1>4, <1>6, AutosaveAssumption
  <2> QED BY <1>4, <1>6, <2>1, NodeMapForm
<1>8. CanonNodes(new) = new
  <2>1. \A n \in DOMAIN new : Canon[new[n]] = new[n]
    BY <1>3, <1>4, <1>5, <1>6, AutosaveAssumption
  <2> QED BY <1>6, <2>1 DEF CanonNodes
<1>9. kept \cup d.upEdges \subseteq Edges
  BY <1>1
<1>10. \A x \in kept \cup d.upEdges : Ends[x] \subseteq DOMAIN new
  <2>1. ASSUME NEW x \in kept
        PROVE  Ends[x] \subseteq DOMAIN new
    <3>1. Ends[x] \subseteq DOMAIN old
      BY <2>1 DEF Proper, WellFormed
    <3> QED BY <2>1, <3>1, <1>3, <1>6
  <2>2. ASSUME NEW x \in d.upEdges
        PROVE  Ends[x] \subseteq DOMAIN new
    BY <2>2, <1>6 DEF Valid, p
  <2> QED BY <2>1, <2>2
<1>11. Proper(z)
  BY <1>1, <1>7, <1>8, <1>9, <1>10 DEF Proper, Row, Graphs, WellFormed
<1>12. ASSUME NEW g \in Graphs, Apart(d), Agrees(g, s)
       PROVE  Agrees(Replay(g, d), z)
  <2> DEFINE q == Patched(g.nodes, d)
  <2>1. g.nodes \in NodeMaps /\ g.edges = s.graph.edges /\ CanonNodes(g.nodes) = old
    BY <1>12 DEF Graphs, Agrees
  <2>2. DOMAIN g.nodes = DOMAIN old /\ \A n \in DOMAIN old : Canon[g.nodes[n]] = old[n]
    BY <2>1 DEF CanonNodes
  <2>3. /\ DOMAIN q = (DOMAIN g.nodes \ d.delNodes) \cup DOMAIN d.upNodes
        /\ \A n \in DOMAIN q : q[n] = IF n \in DOMAIN d.upNodes THEN d.upNodes[n] ELSE g.nodes[n]
    BY <2>1, PatchedType
  <2> HIDE DEF q
  <2>4. DOMAIN q = DOMAIN new /\ \A n \in DOMAIN new : Canon[q[n]] = new[n]
    BY <1>3, <1>6, <2>2, <2>3
  <2>5. CanonNodes(q) = new
    BY <2>4, <1>6 DEF CanonNodes
  <2>6. \A x \in s.graph.edges : Ends[x] \subseteq DOMAIN old
    BY DEF Proper, WellFormed
  <2>7. {x \in (g.edges \ d.delEdges) \cup d.upEdges : Ends[x] \subseteq DOMAIN q}
          = kept \cup d.upEdges
    BY <2>1, <2>2, <2>3, <2>4, <2>6, <1>10, <1>12 DEF Apart
  <2>8. Replay(g, d) = [nodes |-> q,
          edges |-> {x \in (g.edges \ d.delEdges) \cup d.upEdges : Ends[x] \subseteq DOMAIN q}]
    BY DEF Replay, q
  <2> QED BY <2>5, <2>7, <2>8 DEF Agrees
<1> HIDE DEF z
<1> QED BY <1>2, <1>11, <1>12
-----------------------------------------------------------------------------
(* Steps of one tab *)

LEMMA TabMoves ==
  ASSUME AutosaveInv, NEW t \in Tabs, NEW f, Sound(f, server),
         tab' = [tab EXCEPT ![t] = f], server' = server,
         orphan' \in [Tabs -> Requests \cup {None}]
  PROVE  AutosaveInv'
<1>1. f \in TabTypes
  BY DEF Sound
<1>2. tab' \in [Tabs -> TabTypes]
  BY <1>1 DEF AutosaveInv
<1>3. \A u \in Tabs : tab'[u] = IF u = t THEN f ELSE tab[u]
  BY DEF AutosaveInv
<1>4. \A u \in Tabs : Sound(tab'[u], server')
  BY <1>3 DEF AutosaveInv
<1>5. Proper(server')
  BY DEF AutosaveInv
<1> QED BY <1>2, <1>4, <1>5 DEF AutosaveInv

LEMMA TabShape ==
  ASSUME AutosaveInv, NEW t \in Tabs
  PROVE  /\ tab[t] \in TabTypes /\ server \in Row /\ Proper(server)
         /\ Sound(tab[t], server)
         /\ Known(tab[t], server) /\ Clean(tab[t]) /\ Pending(tab[t])
         /\ Landed(tab[t], server) /\ Fetched(tab[t], server)
         /\ orphan \in [Tabs -> Requests \cup {None}]
BY DEF AutosaveInv, Sound, Proper

\* A freshly opened tab.
LEMMA OpenedSound ==
  ASSUME NEW g \in Graphs, NEW r \in Nat, NEW R \in SUBSET Nodes, NEW s \in Row,
         r <= s.rev, r = s.rev => Agrees(g, s)
  PROVE  Sound(Opened(g, r, R), s)
<1> DEFINE e == [mode |-> "open", local |-> g, base |-> g, received |-> R, rev |-> r,
                 dirty |-> FALSE, timer |-> FALSE, status |-> "saved", task |-> "idle", req |-> None,
                 reply |-> None, conflicts |-> 0, read |-> NoRead]
<1>1. e = Opened(g, r, R)
  BY DEF Opened
<1>2. NoRead \in [rev : Nat \cup {None}, nodes : NodeMaps \cup {None},
                  edges : (SUBSET Edges) \cup {None}]
  BY DEF NoRead
<1>3. 0 \in 0 .. MaxReplays
  BY AutosaveAssumption
<1>4. e \in TabTypes
  BY <1>2, <1>3 DEF TabTypes
<1>5. Known(e, s) /\ Clean(e) /\ Pending(e) /\ Landed(e, s)
  BY DEF Known, Clean, Pending, Landed
<1>6. Fetched(e, s)
  BY DEF Fetched, NoRead
<1> HIDE DEF e
<1> QED BY <1>1, <1>4, <1>5, <1>6 DEF Sound

LEMMA ReturnedSound ==
  ASSUME NEW s, NEW e, Sound(e, s), NEW st \in {"saved", "error"}
  PROVE  Sound(Returned(e, st), s)
<1> DEFINE r == Returned(e, st)
<1>1. e \in TabTypes
  BY DEF Sound
<1>2. /\ r \in TabTypes
      /\ r.mode = e.mode /\ r.local = e.local /\ r.base = e.base /\ r.rev = e.rev
      /\ r.dirty = e.dirty /\ r.timer = e.timer /\ r.task = "idle" /\ r.read = NoRead
  BY <1>1, ReturnedType
<1> HIDE DEF r
<1>3. Known(r, s) /\ Clean(r) /\ Pending(r) /\ Landed(r, s)
  BY <1>2 DEF Sound, Known, Clean, Pending, Landed
<1>4. Fetched(r, s)
  BY <1>2 DEF Fetched, NoRead
<1>5. Sound(r, s)
  BY <1>2, <1>3, <1>4 DEF Sound
<1> QED BY <1>5 DEF r

\* saveNow of a dirty tab that is not loading, from the tab e it is changed to.
LEMMA SaveNowStep ==
  ASSUME AutosaveInv, NEW t \in Tabs, NEW e, Sound(e, server), e.mode # "loading", e.dirty,
         SaveNow(t, e), UNCHANGED <<server, orphan>>
  PROVE  AutosaveInv'
<1> DEFINE q == [e EXCEPT !.timer = FALSE]
<1>1. e \in TabTypes /\ server \in Row /\ orphan \in [Tabs -> Requests \cup {None}]
  BY TabShape DEF Sound
<1>2. q \in TabTypes
  BY <1>1 DEF TabTypes
<1>3. /\ q.mode = e.mode /\ q.base = e.base /\ q.local = e.local /\ q.rev = e.rev
      /\ q.dirty = e.dirty /\ ~q.timer /\ q.task = e.task /\ q.req = e.req /\ q.reply = e.reply
      /\ q.read = e.read
  BY <1>1 DEF TabTypes
<1> HIDE DEF q
<1>4. Known(q, server)
  BY <1>3 DEF Sound, Known
<1>5. Sound(q, server)
  BY <1>2, <1>3, <1>4 DEF Sound, Clean, Pending, Landed, Fetched
<1>6. PICK f : tab' = [tab EXCEPT ![t] = f] /\ (f \in Loop(q) \/ f = q)
  BY DEF SaveNow, q
<1>7. Sound(f, server)
  BY <1>1, <1>2, <1>3, <1>4, <1>5, <1>6, LoopSound
<1> QED BY <1>1, <1>6, <1>7, TabMoves

LEMMA UserStep ==
  ASSUME AutosaveInv, NEW t \in Tabs, UserNext(t)
  PROVE  AutosaveInv'
<1> DEFINE e == tab[t]
<1>0. /\ e \in TabTypes /\ server \in Row /\ Proper(server)
      /\ Sound(e, server)
      /\ Known(e, server) /\ Clean(e) /\ Pending(e)
      /\ Landed(e, server) /\ Fetched(e, server)
      /\ orphan \in [Tabs -> Requests \cup {None}]
  BY TabShape
<1>1. CASE Edit(t)
  <2>1. PICK g \in Drafts :
          tab' = [tab EXCEPT ![t] = [@ EXCEPT !.local = g, !.dirty = TRUE, !.timer = TRUE,
                                               !.status = "unsaved"]]
    BY <1>1 DEF Edit
  <2> DEFINE f == [e EXCEPT !.local = g, !.dirty = TRUE, !.timer = TRUE, !.status = "unsaved"]
  <2>2. g \in Graphs
    BY AutosaveAssumption
  <2>3. f \in TabTypes
    BY <1>0, <2>2 DEF TabTypes
  <2>4. /\ f.mode = e.mode /\ f.base = e.base /\ f.rev = e.rev /\ f.dirty = TRUE
        /\ f.task = e.task /\ f.req = e.req /\ f.reply = e.reply /\ f.read = e.read
    BY <1>0 DEF TabTypes
  <2>5. tab' = [tab EXCEPT ![t] = f]
    BY <2>1 DEF AutosaveInv
  <2>7. server' = server /\ orphan' = orphan /\ e.mode = "open"
    BY <1>1 DEF Edit
  <2> HIDE DEF f, e
  <2>6. Sound(f, server)
    BY <1>0, <2>3, <2>4, <2>7 DEF Sound, Known, Clean, Pending, Landed, Fetched
  <2> QED BY <1>0, <2>5, <2>6, <2>7, TabMoves
<1>2. CASE Flush(t)
  <2>1. e.mode # "loading" /\ e.dirty /\ SaveNow(t, e) /\ UNCHANGED <<server, orphan>>
    BY <1>2 DEF Flush
  <2> HIDE DEF e
  <2> QED BY <1>0, <2>1, SaveNowStep
<1>3. CASE Leave(t)
  <2>1. e.mode = "open" /\ UNCHANGED <<server, orphan>>
    BY <1>3 DEF Leave
  <2>2. CASE e.dirty
    <3> DEFINE f == [e EXCEPT !.mode = "away"]
    <3>1. f \in TabTypes
      BY <1>0 DEF TabTypes
    <3>2. /\ f.mode = "away" /\ f.base = e.base /\ f.rev = e.rev /\ f.dirty = e.dirty /\ (f.timer => e.timer)
          /\ f.local = e.local /\ f.task = e.task /\ f.req = e.req /\ f.reply = e.reply
          /\ f.read = e.read
      BY <1>0 DEF TabTypes
    <3>3. SaveNow(t, f)
      BY <1>3, <2>2 DEF Leave
    <3> HIDE DEF f, e
    <3>4. Sound(f, server)
      BY <1>0, <2>1, <3>1, <3>2 DEF Sound, Known, Clean, Pending, Landed, Fetched
    <3> QED BY <2>1, <2>2, <3>2, <3>3, <3>4, SaveNowStep
  <2>3. CASE ~e.dirty
    <3> DEFINE f == [e EXCEPT !.mode = "away", !.timer = FALSE]
    <3>1. f \in TabTypes
      BY <1>0 DEF TabTypes
    <3>2. /\ f.mode = "away" /\ f.base = e.base /\ f.rev = e.rev /\ f.dirty = e.dirty /\ (f.timer => e.timer)
          /\ f.local = e.local /\ f.task = e.task /\ f.req = e.req /\ f.reply = e.reply
          /\ f.read = e.read
      BY <1>0 DEF TabTypes
    <3>3. tab' = [tab EXCEPT ![t] = f]
      BY <1>3, <2>3 DEF Leave, AutosaveInv
    <3> HIDE DEF f, e
    <3>4. Sound(f, server)
      BY <1>0, <2>1, <3>1, <3>2 DEF Sound, Known, Clean, Pending, Landed, Fetched
    <3> QED BY <1>0, <2>1, <3>3, <3>4, TabMoves
  <2> QED BY <2>2, <2>3
<1>4. CASE Reopen(t)
  <2>1. /\ e.mode = "away" /\ UNCHANGED <<server, orphan>>
        /\ tab' = [tab EXCEPT ![t] = Opened(e.base, e.rev, e.received)]
    BY <1>4 DEF Reopen
  <2>2. e.base \in Graphs /\ e.rev \in Nat /\ e.received \in SUBSET Nodes
    BY <1>0 DEF TabTypes
  <2>3. e.rev <= server.rev /\ (e.rev = server.rev => Agrees(e.base, server))
    BY <1>0, <2>1 DEF Known
  <2> HIDE DEF e
  <2>4. Sound(Opened(e.base, e.rev, e.received), server)
    BY <1>0, <2>2, <2>3, OpenedSound
  <2> QED BY <1>0, <2>1, <2>4, TabMoves
<1>5. CASE Reload(t)
  <2> DEFINE o == Opened(FirstGraph, 0, {})
             f == [o EXCEPT !.mode = "loading", !.task = "reading"]
  <2>1. /\ server' = server /\ tab' = [tab EXCEPT ![t] = f]
        /\ orphan' = IF e.task = "sent" THEN [orphan EXCEPT ![t] = e.req] ELSE orphan
    BY <1>5 DEF Reload
  <2>2. orphan' \in [Tabs -> Requests \cup {None}]
    BY <1>0, <2>1 DEF Pending
  <2>3. FirstGraph \in Graphs /\ 0 \in 0 .. MaxReplays
    BY AutosaveAssumption
  <2>4. NoRead \in [rev : Nat \cup {None}, nodes : NodeMaps \cup {None},
                    edges : (SUBSET Edges) \cup {None}]
    BY DEF NoRead
  <2>5. f \in TabTypes
    BY <2>3, <2>4 DEF Opened, TabTypes
  <2>6. f.mode = "loading" /\ f.task = "reading" /\ f.local = f.base /\ f.read = NoRead /\ ~f.timer
    BY DEF Opened
  <2> HIDE DEF f
  <2>7. Sound(f, server)
    BY <2>5, <2>6 DEF Sound, Known, Clean, Pending, Landed, Fetched, NoRead
  <2> QED BY <2>1, <2>2, <2>7, TabMoves
<1> QED BY <1>1, <1>2, <1>3, <1>4, <1>5 DEF UserNext
\* The answer of a request that was not committed for the tab.
LEMMA AnswerStep ==
  ASSUME AutosaveInv, NEW t \in Tabs, NEW reply \in {"failed", "conflict"},
         tab[t].task = "sent", Answer(t, reply), server' = server,
         orphan' \in [Tabs -> Requests \cup {None}]
  PROVE  AutosaveInv'
<1> DEFINE e == tab[t]
           f == [e EXCEPT !.task = "answered", !.reply = reply]
<1>1. /\ e \in TabTypes /\ Sound(e, server) /\ Pending(e)
  BY TabShape
<1>2. f \in TabTypes
  BY <1>1 DEF TabTypes
<1>3. /\ f.mode = e.mode /\ f.base = e.base /\ f.rev = e.rev /\ f.dirty = e.dirty /\ (f.timer => e.timer)
      /\ f.local = e.local /\ f.req = e.req /\ f.reply # "saved" /\ f.read = e.read
  BY <1>1 DEF TabTypes
<1>4. tab' = [tab EXCEPT ![t] = f]
  BY DEF Answer, AutosaveInv
<1>5. e.task = "sent"
  OBVIOUS
<1> HIDE DEF f, e
<1>6. Sound(f, server)
  BY <1>1, <1>2, <1>3, <1>5 DEF Sound, Known, Clean, Pending, Landed, Fetched
<1> QED BY <1>4, <1>6, TabMoves

LEMMA ApiStep ==
  ASSUME AutosaveInv, NEW t \in Tabs, ApiNext(t)
  PROVE  AutosaveInv'
<1> DEFINE e == tab[t]
<1>0. /\ e \in TabTypes /\ server \in Row /\ Proper(server)
      /\ Sound(e, server)
      /\ Known(e, server) /\ Clean(e) /\ Pending(e)
      /\ Landed(e, server) /\ Fetched(e, server)
      /\ orphan \in [Tabs -> Requests \cup {None}]
  BY TabShape
<1>1. ASSUME NEW req \in Requests, Transact(req)
      PROVE  /\ Proper(server') /\ server' \in Row /\ server.rev \in Nat
             /\ server'.rev = server.rev + 1
             /\ \A g \in Graphs : Apart(req.batch) /\ Agrees(g, server)
                                    => Agrees(Replay(g, req.batch), server')
             /\ \A u \in Tabs : Sound(tab[u], server')
  <2>1. /\ req.base = server.rev /\ Valid(server.graph, req.batch)
        /\ server' = [rev |-> server.rev + 1, graph |-> Applied(server.graph, req.batch)]
    BY <1>1 DEF Transact
  <2>2. req.batch \in Batch
    BY <1>1 DEF Requests, Batch
  <2>3. /\ Proper(server')
        /\ \A g \in Graphs : Apart(req.batch) /\ Agrees(g, server)
                               => Agrees(Replay(g, req.batch), server')
    BY <1>0, <2>1, <2>2, AppliedIsReplayed
  <2>4. server' \in Row /\ server'.rev = server.rev + 1 /\ server.rev \in Nat
    BY <1>0, <2>1, <2>3 DEF Proper, Row
  <2>5. ASSUME NEW u \in Tabs
        PROVE  Sound(tab[u], server')
    BY <1>0, <2>4, MovedOn DEF AutosaveInv
  <2> QED BY <2>3, <2>4, <2>5
<1>2. CASE Commit(t)
  <2> DEFINE f == [e EXCEPT !.task = "answered", !.reply = "saved"]
  <2>1. e.task = "sent" /\ Transact(e.req) /\ UNCHANGED orphan
    BY <1>2 DEF Commit
  <2>2. /\ e.req.base = e.rev /\ e.req \in Requests /\ Apart(e.req.batch)
        /\ e.mode # "loading"
    BY <1>0, <2>1 DEF Pending
  <2>13. e.dirty
    BY <1>0, <2>1 DEF Pending
  <2>3. tab' = [tab EXCEPT ![t] = f]
    BY <1>2 DEF Commit, Answer, AutosaveInv
  <2>4. /\ Proper(server') /\ server' \in Row /\ server.rev \in Nat
        /\ server'.rev = server.rev + 1
        /\ \A g \in Graphs : Apart(e.req.batch) /\ Agrees(g, server)
                               => Agrees(Replay(g, e.req.batch), server')
        /\ \A u \in Tabs : Sound(tab[u], server')
    BY <1>1, <2>1, <2>2
  <2>5. e.rev = server.rev
    BY <2>1, <2>2 DEF Transact
  <2>6. Agrees(e.base, server) /\ e.base \in Graphs
    BY <1>0, <2>2, <2>5 DEF Known, TabTypes
  <2>7. Agrees(Replay(e.base, e.req.batch), server')
    BY <2>2, <2>4, <2>6
  <2>8. f \in TabTypes
    BY <1>0 DEF TabTypes
  <2>9. /\ f.mode = e.mode /\ f.base = e.base /\ f.rev = e.rev /\ f.dirty = e.dirty /\ (f.timer => e.timer)
        /\ f.local = e.local /\ f.req = e.req /\ f.task = "answered" /\ f.read = e.read
    BY <1>0 DEF TabTypes
  <2>10. Sound(e, server')
    BY <2>4
  <2> HIDE DEF f, e
  <2>11. Sound(f, server')
    <3>1. server.rev \in Nat /\ e.rev < server'.rev /\ e.rev # server'.rev
      BY <2>4, <2>5
    <3>2. Known(f, server') /\ Fetched(f, server')
      BY <2>9, <2>10 DEF Sound, Known, Fetched
    <3>3. Clean(f) /\ Pending(f)
      BY <2>2, <2>9, <2>10, <2>13 DEF Sound, Clean, Pending
    <3>4. Landed(f, server')
      BY <2>7, <2>9, <3>1 DEF Landed
    <3> QED BY <2>8, <3>2, <3>3, <3>4 DEF Sound
  <2>12. tab' \in [Tabs -> TabTypes] /\ \A u \in Tabs : tab'[u] = IF u = t THEN f ELSE tab[u]
    BY <2>3, <2>8 DEF AutosaveInv
  <2> QED BY <1>0, <2>1, <2>4, <2>11, <2>12 DEF AutosaveInv
<1>3. CASE Conflict(t)
  BY <1>3, <1>0, AnswerStep DEF Conflict
<1>4. CASE Refuse(t)
  BY <1>4, <1>0, AnswerStep DEF Refuse
<1>5. CASE Disconnect(t)
  <2>1. tab[t].task = "sent" /\ Answer(t, "failed") /\ server' = server
        /\ orphan' = [orphan EXCEPT ![t] = tab[t].req]
    BY <1>5 DEF Disconnect
  <2>2. orphan' \in [Tabs -> Requests \cup {None}]
    BY <1>0, <2>1 DEF Pending
  <2> QED BY <2>1, <2>2, AnswerStep
<1>6. CASE CommitOrphan(t)
  <2>1. /\ orphan[t] # None /\ Transact(orphan[t]) /\ tab' = tab
        /\ orphan' = [orphan EXCEPT ![t] = None]
    BY <1>6 DEF CommitOrphan
  <2>2. orphan[t] \in Requests
    BY <1>0, <2>1
  <2>3. Proper(server') /\ \A u \in Tabs : Sound(tab[u], server')
    BY <1>1, <2>1, <2>2
  <2>4. orphan' \in [Tabs -> Requests \cup {None}]
    BY <1>0, <2>1
  <2> QED BY <2>1, <2>3, <2>4 DEF AutosaveInv
<1>7. CASE DropOrphan(t)
  <2>1. UNCHANGED <<server, tab>> /\ orphan' \in [Tabs -> Requests \cup {None}]
    BY <1>7, <1>0 DEF DropOrphan
  <2> QED BY <2>1 DEF AutosaveInv
<1> QED BY <1>2, <1>3, <1>4, <1>5, <1>6, <1>7 DEF ApiNext

\* The read of a tab goes on to q, of which what Fetched says is true.
LEMMA ReadMoves ==
  ASSUME AutosaveInv, NEW t \in Tabs,
         NEW q \in [rev : Nat \cup {None}, nodes : NodeMaps \cup {None},
                    edges : (SUBSET Edges) \cup {None}],
         tab[t].task = "reading", UNCHANGED <<server, orphan>>,
         tab' = [tab EXCEPT ![t] = [@ EXCEPT !.read = q]],
         Fetched([read |-> q], server)
  PROVE  AutosaveInv'
<1> DEFINE e == tab[t]
           f == [e EXCEPT !.read = q]
<1>1. /\ e \in TabTypes /\ Sound(e, server) /\ orphan \in [Tabs -> Requests \cup {None}]
  BY TabShape
<1>2. f \in TabTypes
  BY <1>1 DEF TabTypes
<1>3. /\ f.mode = e.mode /\ f.base = e.base /\ f.rev = e.rev /\ f.dirty = e.dirty /\ (f.timer => e.timer)
      /\ f.local = e.local /\ f.task = "reading" /\ f.read = q
  BY <1>1 DEF TabTypes
<1>4. tab' = [tab EXCEPT ![t] = f]
  BY DEF AutosaveInv
<1> HIDE DEF f, e
<1>5. Sound(f, server)
  BY <1>1, <1>2, <1>3 DEF Sound, Known, Clean, Pending, Landed, Fetched
<1> QED BY <1>1, <1>4, <1>5, TabMoves

LEMMA ReadStep ==
  ASSUME AutosaveInv, NEW t \in Tabs, ReadNext(t)
  PROVE  AutosaveInv'
<1> DEFINE r == tab[t].read
           Some == [rev : Nat \cup {None}, nodes : NodeMaps \cup {None},
                    edges : (SUBSET Edges) \cup {None}]
<1>0. /\ tab[t] \in TabTypes /\ server \in Row /\ Fetched(tab[t], server)
  BY TabShape
<1>1. /\ r \in Some /\ server.rev \in Nat /\ server.graph.nodes \in NodeMaps
      /\ server.graph.edges \subseteq Edges
  BY <1>0 DEF TabTypes, Row, Graphs
<1>2. CASE ReadRevision(t)
  <2> DEFINE q == [NoRead EXCEPT !.rev = server.rev]
  <2>1. q \in Some /\ q.rev = server.rev /\ q.nodes = None /\ q.edges = None
    BY <1>1 DEF NoRead
  <2>2. /\ tab[t].task = "reading" /\ UNCHANGED <<server, orphan>>
        /\ tab' = [tab EXCEPT ![t] = [@ EXCEPT !.read = q]]
    BY <1>2 DEF ReadRevision, Reads
  <2> HIDE DEF q
  <2>3. Fetched([read |-> q], server)
    BY <1>1, <2>1 DEF Fetched
  <2> QED BY <2>1, <2>2, <2>3, ReadMoves
<1>3. CASE ReadNodes(t)
  <2> DEFINE q == [r EXCEPT !.nodes = server.graph.nodes]
  <2>1. q \in Some /\ q.rev = r.rev /\ q.nodes = server.graph.nodes /\ q.edges = r.edges
    BY <1>1
  <2>2. /\ tab[t].task = "reading" /\ UNCHANGED <<server, orphan>> /\ r.rev # None
        /\ tab' = [tab EXCEPT ![t] = [@ EXCEPT !.read = q]]
    BY <1>3 DEF ReadNodes, Reads
  <2> HIDE DEF q
  <2>3. Fetched([read |-> q], server)
    BY <1>0, <2>1, <2>2 DEF Fetched
  <2> QED BY <2>1, <2>2, <2>3, ReadMoves
<1>4. CASE ReadEdges(t)
  <2> DEFINE q == [r EXCEPT !.edges = server.graph.edges]
  <2>1. q \in Some /\ q.rev = r.rev /\ q.edges = server.graph.edges /\ q.nodes = r.nodes
    BY <1>1
  <2>2. /\ tab[t].task = "reading" /\ UNCHANGED <<server, orphan>> /\ r.rev # None
        /\ tab' = [tab EXCEPT ![t] = [@ EXCEPT !.read = q]]
    BY <1>4 DEF ReadEdges, Reads
  <2> HIDE DEF q
  <2>3. Fetched([read |-> q], server)
    BY <1>0, <2>1, <2>2 DEF Fetched
  <2> QED BY <2>1, <2>2, <2>3, ReadMoves
<1> QED BY <1>2, <1>3, <1>4 DEF ReadNext

\* A complete read is a graph, current if its revision is.
LEMMA ReadGraph ==
  ASSUME NEW s, Proper(s), NEW e \in TabTypes, Fetched(e, s), Complete(e.read)
  PROVE  /\ GraphOf(e.read) \in Graphs /\ e.read.rev \in Nat /\ e.read.rev <= s.rev
         /\ DOMAIN e.read.nodes \in SUBSET Nodes
         /\ e.read.rev = s.rev => Agrees(GraphOf(e.read), s)
<1>1. /\ e.read.nodes \in NodeMaps /\ e.read.edges \in SUBSET Edges
      /\ e.read.rev \in Nat /\ e.read.rev <= s.rev
  BY DEF Complete, Fetched, TabTypes
<1>2. ASSUME e.read.rev = s.rev
      PROVE  Agrees(GraphOf(e.read), s)
  BY <1>2 DEF Complete, Fetched, Agrees, GraphOf, Proper
<1> QED BY <1>1, <1>2, NodeMapForm DEF GraphOf, Graphs

LEMMA SaveStep ==
  ASSUME AutosaveInv, NEW t \in Tabs, SaveNext(t)
  PROVE  AutosaveInv'
<1> DEFINE e == tab[t]
<1>0. /\ e \in TabTypes /\ server \in Row /\ Proper(server)
      /\ Sound(e, server)
      /\ Known(e, server) /\ Clean(e) /\ Pending(e)
      /\ Landed(e, server) /\ Fetched(e, server)
      /\ orphan \in [Tabs -> Requests \cup {None}]
  BY TabShape
<1>1. CASE TimerFires(t)
  <2>1. e.timer /\ SaveNow(t, e) /\ UNCHANGED <<server, orphan>>
    BY <1>1 DEF TimerFires
  <2> HIDE DEF e
  <2>2. e.mode # "loading" /\ e.dirty
    BY <1>0, <2>1 DEF Clean
  <2> QED BY <1>0, <2>1, <2>2, SaveNowStep
<1>2. CASE ReceiveSaved(t)
  <2> DEFINE h == Replay(e.base, e.req.batch)
             k == e.req.base + 1
             R == e.received \ (e.req.batch.delNodes \cup DOMAIN e.req.batch.upNodes)
             q == [e EXCEPT !.base = h, !.rev = k, !.received = R]
  <2>1. e.task = "answered" /\ e.reply = "saved" /\ UNCHANGED <<server, orphan>>
    BY <1>2 DEF ReceiveSaved
  <2>2. PICK f \in Loop(q) : tab' = [tab EXCEPT ![t] = f]
    BY <1>2 DEF ReceiveSaved, Committed
  <2>3. /\ e.mode # "loading" /\ e.dirty /\ e.req.base = e.rev
        /\ e.req \in Requests
    BY <1>0, <2>1 DEF Pending
  <2>4. e.req.batch \in Batch /\ e.base \in Graphs /\ e.rev \in Nat
    BY <1>0, <2>3 DEF Requests, Batch, TabTypes
  <2>5. h \in Graphs /\ k \in Nat /\ R \in SUBSET Nodes
    BY <1>0, <2>3, <2>4, ReplayType DEF TabTypes
  <2>11. h = Replay(e.base, e.req.batch) /\ k = e.rev + 1
    BY <2>3
  <2> HIDE DEF h, k, R
  <2>6. q \in TabTypes
    BY <1>0, <2>5 DEF TabTypes
  <2>12. q.mode = e.mode /\ q.dirty = e.dirty /\ q.rev = k /\ q.base = h
    BY <1>0 DEF TabTypes
  <2>7. /\ q.mode = e.mode /\ q.dirty = e.dirty /\ q.rev = e.rev + 1
        /\ q.base = Replay(e.base, e.req.batch)
    BY <2>11, <2>12
  <2>8. server.rev \in Nat
    BY <1>0 DEF Row
  <2> HIDE DEF q, e
  <2>9. Known(q, server)
    BY <1>0, <2>1, <2>4, <2>7, <2>8 DEF Landed, Known
  <2>10. Sound(f, server)
    BY <1>0, <2>2, <2>3, <2>6, <2>7, <2>9, LoopSound
  <2> QED BY <1>0, <2>1, <2>2, <2>10, TabMoves
<1>3. CASE ReceiveConflict(t)
  <2>1. e.task = "answered" /\ UNCHANGED <<server, orphan>>
    BY <1>3 DEF ReceiveConflict
  <2>2. CASE e.conflicts + 1 > MaxReplays
    <3>1. tab' = [tab EXCEPT ![t] = Returned(e, "error")]
      BY <1>3, <2>2 DEF ReceiveConflict
    <3>2. Sound(Returned(e, "error"), server)
      BY <1>0, ReturnedSound
    <3> HIDE DEF e
    <3> QED BY <1>0, <2>1, <3>1, <3>2, TabMoves
  <2>3. CASE ~(e.conflicts + 1 > MaxReplays)
    <3> DEFINE f == [e EXCEPT !.task = "reading", !.status = "conflict", !.req = None,
                              !.reply = None, !.conflicts = @ + 1]
    <3>1. tab' = [tab EXCEPT ![t] = f]
      BY <1>3, <2>3 DEF ReceiveConflict
    <3>2. e.conflicts + 1 \in 0 .. MaxReplays
      BY <1>0, <2>3, AutosaveAssumption DEF TabTypes
    <3>3. f \in TabTypes
      BY <1>0, <3>2 DEF TabTypes
    <3>4. /\ f.mode = e.mode /\ f.base = e.base /\ f.rev = e.rev /\ f.dirty = e.dirty
          /\ f.timer = e.timer /\ f.local = e.local /\ f.task = "reading" /\ f.read = e.read
      BY <1>0 DEF TabTypes
    <3> HIDE DEF f, e
    <3>5. Sound(f, server)
      BY <1>0, <3>3, <3>4 DEF Sound, Known, Clean, Pending, Landed, Fetched
    <3> QED BY <1>0, <2>1, <3>1, <3>5, TabMoves
  <2> QED BY <2>2, <2>3
<1>4. CASE ReceiveFailed(t)
  <2>1. /\ tab' = [tab EXCEPT ![t] = Returned(e, "error")] /\ UNCHANGED <<server, orphan>>
    BY <1>4 DEF ReceiveFailed
  <2>2. Sound(Returned(e, "error"), server)
    BY <1>0, ReturnedSound
  <2> HIDE DEF e
  <2> QED BY <1>0, <2>1, <2>2, TabMoves
<1>5. CASE Reconcile(t)
  <2> DEFINE g == GraphOf(e.read)
             h == Replay(g, Diff(e.base, e.local, e.received))
             q == [e EXCEPT !.local = h, !.base = g, !.received = DOMAIN g.nodes,
                            !.rev = e.read.rev, !.dirty = TRUE, !.timer = (e.mode = "open"), !.status = "unsaved"]
  <2>1. e.mode # "loading" /\ Complete(e.read) /\ UNCHANGED <<server, orphan>>
    BY <1>5 DEF Reconcile
  <2>2. PICK f \in Loop(q) : tab' = [tab EXCEPT ![t] = f]
    BY <1>5 DEF Reconcile, Reconciled
  <2>3. /\ g \in Graphs /\ e.read.rev \in Nat /\ e.read.rev <= server.rev
        /\ DOMAIN g.nodes \in SUBSET Nodes
        /\ e.read.rev = server.rev => Agrees(g, server)
    BY <1>0, <2>1, ReadGraph DEF GraphOf
  <2>4. e.base \in Graphs /\ e.local \in Graphs
    BY <1>0 DEF TabTypes
  <2>5. h \in Graphs
    BY <2>3, <2>4, DiffType, ReplayType
  <2> HIDE DEF g, h
  <2>6. q \in TabTypes
    BY <1>0, <2>3, <2>5 DEF TabTypes
  <2>7. q.mode = e.mode /\ q.dirty = TRUE /\ q.rev = e.read.rev /\ q.base = g
    BY <1>0 DEF TabTypes
  <2> HIDE DEF q, e
  <2>8. Known(q, server)
    BY <2>3, <2>7 DEF Known
  <2>9. Sound(f, server)
    BY <1>0, <2>1, <2>2, <2>6, <2>7, <2>8, LoopSound
  <2> QED BY <1>0, <2>1, <2>2, <2>9, TabMoves
<1>6. CASE ReadFails(t)
  <2>1. /\ tab' = [tab EXCEPT ![t] = Returned(e, "error")] /\ UNCHANGED <<server, orphan>>
    BY <1>6 DEF ReadFails
  <2>2. Sound(Returned(e, "error"), server)
    BY <1>0, ReturnedSound
  <2> HIDE DEF e
  <2> QED BY <1>0, <2>1, <2>2, TabMoves
<1>7. CASE Open(t)
  <2>1. /\ tab' = [tab EXCEPT ![t] = Opened(GraphOf(e.read), e.read.rev, DOMAIN e.read.nodes)]
        /\ Complete(e.read) /\ UNCHANGED <<server, orphan>>
    BY <1>7 DEF Open
  <2> HIDE DEF e
  <2>2. /\ GraphOf(e.read) \in Graphs /\ e.read.rev \in Nat /\ e.read.rev <= server.rev
        /\ DOMAIN e.read.nodes \in SUBSET Nodes
        /\ e.read.rev = server.rev => Agrees(GraphOf(e.read), server)
    BY <1>0, <2>1, ReadGraph
  <2>3. Sound(Opened(GraphOf(e.read), e.read.rev, DOMAIN e.read.nodes), server)
    BY <1>0, <2>2, OpenedSound
  <2> QED BY <1>0, <2>1, <2>3, TabMoves
<1> QED BY <1>1, <1>2, <1>3, <1>4, <1>5, <1>6, <1>7 DEF SaveNext

-----------------------------------------------------------------------------
LEMMA InitAutosave == Init => AutosaveInv
<1> SUFFICES ASSUME Init
             PROVE  AutosaveInv
  OBVIOUS
<1>1. server = [rev |-> 0, graph |-> FirstGraph] /\ FirstGraph \in Graphs
  BY AutosaveAssumption DEF Init
<1>2. CanonNodes(FirstGraph.nodes) = FirstGraph.nodes
  <2>1. FirstGraph.nodes \in NodeMaps
    BY <1>1 DEF Graphs
  <2>2. FirstGraph.nodes = [n \in DOMAIN FirstGraph.nodes |-> FirstGraph.nodes[n]]
    BY <2>1, NodeMapForm
  <2> QED BY <2>2, AutosaveAssumption DEF CanonNodes
<1>3. Proper(server) /\ server \in Row
  BY <1>1, <1>2, AutosaveAssumption DEF Proper, Row
<1>4. Agrees(FirstGraph, server)
  BY <1>1, <1>2 DEF Agrees
<1>5. Sound(Opened(FirstGraph, 0, DOMAIN FirstGraph.nodes), server)
  <2>1. FirstGraph.nodes \in NodeMaps
    BY <1>1 DEF Graphs
  <2>2. DOMAIN FirstGraph.nodes \in SUBSET Nodes
    BY <2>1, NodeMapForm
  <2> QED BY <1>1, <1>3, <1>4, <2>2, OpenedSound
<1>6. /\ tab = [t \in Tabs |-> Opened(FirstGraph, 0, DOMAIN FirstGraph.nodes)]
      /\ orphan = [t \in Tabs |-> None]
  BY DEF Init
<1>7. Opened(FirstGraph, 0, DOMAIN FirstGraph.nodes) \in TabTypes
  BY <1>5 DEF Sound
<1> QED BY <1>3, <1>5, <1>6, <1>7 DEF AutosaveInv

LEMMA NextAutosave == AutosaveInv /\ [Next]_vars => AutosaveInv'
<1> SUFFICES ASSUME AutosaveInv, [Next]_vars
             PROVE  AutosaveInv'
  OBVIOUS
<1>1. CASE Next
  BY <1>1, UserStep, ApiStep, ReadStep, SaveStep DEF Next
<1>2. CASE UNCHANGED vars
  BY <1>2 DEF vars, AutosaveInv
<1> QED BY <1>1, <1>2

\* The types of FlowAutosave, and a server whose edges have both ends and
\* whose nodes are canonical, for every set of tabs and every graph.
THEOREM AutosaveTypes == Spec => []TypeOK
<1>1. AutosaveInv => TypeOK
  BY DEF AutosaveInv, TypeOK, Proper, Row
<1> QED BY <1>1, InitAutosave, NextAutosave, PTL DEF Spec

\* A tab of useFlowAutosave that shows "saved" at the current revision shows
\* the graph of the server, whatever was torn, lost, late or replayed.
THEOREM SavedShowsServer == Spec => []SavedIsServer
<1>1. ASSUME AutosaveInv
      PROVE  SavedIsServer
  <2> SUFFICES ASSUME NEW t \in Tabs, tab[t].mode = "open", ~tab[t].dirty,
                      tab[t].rev = server.rev
               PROVE  Shows(tab[t].local)
    BY DEF SavedIsServer
  <2>1. tab[t].local = tab[t].base /\ Agrees(tab[t].base, server)
    BY <1>1, TabShape DEF Known, Clean
  <2> QED BY <2>1 DEF Agrees, Shows
<1> QED BY <1>1, InitAutosave, NextAutosave, PTL DEF Spec
-----------------------------------------------------------------------------
(* A save deletes only nodes its user has changed                          *)

\* The nodes of graph a that graph b does not have.
Lost(a, b) == DOMAIN a.nodes \ DOMAIN b.nodes

\* What a tab means to delete, and what it is deleting, is in T, and what it
\* is writing is still on its canvas or in T.
Own(e, T) ==
  /\ Lost(e.base, e.local) \subseteq T
  /\ e.task \in {"sent", "answered"} =>
       /\ e.req.batch.delNodes \subseteq T
       /\ DOMAIN e.req.batch.upNodes \subseteq DOMAIN e.local.nodes \cup T

OwnInv ==
  /\ touched \in [Tabs -> SUBSET (Nodes \cup Edges)]
  /\ \A t \in Tabs : Own(tab[t], touched[t])
  /\ \A t \in Tabs : orphan[t] # None => orphan[t].batch.delNodes \subseteq touched[t]

LEMMA DiffWrites ==
  ASSUME NEW a \in Graphs, NEW b \in Graphs, NEW R, NEW x \in Batches(Diff(a, b, R))
  PROVE  x.delNodes \subseteq Lost(a, b) /\ DOMAIN x.upNodes \subseteq DOMAIN b.nodes
<1> DEFINE d == Diff(a, b, R)
<1>1. d.delNodes = Lost(a, b) /\ DOMAIN d.upNodes \subseteq DOMAIN b.nodes
  BY DEF Diff, Lost
<1>2. x.delNodes \subseteq d.delNodes /\ DOMAIN x.upNodes \subseteq DOMAIN d.upNodes
  <2> HIDE DEF d
  <2>1. CASE x = d
    BY <2>1
  <2>2. ASSUME NEW S \in Slices(d.delEdges), x = [Nothing EXCEPT !.delEdges = S]
        PROVE  x.delNodes \subseteq d.delNodes /\ DOMAIN x.upNodes \subseteq DOMAIN d.upNodes
    BY <2>2 DEF Nothing, NoNodes
  <2>3. ASSUME NEW S \in Slices(d.delNodes), x = [Nothing EXCEPT !.delNodes = S]
        PROVE  x.delNodes \subseteq d.delNodes /\ DOMAIN x.upNodes \subseteq DOMAIN d.upNodes
    BY <2>3 DEF Nothing, NoNodes, Slices
  <2>4. ASSUME NEW S \in Slices(DOMAIN d.upNodes),
               x = [Nothing EXCEPT !.upNodes = [n \in S |-> d.upNodes[n]]]
        PROVE  x.delNodes \subseteq d.delNodes /\ DOMAIN x.upNodes \subseteq DOMAIN d.upNodes
    <3>1. DOMAIN x.upNodes = S /\ x.delNodes = {}
      BY <2>4 DEF Nothing
    <3> QED BY <3>1 DEF Slices
  <2>5. ASSUME NEW S \in Slices(d.upEdges), x = [Nothing EXCEPT !.upEdges = S]
        PROVE  x.delNodes \subseteq d.delNodes /\ DOMAIN x.upNodes \subseteq DOMAIN d.upNodes
    BY <2>5 DEF Nothing, NoNodes
  <2>6. x \in Batches(d)
    BY DEF d
  <2> QED BY <2>1, <2>2, <2>3, <2>4, <2>5, <2>6 DEF Batches
<1> QED BY <1>1, <1>2

LEMMA ReplayWrites ==
  ASSUME NEW g \in Graphs, NEW d \in Batch
  PROVE  DOMAIN Replay(g, d).nodes = (DOMAIN g.nodes \ d.delNodes) \cup DOMAIN d.upNodes
BY PatchedType DEF Graphs, Replay

LEMMA AppliedWrites ==
  ASSUME NEW g \in Graphs, NEW d \in Batch
  PROVE  Lost(g, Applied(g, d)) \subseteq d.delNodes
<1> DEFINE p == Patched(g.nodes, d)
<1>1. g.nodes \in NodeMaps /\ DOMAIN Applied(g, d).nodes = DOMAIN p
  BY DEF Graphs, Applied
<1>2. DOMAIN p = (DOMAIN g.nodes \ d.delNodes) \cup DOMAIN d.upNodes
  BY <1>1, PatchedType
<1> HIDE DEF p
<1> QED BY <1>1, <1>2 DEF Lost

LEMMA LoopOwn ==
  ASSUME NEW e \in TabTypes, NEW T, Lost(e.base, e.local) \subseteq T, NEW f \in Loop(e)
  PROVE  Own(f, T)
<1>1. /\ f.base = e.base /\ f.local = e.local
      /\ f.task = "idle" \/ f.task = "sent"
  BY LoopFacts
<1>2. ASSUME f.task = "sent"
      PROVE  /\ f.req.batch.delNodes \subseteq T
             /\ DOMAIN f.req.batch.upNodes \subseteq DOMAIN e.local.nodes
  <2>1. e.base \in Graphs /\ e.local \in Graphs
    BY DEF TabTypes
  <2>2. Mutates(Diff(e.base, e.local, e.received))
    <3>1. ASSUME ~Mutates(Diff(e.base, e.local, e.received))
          PROVE  FALSE
      <4> DEFINE r == Returned(e, "saved")
      <4>1. r \in TabTypes /\ r.task = "idle"
        BY ReturnedType
      <4>2. f = [r EXCEPT !.dirty = FALSE, !.timer = FALSE]
        BY <3>1 DEF Loop
      <4> HIDE DEF r
      <4> QED BY <1>2, <4>1, <4>2 DEF TabTypes
    <3> QED BY <3>1
  <2>3. PICK x \in Batches(Diff(e.base, e.local, e.received)) :
          f = [e EXCEPT !.task = "sent", !.status = "saving", !.reply = None, !.read = NoRead,
                        !.req = [base |-> e.rev, batch |-> x]]
    BY <2>2 DEF Loop
  <2>4. f.req.batch = x
    BY <2>3 DEF TabTypes
  <2> QED BY <2>1, <2>4, DiffWrites
<1> QED BY <1>1, <1>2 DEF Own

LEMMA OwnMoves ==
  ASSUME AutosaveInv, OwnInv, NEW t \in Tabs, NEW f, Own(f, touched[t]),
         tab' = [tab EXCEPT ![t] = f], touched' = touched,
         \A u \in Tabs : orphan'[u] # None =>
                           orphan'[u] = orphan[u] \/ orphan'[u].batch.delNodes \subseteq touched[u]
  PROVE  OwnInv'
<1>1. \A u \in Tabs : tab'[u] = IF u = t THEN f ELSE tab[u]
  BY DEF AutosaveInv
<1>2. \A u \in Tabs : Own(tab'[u], touched'[u])
  BY <1>1 DEF OwnInv
<1>3. \A u \in Tabs : orphan'[u] # None => orphan'[u].batch.delNodes \subseteq touched'[u]
  BY DEF OwnInv
<1> QED BY <1>2, <1>3 DEF OwnInv

\* f is tab e but for what Own does not speak of.
LEMMA OwnAs ==
  ASSUME NEW e, NEW T, Own(e, T), NEW f, f.base = e.base, f.local = e.local,
         f.task \in {"sent", "answered"} => e.task \in {"sent", "answered"} /\ f.req = e.req
  PROVE  Own(f, T)
BY DEF Own

LEMMA OpenedOwn ==
  ASSUME NEW g, NEW r, NEW R, NEW T
  PROVE  /\ Own(Opened(g, r, R), T)
         /\ Own([Opened(g, r, R) EXCEPT !.mode = "loading", !.task = "reading"], T)
BY DEF Opened, Own, Lost

LEMMA ReturnedOwn ==
  ASSUME NEW e \in TabTypes, NEW T, Own(e, T), NEW st \in {"saved", "error"}
  PROVE  Own(Returned(e, st), T)
BY ReturnedType DEF Own

LEMMA SaveNowOwn ==
  ASSUME AutosaveInv, OwnInv, NEW t \in Tabs, NEW e \in TabTypes, Own(e, touched[t]),
         SaveNow(t, e), UNCHANGED <<orphan, touched>>
  PROVE  OwnInv'
<1> DEFINE q == [e EXCEPT !.timer = FALSE]
<1>1. q \in TabTypes
  BY DEF TabTypes
<1>2. q.base = e.base /\ q.local = e.local /\ q.task = e.task /\ q.req = e.req
  BY DEF TabTypes
<1> HIDE DEF q
<1>3. PICK f : tab' = [tab EXCEPT ![t] = f] /\ (f \in Loop(q) \/ f = q)
  BY DEF SaveNow, q
<1>4. Own(f, touched[t])
  <2>1. Own(q, touched[t])
    BY <1>2 DEF Own
  <2> QED BY <1>1, <1>3, <2>1, LoopOwn DEF Own
<1> QED BY <1>3, <1>4, OwnMoves

LEMMA UserOwn ==
  ASSUME AutosaveInv, OwnInv, NEW t \in Tabs, UserNext(t)
  PROVE  OwnInv'
<1> DEFINE e == tab[t]
<1>0. /\ e \in TabTypes /\ Pending(e) /\ orphan \in [Tabs -> Requests \cup {None}]
      /\ Own(e, touched[t]) /\ touched[t] \subseteq Nodes \cup Edges
  BY TabShape DEF OwnInv
<1>1. CASE Edit(t)
  <2>1. PICK g \in Drafts :
          /\ tab' = [tab EXCEPT ![t] = [@ EXCEPT !.local = g, !.dirty = TRUE, !.timer = TRUE,
                                                  !.status = "unsaved"]]
          /\ touched' = [touched EXCEPT ![t] = @ \cup Changed(e.local, g)]
    BY <1>1 DEF Edit
  <2> DEFINE f == [e EXCEPT !.local = g, !.dirty = TRUE, !.timer = TRUE, !.status = "unsaved"]
             T == touched[t] \cup Changed(e.local, g)
  <2>2. f.local = g /\ f.base = e.base /\ f.task = e.task /\ f.req = e.req
    BY <1>0 DEF TabTypes
  <2>3. \A u \in Tabs : tab'[u] = IF u = t THEN f ELSE tab[u]
    BY <2>1 DEF AutosaveInv
  <2>4. \A u \in Tabs : touched'[u] = IF u = t THEN T ELSE touched[u]
    BY <2>1 DEF OwnInv
  <2>5. Changed(e.local, g) \subseteq Nodes \cup Edges /\ e.local \in Graphs /\ g \in Graphs
    <3>1. e.local \in Graphs /\ g \in Graphs
      BY <1>0, AutosaveAssumption DEF TabTypes
    <3>2. /\ e.local.nodes \in NodeMaps /\ g.nodes \in NodeMaps
          /\ e.local.edges \subseteq Edges /\ g.edges \subseteq Edges
      BY <3>1 DEF Graphs
    <3>3. DOMAIN e.local.nodes \subseteq Nodes /\ DOMAIN g.nodes \subseteq Nodes
      BY <3>2, NodeMapForm
    <3> QED BY <3>1, <3>2, <3>3 DEF Changed, ChangedNodes
  <2>6. touched' \in [Tabs -> SUBSET (Nodes \cup Edges)]
    <3> HIDE DEF e
    <3> QED BY <2>1, <2>5, <1>0 DEF OwnInv
  <2>7. orphan' = orphan
    BY <1>1 DEF Edit
  <2> HIDE DEF f, e
  <2>8. Own(f, T)
    <3>1. Lost(e.local, g) \subseteq T /\ touched[t] \subseteq T
      BY DEF Lost, T, Changed, ChangedNodes
    <3> HIDE DEF T
    <3>2. Lost(e.base, g) \subseteq T /\ DOMAIN e.local.nodes \subseteq DOMAIN g.nodes \cup T
      BY <1>0, <3>1 DEF Own, Lost
    <3> QED BY <1>0, <2>2, <3>1, <3>2 DEF Own
  <2> HIDE DEF T
  <2>9. \A u \in Tabs : Own(tab'[u], touched'[u])
    BY <2>3, <2>4, <2>8 DEF OwnInv
  <2>10. \A u \in Tabs : orphan'[u] # None => orphan'[u].batch.delNodes \subseteq touched'[u]
    BY <2>4, <2>7 DEF OwnInv, T
  <2> QED BY <2>6, <2>9, <2>10 DEF OwnInv
<1>2. CASE Flush(t)
  <2>1. SaveNow(t, e) /\ UNCHANGED <<orphan, touched>>
    BY <1>2 DEF Flush
  <2> HIDE DEF e
  <2> QED BY <1>0, <2>1, SaveNowOwn
<1>3. CASE Leave(t)
  <2>1. UNCHANGED <<orphan, touched>>
    BY <1>3 DEF Leave
  <2>2. CASE e.dirty
    <3> DEFINE f == [e EXCEPT !.mode = "away"]
    <3>1. f \in TabTypes
      BY <1>0 DEF TabTypes
    <3>2. f.base = e.base /\ f.local = e.local /\ f.task = e.task /\ f.req = e.req
      BY <1>0 DEF TabTypes
    <3>3. SaveNow(t, f)
      BY <1>3, <2>2 DEF Leave
    <3> HIDE DEF f, e
    <3>4. Own(f, touched[t])
      BY <1>0, <3>2 DEF Own
    <3> QED BY <2>1, <3>1, <3>3, <3>4, SaveNowOwn
  <2>3. CASE ~e.dirty
    <3> DEFINE f == [e EXCEPT !.mode = "away", !.timer = FALSE]
    <3>2. f.base = e.base /\ f.local = e.local /\ f.task = e.task /\ f.req = e.req
      BY <1>0 DEF TabTypes
    <3>3. tab' = [tab EXCEPT ![t] = f]
      BY <1>3, <2>3 DEF Leave, AutosaveInv
    <3> HIDE DEF f, e
    <3>4. Own(f, touched[t])
      BY <1>0, <3>2 DEF Own
    <3> QED BY <2>1, <3>3, <3>4, OwnMoves
  <2> QED BY <2>2, <2>3
<1>4. CASE Reopen(t)
  <2>1. UNCHANGED <<orphan, touched>> /\ tab' = [tab EXCEPT ![t] = Opened(e.base, e.rev, e.received)]
    BY <1>4 DEF Reopen
  <2> HIDE DEF e
  <2> QED BY <2>1, OpenedOwn, OwnMoves
<1>5. CASE Reload(t)
  <2> DEFINE f == [Opened(FirstGraph, 0, {}) EXCEPT !.mode = "loading", !.task = "reading"]
  <2>1. /\ touched' = touched /\ tab' = [tab EXCEPT ![t] = f]
        /\ orphan' = IF e.task = "sent" THEN [orphan EXCEPT ![t] = e.req] ELSE orphan
    BY <1>5 DEF Reload
  <2>2. Own(f, touched[t])
    BY OpenedOwn
  <2> HIDE DEF f, e
  <2>3. \A u \in Tabs : orphan'[u] # None =>
                          orphan'[u] = orphan[u] \/ orphan'[u].batch.delNodes \subseteq touched[u]
    BY <1>0, <2>1 DEF Own
  <2> QED BY <2>1, <2>2, <2>3, OwnMoves
<1> QED BY <1>1, <1>2, <1>3, <1>4, <1>5 DEF UserNext

LEMMA AnswerOwn ==
  ASSUME AutosaveInv, OwnInv, NEW t \in Tabs, NEW reply, tab[t].task = "sent", Answer(t, reply)
  PROVE  \E f : tab' = [tab EXCEPT ![t] = f] /\ Own(f, touched[t]) /\ f.task = "answered"
<1> DEFINE e == tab[t]
           f == [e EXCEPT !.task = "answered", !.reply = reply]
<1>1. e \in TabTypes /\ Own(e, touched[t])
  BY TabShape DEF OwnInv
<1>2. f.base = e.base /\ f.local = e.local /\ f.task = "answered" /\ f.req = e.req
  BY <1>1 DEF TabTypes
<1>3. tab' = [tab EXCEPT ![t] = f]
  BY DEF Answer, AutosaveInv
<1>4. e.task = "sent"
  OBVIOUS
<1> HIDE DEF f, e
<1>5. Own(f, touched[t])
  BY <1>1, <1>2, <1>4 DEF Own
<1> QED BY <1>2, <1>3, <1>5

LEMMA ApiOwn ==
  ASSUME AutosaveInv, OwnInv, NEW t \in Tabs, ApiNext(t)
  PROVE  OwnInv'
<1>0. /\ tab[t] \in TabTypes /\ orphan \in [Tabs -> Requests \cup {None}]
      /\ Own(tab[t], touched[t])
  BY TabShape DEF OwnInv
<1>1. ASSUME NEW reply, tab[t].task = "sent", Answer(t, reply), touched' = touched,
             \A u \in Tabs : orphan'[u] # None =>
                           orphan'[u] = orphan[u] \/ orphan'[u].batch.delNodes \subseteq touched[u]
      PROVE  OwnInv'
  BY <1>1, AnswerOwn, OwnMoves
<1>2. CASE Commit(t)
  BY <1>1, <1>2 DEF Commit
<1>3. CASE Conflict(t)
  BY <1>1, <1>3 DEF Conflict
<1>4. CASE Refuse(t)
  BY <1>1, <1>4 DEF Refuse
<1>5. CASE Disconnect(t)
  <2>1. /\ tab[t].task = "sent" /\ Answer(t, "failed") /\ touched' = touched
        /\ orphan' = [orphan EXCEPT ![t] = tab[t].req]
    BY <1>5 DEF Disconnect
  <2>2. \A u \in Tabs : orphan'[u] # None =>
                          orphan'[u] = orphan[u] \/ orphan'[u].batch.delNodes \subseteq touched[u]
    BY <1>0, <2>1 DEF Own
  <2> QED BY <1>1, <2>1, <2>2
<1>6. ASSUME orphan' = [orphan EXCEPT ![t] = None], UNCHANGED <<tab, touched>>
      PROVE  OwnInv'
  BY <1>0, <1>6 DEF OwnInv
<1>7. CASE CommitOrphan(t)
  BY <1>6, <1>7 DEF CommitOrphan
<1>8. CASE DropOrphan(t)
  BY <1>6, <1>8 DEF DropOrphan
<1> QED BY <1>2, <1>3, <1>4, <1>5, <1>7, <1>8 DEF ApiNext

LEMMA ReadOwn ==
  ASSUME AutosaveInv, OwnInv, NEW t \in Tabs, ReadNext(t)
  PROVE  OwnInv'
<1> DEFINE e == tab[t]
<1>1. PICK q : /\ e.task = "reading" /\ UNCHANGED <<orphan, touched>>
               /\ tab' = [tab EXCEPT ![t] = [e EXCEPT !.read = q]]
  BY DEF ReadNext, ReadRevision, ReadNodes, ReadEdges, Reads, AutosaveInv
<1> DEFINE f == [e EXCEPT !.read = q]
<1>2. e \in TabTypes /\ Own(e, touched[t])
  BY TabShape DEF OwnInv
<1>3. f.base = e.base /\ f.local = e.local /\ f.task = "reading"
  BY <1>1, <1>2 DEF TabTypes
<1>4. tab' = [tab EXCEPT ![t] = f]
  BY <1>1
<1> HIDE DEF f, e
<1>5. Own(f, touched[t])
  BY <1>2, <1>3 DEF Own
<1> QED BY <1>1, <1>4, <1>5, OwnMoves

LEMMA SaveOwn ==
  ASSUME AutosaveInv, OwnInv, NEW t \in Tabs, SaveNext(t)
  PROVE  OwnInv'
<1> DEFINE e == tab[t]
<1>0. /\ e \in TabTypes /\ Pending(e) /\ Proper(server) /\ Fetched(e, server)
      /\ Own(e, touched[t]) /\ e.base \in Graphs /\ e.local \in Graphs
  BY TabShape DEF OwnInv, TabTypes
<1>1. CASE TimerFires(t)
  <2>1. SaveNow(t, e) /\ UNCHANGED <<orphan, touched>>
    BY <1>1 DEF TimerFires
  <2> HIDE DEF e
  <2> QED BY <1>0, <2>1, SaveNowOwn
<1>2. CASE ReceiveSaved(t)
  <2> DEFINE h == Replay(e.base, e.req.batch)
             k == e.req.base + 1
             R == e.received \ (e.req.batch.delNodes \cup DOMAIN e.req.batch.upNodes)
             q == [e EXCEPT !.base = h, !.rev = k, !.received = R]
  <2>1. e.task = "answered" /\ UNCHANGED <<orphan, touched>>
    BY <1>2 DEF ReceiveSaved
  <2>2. PICK f \in Loop(q) : tab' = [tab EXCEPT ![t] = f]
    BY <1>2 DEF ReceiveSaved, Committed
  <2>3. e.req \in Requests
    BY <1>0, <2>1 DEF Pending
  <2>4. e.req.batch \in Batch /\ e.req.base \in Nat
    BY <2>3 DEF Requests, Batch
  <2>5. h \in Graphs /\ k \in Nat /\ R \in SUBSET Nodes
    BY <1>0, <2>4, ReplayType DEF TabTypes
  <2>6. Lost(h, e.local) \subseteq touched[t]
    <3>1. DOMAIN h.nodes \subseteq DOMAIN e.base.nodes \cup DOMAIN e.req.batch.upNodes
      BY <1>0, <2>4, ReplayWrites
    <3>2. /\ DOMAIN e.req.batch.upNodes \subseteq DOMAIN e.local.nodes \cup touched[t]
          /\ Lost(e.base, e.local) \subseteq touched[t]
      BY <1>0, <2>1 DEF Own
    <3> HIDE DEF h
    <3> QED BY <3>1, <3>2 DEF Lost
  <2> HIDE DEF h, k, R
  <2>7. q \in TabTypes
    BY <1>0, <2>5 DEF TabTypes
  <2>8. q.base = h /\ q.local = e.local
    BY <1>0 DEF TabTypes
  <2> HIDE DEF q, e
  <2>9. Own(f, touched[t])
    BY <2>2, <2>6, <2>7, <2>8, LoopOwn
  <2> QED BY <2>1, <2>2, <2>9, OwnMoves
<1>3. CASE ReceiveConflict(t)
  <2>1. UNCHANGED <<orphan, touched>>
    BY <1>3 DEF ReceiveConflict
  <2>2. CASE e.conflicts + 1 > MaxReplays
    <3>1. tab' = [tab EXCEPT ![t] = Returned(e, "error")]
      BY <1>3, <2>2 DEF ReceiveConflict
    <3> HIDE DEF e
    <3> QED BY <1>0, <2>1, <3>1, ReturnedOwn, OwnMoves
  <2>3. CASE ~(e.conflicts + 1 > MaxReplays)
    <3> DEFINE f == [e EXCEPT !.task = "reading", !.status = "conflict", !.req = None,
                              !.reply = None, !.conflicts = @ + 1]
    <3>1. tab' = [tab EXCEPT ![t] = f]
      BY <1>3, <2>3 DEF ReceiveConflict
    <3>2. f.base = e.base /\ f.local = e.local /\ f.task = "reading"
      BY <1>0 DEF TabTypes
    <3> HIDE DEF f, e
    <3>3. Own(f, touched[t])
      BY <1>0, <3>2 DEF Own
    <3> QED BY <2>1, <3>1, <3>3, OwnMoves
  <2> QED BY <2>2, <2>3
<1>4. CASE ReceiveFailed(t)
  <2>1. tab' = [tab EXCEPT ![t] = Returned(e, "error")] /\ UNCHANGED <<orphan, touched>>
    BY <1>4 DEF ReceiveFailed
  <2> HIDE DEF e
  <2> QED BY <1>0, <2>1, ReturnedOwn, OwnMoves
<1>5. CASE Reconcile(t)
  <2> DEFINE g == GraphOf(e.read)
             d == Diff(e.base, e.local, e.received)
             h == Replay(g, d)
             q == [e EXCEPT !.local = h, !.base = g, !.received = DOMAIN g.nodes,
                            !.rev = e.read.rev, !.dirty = TRUE, !.timer = (e.mode = "open"), !.status = "unsaved"]
  <2>1. Complete(e.read) /\ UNCHANGED <<orphan, touched>>
    BY <1>5 DEF Reconcile
  <2>2. PICK f \in Loop(q) : tab' = [tab EXCEPT ![t] = f]
    BY <1>5 DEF Reconcile, Reconciled
  <2>3. g \in Graphs /\ e.read.rev \in Nat /\ DOMAIN g.nodes \in SUBSET Nodes
    BY <1>0, <2>1, ReadGraph DEF GraphOf
  <2>4. d \in Batch
    BY <1>0, DiffType
  <2>5. h \in Graphs
    BY <2>3, <2>4, ReplayType
  <2>6. Lost(g, h) \subseteq touched[t]
    <3>1. DOMAIN h.nodes = (DOMAIN g.nodes \ d.delNodes) \cup DOMAIN d.upNodes
      BY <2>3, <2>4, ReplayWrites
    <3>2. d.delNodes = Lost(e.base, e.local)
      BY DEF Lost, Diff
    <3> HIDE DEF g, h, d
    <3> QED BY <1>0, <3>1, <3>2 DEF Own, Lost
  <2> HIDE DEF g, h, d
  <2>7. q \in TabTypes
    BY <1>0, <2>3, <2>5 DEF TabTypes
  <2>8. q.base = g /\ q.local = h
    BY <1>0 DEF TabTypes
  <2> HIDE DEF q, e
  <2>9. Own(f, touched[t])
    BY <2>2, <2>6, <2>7, <2>8, LoopOwn
  <2> QED BY <2>1, <2>2, <2>9, OwnMoves
<1>6. CASE ReadFails(t)
  <2>1. tab' = [tab EXCEPT ![t] = Returned(e, "error")] /\ UNCHANGED <<orphan, touched>>
    BY <1>6 DEF ReadFails
  <2> HIDE DEF e
  <2> QED BY <1>0, <2>1, ReturnedOwn, OwnMoves
<1>7. CASE Open(t)
  <2>1. /\ tab' = [tab EXCEPT ![t] = Opened(GraphOf(e.read), e.read.rev, DOMAIN e.read.nodes)]
        /\ UNCHANGED <<orphan, touched>>
    BY <1>7 DEF Open
  <2> HIDE DEF e
  <2> QED BY <2>1, OpenedOwn, OwnMoves
<1> QED BY <1>1, <1>2, <1>3, <1>4, <1>5, <1>6, <1>7 DEF SaveNext

LEMMA InitOwn == Init => OwnInv
<1> SUFFICES ASSUME Init
             PROVE  OwnInv
  OBVIOUS
<1>1. /\ tab = [t \in Tabs |-> Opened(FirstGraph, 0, DOMAIN FirstGraph.nodes)]
      /\ orphan = [t \in Tabs |-> None] /\ touched = [t \in Tabs |-> {}]
  BY DEF Init
<1> QED BY <1>1, OpenedOwn DEF OwnInv

LEMMA NextOwn == AutosaveInv /\ OwnInv /\ [Next]_vars => OwnInv'
<1> SUFFICES ASSUME AutosaveInv, OwnInv, [Next]_vars
             PROVE  OwnInv'
  OBVIOUS
<1>1. CASE Next
  BY <1>1, UserOwn, ApiOwn, ReadOwn, SaveOwn DEF Next
<1>2. CASE UNCHANGED vars
  BY <1>2 DEF vars, OwnInv, Own
<1> QED BY <1>1, <1>2

\* The step of a request that is committed, and what it changes.
LEMMA CommitWrites ==
  ASSUME AutosaveInv, OwnInv, [Next]_vars, NEW t \in Tabs, Commits(t)
  PROVE  Lost(server.graph, server'.graph) \subseteq touched[t]
<1>1. server' # server /\ Proper(server) /\ server.graph \in Graphs
  BY DEF Commits, AutosaveInv, Proper, Row
<1>2. PICK u \in Tabs : Commit(u) \/ CommitOrphan(u)
  BY <1>1 DEF Next, vars, UserNext, ApiNext, ReadNext, SaveNext, Edit, Flush, Leave, Reopen,
     Reload, Conflict, Refuse, Disconnect, DropOrphan, ReadRevision, ReadNodes, ReadEdges,
     TimerFires, ReceiveSaved, ReceiveConflict, ReceiveFailed, Reconcile, ReadFails, Open
<1>3. /\ tab[u] \in TabTypes /\ Pending(tab[u]) /\ Own(tab[u], touched[u])
      /\ orphan \in [Tabs -> Requests \cup {None}]
      /\ orphan[u] # None => orphan[u].batch.delNodes \subseteq touched[u]
  BY TabShape DEF OwnInv
<1>4. ASSUME NEW req \in Requests, Transact(req), req.batch.delNodes \subseteq touched[u]
      PROVE  Lost(server.graph, server'.graph) \subseteq touched[u]
  <2>1. req.batch \in Batch
    BY DEF Requests, Batch
  <2>2. server'.graph = Applied(server.graph, req.batch)
    BY <1>4 DEF Transact
  <2> QED BY <1>1, <1>4, <2>1, <2>2, AppliedWrites
<1>5. CASE Commit(u)
  <2>1. tab[u].task = "sent" /\ Transact(tab[u].req) /\ orphan' = orphan
        /\ Answer(u, "saved")
    BY <1>5 DEF Commit
  <2>2. t = u
    BY <2>1 DEF Commits, Answer, AutosaveInv
  <2>3. tab[u].req \in Requests /\ tab[u].req.batch.delNodes \subseteq touched[u]
    BY <1>3, <2>1 DEF Pending, Own
  <2> QED BY <1>4, <2>1, <2>2, <2>3
<1>6. CASE CommitOrphan(u)
  <2>1. /\ orphan[u] # None /\ Transact(orphan[u]) /\ tab' = tab
        /\ orphan' = [orphan EXCEPT ![u] = None]
    BY <1>6 DEF CommitOrphan
  <2>2. t = u
    BY <1>3, <2>1 DEF Commits
  <2>3. orphan[u] \in Requests /\ orphan[u].batch.delNodes \subseteq touched[u]
    BY <1>3, <2>1
  <2> QED BY <1>4, <2>1, <2>2, <2>3
<1> QED BY <1>2, <1>5, <1>6

\* A save of useFlowAutosave deletes only nodes that the user of its tab has
\* changed, however many tabs conflict and whatever their reads mix.
THEOREM TabsKeepTheirNodes == Spec => DeletesOwnNodes
<1>1. Init => AutosaveInv /\ OwnInv
  BY InitAutosave, InitOwn
<1>2. AutosaveInv /\ OwnInv /\ [Next]_vars => AutosaveInv' /\ OwnInv'
  BY NextAutosave, NextOwn
<1>3. AutosaveInv /\ OwnInv /\ [Next]_vars =>
        [\A t \in Tabs : Commits(t) =>
           DOMAIN server.graph.nodes \ DOMAIN server'.graph.nodes \subseteq touched[t]]_vars
  BY CommitWrites DEF Lost
<1> QED BY <1>1, <1>2, <1>3, PTL DEF Spec, DeletesOwnNodes

=============================================================================
