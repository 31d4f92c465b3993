---------------------------- MODULE FlowAutosave ----------------------------
(***************************************************************************)
(* The autosave of a Flow graph: dashboard tabs that edit the same Flow    *)
(* and persist their edits as diffs against the graph they last saw, with  *)
(* the revision of that graph as a compare-and-swap, and the API that      *)
(* applies them.                                                           *)
(*                                                                         *)
(* A conflict (409) makes the tab read the graph again and replay its own  *)
(* edits over it.  The API reads the revision, the nodes and the edges of  *)
(* a graph with separate statements outside a transaction, so a read may   *)
(* mix two revisions; a tab may be left, reopened or reloaded, and an      *)
(* answer may be lost while its request is still running.                  *)
(*                                                                         *)
(* Data: a node is one of Values, an edge has fixed ends (reconnecting an  *)
(* edge under its old id is left out), an edit moves a tab to any graph of *)
(* Drafts.  The command saveNow with reconcileWithServer has no caller and *)
(* is left out, and so is the deletion of the Flow.                        *)
(***************************************************************************)
EXTENDS Naturals, FiniteSets

CONSTANTS Tabs,        \* dashboard tabs that have the Flow open
          Nodes, Values, Edges,
          Ends,        \* the nodes an edge connects
          Canon,       \* what the server makes of the data of a node
          Drafts,      \* the graphs an edit may produce
          FirstGraph,  \* the graph the tabs have loaded at first
          MaxEdits,    \* bound: edits of each tab
          MaxBreaks,   \* bound: times each tab is left, reloaded or cut off
          MaxRevision, \* bound: past it the API refuses requests
          MaxBatch,    \* FLOW_GRAPH_LIMITS.mutationsPerRequest
          MaxReplays,  \* MAX_FLOW_GRAPH_CONFLICT_REPLAYS
          None

-----------------------------------------------------------------------------
(* Graphs and diffs *)

NodeMaps == UNION {[N -> Values] : N \in SUBSET Nodes}

Graphs == [nodes : NodeMaps, edges : SUBSET Edges]

WellFormed(g) == \A x \in g.edges : Ends[x] \subseteq DOMAIN g.nodes

ASSUME AutosaveAssumption ==
  /\ IsFiniteSet(Nodes) /\ IsFiniteSet(Edges)
  /\ Ends \in [Edges -> SUBSET Nodes]
  /\ Canon \in [Values -> Values]
  /\ \A v \in Values : Canon[Canon[v]] = Canon[v]
  /\ Drafts \subseteq Graphs
  /\ FirstGraph \in Graphs /\ WellFormed(FirstGraph)
  /\ \A n \in DOMAIN FirstGraph.nodes :
       Canon[FirstGraph.nodes[n]] = FirstGraph.nodes[n]
  /\ \A g \in Drafts : WellFormed(g)
  /\ MaxEdits \in [Tabs -> Nat] /\ MaxBreaks \in [Tabs -> Nat]
  /\ MaxRevision \in Nat
  /\ MaxBatch \in Nat \ {0}
  /\ MaxReplays \in Nat

\* Nodes are compared by their JSON text, which follows the order of their
\* fields: a node as a response has it (received) never has the text of a node
\* as the canvas writes it, even when they are equal.
Differs(a, b, received, n) ==
  n \notin DOMAIN a.nodes \/ n \in received \/ a.nodes[n] # b.nodes[n]

\* What leads from graph a, with some nodes as received, to the canvas graph b.
Diff(a, b, received) ==
  [delEdges |-> a.edges \ b.edges,
   delNodes |-> DOMAIN a.nodes \ DOMAIN b.nodes,
   upNodes  |-> [n \in {k \in DOMAIN b.nodes : Differs(a, b, received, k)} |-> b.nodes[n]],
   upEdges  |-> b.edges \ a.edges]

NoNodes == [n \in {} |-> None]

Nothing == [delEdges |-> {}, delNodes |-> {}, upNodes |-> NoNodes, upEdges |-> {}]

Mutates(d) == d.delEdges # {} \/ d.delNodes # {} \/ DOMAIN d.upNodes # {} \/ d.upEdges # {}

Mutations(d) == Cardinality(d.delEdges) + Cardinality(d.delNodes)
                  + Cardinality(DOMAIN d.upNodes) + Cardinality(d.upEdges)

Slices(S) == {T \in SUBSET S : Cardinality(T) = MaxBatch \/ (T = S /\ Cardinality(S) < MaxBatch)}

\* The requests a diff may be cut into first: all of it, or a part of its
\* first nonempty kind of mutation.
Batches(d) ==
  IF Mutations(d) <= MaxBatch THEN {d}
  ELSE IF d.delEdges # {}
    THEN {[Nothing EXCEPT !.delEdges = S] : S \in Slices(d.delEdges)}
  ELSE IF d.delNodes # {}
    THEN {[Nothing EXCEPT !.delNodes = S] : S \in Slices(d.delNodes)}
  ELSE IF DOMAIN d.upNodes # {}
    THEN {[Nothing EXCEPT !.upNodes = [n \in S |-> d.upNodes[n]]] : S \in Slices(DOMAIN d.upNodes)}
  ELSE {[Nothing EXCEPT !.upEdges = S] : S \in Slices(d.upEdges)}

\* The nodes of a map after the node mutations of a diff.
Patched(nodes, d) ==
  [n \in (DOMAIN nodes \ d.delNodes) \cup DOMAIN d.upNodes |->
     IF n \in DOMAIN d.upNodes THEN d.upNodes[n] ELSE nodes[n]]

\* A diff replayed over a graph; edges that miss an end are dropped.
Replay(g, d) ==
  LET nodes == Patched(g.nodes, d)
  IN  [nodes |-> nodes,
       edges |-> {x \in (g.edges \ d.delEdges) \cup d.upEdges : Ends[x] \subseteq DOMAIN nodes}]

CanonNodes(nodes) == [n \in DOMAIN nodes |-> Canon[nodes[n]]]

-----------------------------------------------------------------------------
VARIABLES server,  \* the row of flows with its nodes and edges
          tab,     \* per tab: the canvas store, the refs of the hook, its save
          orphan,  \* per tab: a request whose answer nobody waits for
          edits,   \* per tab: edits made so far
          breaks,  \* per tab: times it was left, reloaded or cut off
          touched  \* history, per tab: the nodes and edges its user changed

vars == <<server, tab, orphan, edits, breaks, touched>>

Requests == [base : Nat, batch : [delEdges : SUBSET Edges, delNodes : SUBSET Nodes,
                                  upNodes : NodeMaps, upEdges : SUBSET Edges]]

NoRead == [rev |-> None, nodes |-> None, edges |-> None]

\* A tab that shows graph g at revision r; the nodes of its baseline that are
\* still as a response had them are "received".
Opened(g, r, received) ==
  [mode |-> "open", local |-> g, base |-> g, received |-> received, rev |-> r,
   dirty |-> FALSE, timer |-> FALSE, status |-> "saved", task |-> "idle", req |-> None, reply |-> None,
   conflicts |-> 0, read |-> NoRead]

Init ==
  /\ server = [rev |-> 0, graph |-> FirstGraph]
  /\ tab = [t \in Tabs |-> Opened(FirstGraph, 0, DOMAIN FirstGraph.nodes)]
  /\ orphan = [t \in Tabs |-> None]
  /\ edits = [t \in Tabs |-> 0]
  /\ breaks = [t \in Tabs |-> 0]
  /\ touched = [t \in Tabs |-> {}]

-----------------------------------------------------------------------------
(* The save loop of a tab, between two awaits *)

\* What is set when a save task returns.
Returned(e, status) == [e EXCEPT !.task = "idle", !.status = status, !.req = None,
                                 !.reply = None, !.conflicts = 0, !.read = NoRead]

\* The tabs that tab e may be at its next await: its edits are all saved, or
\* the next batch of them is on its way.
Loop(e) ==
  LET d == Diff(e.base, e.local, e.received)
  IN  IF ~Mutates(d)
      THEN {[Returned(e, "saved") EXCEPT !.dirty = FALSE, !.timer = FALSE]}
      ELSE {[e EXCEPT !.task = "sent", !.status = "saving", !.reply = None, !.read = NoRead,
                      !.req = [base |-> e.rev, batch |-> b]] : b \in Batches(d)}

\* saveNow: joins the save that is running, or starts one.
SaveNow(t, e) ==
  IF e.task = "idle"
  THEN \E f \in Loop([e EXCEPT !.timer = FALSE]) : tab' = [tab EXCEPT ![t] = f]
  ELSE tab' = [tab EXCEPT ![t] = [e EXCEPT !.timer = FALSE]]

-----------------------------------------------------------------------------
(* The user *)

\* The nodes, and the nodes and edges, in which two graphs differ.
ChangedNodes(a, b) ==
  {n \in DOMAIN a.nodes \cup DOMAIN b.nodes :
     \/ n \notin DOMAIN a.nodes \/ n \notin DOMAIN b.nodes
     \/ a.nodes[n] # b.nodes[n]}

Changed(a, b) == ChangedNodes(a, b) \cup (a.edges \ b.edges) \cup (b.edges \ a.edges)

\* Bound: a break counts against MaxBreaks.
Break(t) ==
  /\ breaks[t] < MaxBreaks[t]
  /\ breaks' = [breaks EXCEPT ![t] = @ + 1]

\* Every edit starts the delay of the autosave anew.
Edit(t) ==
  /\ tab[t].mode = "open"
  /\ edits[t] < MaxEdits[t]
  /\ \E g \in Drafts \ {tab[t].local} :
       /\ tab' = [tab EXCEPT ![t] = [@ EXCEPT !.local = g, !.dirty = TRUE, !.timer = TRUE,
                                               !.status = "unsaved"]]
       /\ touched' = [touched EXCEPT ![t] = @ \cup Changed(tab[t].local, g)]
  /\ edits' = [edits EXCEPT ![t] = @ + 1]
  /\ UNCHANGED <<server, orphan, breaks>>

\* The autosave delay passes.
TimerFires(t) ==
  /\ tab[t].timer
  /\ SaveNow(t, tab[t])
  /\ UNCHANGED <<server, orphan, edits, breaks, touched>>

\* The user retries a failed save, or starts a run, which saves first.
Flush(t) ==
  /\ tab[t].mode = "open" /\ tab[t].dirty
  /\ SaveNow(t, tab[t])
  /\ UNCHANGED <<server, orphan, edits, breaks, touched>>

\* The user leaves the editor: what is dirty is saved in the background.
Leave(t) ==
  /\ tab[t].mode = "open"
  /\ IF tab[t].dirty
     THEN SaveNow(t, [tab[t] EXCEPT !.mode = "away"])
     ELSE tab' = [tab EXCEPT ![t] = [@ EXCEPT !.mode = "away", !.timer = FALSE]]
  /\ Break(t)
  /\ UNCHANGED <<server, orphan, edits, touched>>

\* The editor is opened again, from the query cache, once no background save
\* runs; edits whose background save failed are gone.
Reopen(t) ==
  /\ tab[t].mode = "away" /\ tab[t].task = "idle"
  /\ tab' = [tab EXCEPT ![t] = Opened(tab[t].base, tab[t].rev, tab[t].received)]
  /\ UNCHANGED <<server, orphan, edits, breaks, touched>>

\* The page is reloaded; a request on its way keeps running.
Reload(t) ==
  /\ tab[t].mode # "loading"
  /\ tab[t].task = "sent" => orphan[t] = None
  /\ orphan' = IF tab[t].task = "sent" THEN [orphan EXCEPT ![t] = tab[t].req] ELSE orphan
  /\ tab' = [tab EXCEPT ![t] = [Opened(FirstGraph, 0, {}) EXCEPT !.mode = "loading",
                                                             !.task = "reading"]]
  /\ Break(t)
  /\ UNCHANGED <<server, edits, touched>>

-----------------------------------------------------------------------------
(* The API: syncFlowGraph *)

\* The graph after a validated request: nodes are written in canonical form
\* and the edges of a deleted node go with it.
Applied(g, d) ==
  [nodes |-> LET nodes == Patched(g.nodes, d)
             IN  [n \in DOMAIN nodes |->
                    IF n \in DOMAIN d.upNodes THEN Canon[nodes[n]] ELSE nodes[n]],
   edges |-> {x \in g.edges \ d.delEdges : Ends[x] \cap d.delNodes = {}} \cup d.upEdges]

Valid(g, d) == \A x \in d.upEdges : Ends[x] \subseteq DOMAIN Patched(g.nodes, d)

\* The transaction of a request: its revision must be the current one.
Transact(req) ==
  /\ server.rev < MaxRevision
  /\ req.base = server.rev
  /\ Valid(server.graph, req.batch)
  /\ server' = [rev |-> server.rev + 1, graph |-> Applied(server.graph, req.batch)]

Answer(t, reply) ==
  tab' = [tab EXCEPT ![t] = [@ EXCEPT !.task = "answered", !.reply = reply]]

\* The request of a tab is committed, and answered.
Commit(t) ==
  /\ tab[t].task = "sent"
  /\ Transact(tab[t].req)
  /\ Answer(t, "saved")
  /\ UNCHANGED <<orphan, edits, breaks, touched>>

\* The revision has moved.
Conflict(t) ==
  /\ tab[t].task = "sent"
  /\ tab[t].req.base # server.rev
  /\ Answer(t, "conflict")
  /\ UNCHANGED <<server, orphan, edits, breaks, touched>>

\* The request never arrives or is refused (validation, limits).
Refuse(t) ==
  /\ tab[t].task = "sent"
  /\ Answer(t, "failed")
  /\ UNCHANGED <<server, orphan, edits, breaks, touched>>

\* The connection breaks: the request may still be committed, now or later.
Disconnect(t) ==
  /\ tab[t].task = "sent" /\ orphan[t] = None
  /\ orphan' = [orphan EXCEPT ![t] = tab[t].req]
  /\ Answer(t, "failed")
  /\ Break(t)
  /\ UNCHANGED <<server, edits, touched>>

\* The request nobody waits for is committed, or comes to nothing.
CommitOrphan(t) ==
  /\ orphan[t] # None
  /\ Transact(orphan[t])
  /\ orphan' = [orphan EXCEPT ![t] = None]
  /\ UNCHANGED <<tab, edits, breaks, touched>>

DropOrphan(t) ==
  /\ orphan[t] # None
  /\ orphan' = [orphan EXCEPT ![t] = None]
  /\ UNCHANGED <<server, tab, edits, breaks, touched>>

-----------------------------------------------------------------------------
(* The answer of a request, in performSave *)

\* The batch, as the canvas wrote it, becomes part of the baseline.
Committed(e) ==
  [e EXCEPT !.base = Replay(e.base, e.req.batch), !.rev = e.req.base + 1,
            !.received = @ \ (e.req.batch.delNodes \cup DOMAIN e.req.batch.upNodes)]

\* Then the loop goes on.
ReceiveSaved(t) ==
  LET e == tab[t]
  IN  /\ e.task = "answered" /\ e.reply = "saved"
      /\ \E f \in Loop(Committed(e)) : tab' = [tab EXCEPT ![t] = f]
      /\ UNCHANGED <<server, orphan, edits, breaks, touched>>

\* Mutation: the last conflict ends the save without an error.
ReceiveConflictQuiet(t) ==
  LET e == tab[t]
  IN  /\ e.task = "answered" /\ e.reply = "conflict"
      /\ tab' = [tab EXCEPT ![t] =
                   IF e.conflicts + 1 > MaxReplays THEN Returned(e, "unsaved")
                   ELSE [e EXCEPT !.task = "reading", !.status = "conflict", !.req = None,
                                  !.reply = None, !.conflicts = @ + 1]]
      /\ UNCHANGED <<server, orphan, edits, breaks, touched>>

\* The graph is read again, at most MaxReplays times in one save.
ReceiveConflict(t) ==
  LET e == tab[t]
  IN  /\ e.task = "answered" /\ e.reply = "conflict"
      /\ tab' = [tab EXCEPT ![t] =
                   IF e.conflicts + 1 > MaxReplays THEN Returned(e, "error")
                   ELSE [e EXCEPT !.task = "reading", !.status = "conflict", !.req = None,
                                  !.reply = None, !.conflicts = @ + 1]]
      /\ UNCHANGED <<server, orphan, edits, breaks, touched>>

\* The save gives up; the edits stay in the tab.
ReceiveFailed(t) ==
  /\ tab[t].task = "answered" /\ tab[t].reply = "failed"
  /\ tab' = [tab EXCEPT ![t] = Returned(tab[t], "error")]
  /\ UNCHANGED <<server, orphan, edits, breaks, touched>>

-----------------------------------------------------------------------------
(* Reading the graph: one statement for the row, then two at once for nodes *)
(* and edges                                                                *)

\* What the read of a tab has so far.
Reads(t, read) == tab' = [tab EXCEPT ![t] = [@ EXCEPT !.read = read]]

ReadRevision(t) ==
  /\ tab[t].task = "reading" /\ tab[t].read.rev = None
  /\ Reads(t, [NoRead EXCEPT !.rev = server.rev])
  /\ UNCHANGED <<server, orphan, edits, breaks, touched>>

ReadNodes(t) ==
  /\ tab[t].task = "reading" /\ tab[t].read.rev # None /\ tab[t].read.nodes = None
  /\ Reads(t, [tab[t].read EXCEPT !.nodes = server.graph.nodes])
  /\ UNCHANGED <<server, orphan, edits, breaks, touched>>

ReadEdges(t) ==
  /\ tab[t].task = "reading" /\ tab[t].read.rev # None /\ tab[t].read.edges = None
  /\ Reads(t, [tab[t].read EXCEPT !.edges = server.graph.edges])
  /\ UNCHANGED <<server, orphan, edits, breaks, touched>>

Complete(read) == read.nodes # None /\ read.edges # None

GraphOf(read) == [nodes |-> read.nodes, edges |-> read.edges]

\* Mutation: the revision is the one of the end of the read.
ReconciledLate(e) ==
  LET g == GraphOf(e.read)
  IN  [e EXCEPT !.local = Replay(g, Diff(e.base, e.local, e.received)), !.base = g,
                !.received = DOMAIN g.nodes, !.rev = server.rev,
                !.dirty = TRUE, !.timer = (e.mode = "open"), !.status = "unsaved"]

\* Mutation: the graph shown is not merged with what was read.
ReconciledUnmerged(e) ==
  [e EXCEPT !.base = GraphOf(e.read), !.received = DOMAIN e.read.nodes, !.rev = e.read.rev,
            !.dirty = TRUE, !.timer = (e.mode = "open"), !.status = "unsaved"]

\* What the tab has that its baseline does not have, edits made during the
\* read included, replayed over what was read.
Reconciled(e) ==
  LET g == GraphOf(e.read)
  IN  [e EXCEPT !.local = Replay(g, Diff(e.base, e.local, e.received)), !.base = g,
                !.received = DOMAIN g.nodes, !.rev = e.read.rev,
                !.dirty = TRUE, !.timer = (e.mode = "open"), !.status = "unsaved"]

\* The answer of the read in a save: the loop goes on from the merged graph.
Reconcile(t) ==
  /\ tab[t].mode # "loading" /\ tab[t].task = "reading" /\ Complete(tab[t].read)
  /\ \E f \in Loop(Reconciled(tab[t])) : tab' = [tab EXCEPT ![t] = f]
  /\ UNCHANGED <<server, orphan, edits, breaks, touched>>

\* The read of a save fails.
ReadFails(t) ==
  /\ tab[t].mode # "loading" /\ tab[t].task = "reading"
  /\ tab' = [tab EXCEPT ![t] = Returned(tab[t], "error")]
  /\ UNCHANGED <<server, orphan, edits, breaks, touched>>

\* The editor opens on the graph it has loaded.
Open(t) ==
  /\ tab[t].mode = "loading" /\ Complete(tab[t].read)
  /\ tab' = [tab EXCEPT ![t] = Opened(GraphOf(tab[t].read), tab[t].read.rev,
                                            DOMAIN tab[t].read.nodes)]
  /\ UNCHANGED <<server, orphan, edits, breaks, touched>>

-----------------------------------------------------------------------------
UserNext(t) == Edit(t) \/ Flush(t) \/ Leave(t) \/ Reopen(t) \/ Reload(t)

ApiNext(t) == Commit(t) \/ Conflict(t) \/ Refuse(t) \/ Disconnect(t)
              \/ CommitOrphan(t) \/ DropOrphan(t)

ReadNext(t) == ReadRevision(t) \/ ReadNodes(t) \/ ReadEdges(t)

SaveNext(t) == TimerFires(t) \/ ReceiveSaved(t) \/ ReceiveConflict(t) \/ ReceiveFailed(t)
               \/ Reconcile(t) \/ ReadFails(t) \/ Open(t)

Next == \E t \in Tabs : UserNext(t) \/ ApiNext(t) \/ ReadNext(t) \/ SaveNext(t)

Spec == Init /\ [][Next]_vars

\* Timers fire, requests are answered, reads complete and the tab runs its
\* callbacks; the user need not do anything.
Fairness ==
  \A t \in Tabs : /\ WF_vars(Commit(t) \/ Conflict(t) \/ Refuse(t) \/ Disconnect(t))
                  /\ WF_vars(ReadNext(t))
                  /\ WF_vars(SaveNext(t))

FairSpec == Spec /\ Fairness

-----------------------------------------------------------------------------
(* Properties *)

\* Every variable has its type, and the server holds a graph whose edges have
\* both ends and whose nodes are canonical.
TabTypes ==
  [mode : {"open", "away", "loading"}, local : Graphs, base : Graphs,
   received : SUBSET Nodes, rev : Nat,
   dirty : BOOLEAN, timer : BOOLEAN,
   status : {"saved", "unsaved", "saving", "conflict", "error"},
   task : {"idle", "sent", "answered", "reading"},
   req : Requests \cup {None}, reply : {None, "saved", "failed", "conflict"},
   conflicts : 0 .. MaxReplays,
   read : [rev : Nat \cup {None}, nodes : NodeMaps \cup {None},
           edges : (SUBSET Edges) \cup {None}]]

TypeOK ==
  /\ server \in [rev : Nat, graph : Graphs]
  /\ WellFormed(server.graph)
  /\ CanonNodes(server.graph.nodes) = server.graph.nodes
  /\ tab \in [Tabs -> TabTypes]
  /\ orphan \in [Tabs -> Requests \cup {None}]

Shows(g) == CanonNodes(g.nodes) = server.graph.nodes /\ g.edges = server.graph.edges

\* A tab that says its graph is saved, and knows the current revision, shows
\* the graph of the server: no mix of revisions, lost answer, late request or
\* replay makes it claim a revision whose graph it does not have.  This is
\* what a run relies on that is started at the revision saveNow returns.
SavedIsServer ==
  \A t \in Tabs :
    tab[t].mode = "open" /\ ~tab[t].dirty /\ tab[t].rev = server.rev => Shows(tab[t].local)

\* The request of a tab, committed by this step.
Commits(t) ==
  /\ server'.rev # server.rev
  /\ \/ tab[t].task = "sent" /\ tab'[t].task = "answered"
     \/ orphan[t] # None /\ orphan'[t] = None

\* A save deletes only nodes its user has changed: whatever two tabs do and
\* however their reads are torn, a conflict never makes one tab delete the
\* nodes another has added.
DeletesOwnNodes ==
  [][\A t \in Tabs : Commits(t) =>
       DOMAIN server.graph.nodes \ DOMAIN server'.graph.nodes \subseteq touched[t]]_vars

\* After a conflict the tab "refetches GET /graph and replays its local
\* changes": a save changes only nodes its user has changed.  It does not hold:
\* every node a tab has loaded differs, as JSON text, from the node its canvas
\* writes, so the replay also writes the nodes its user never touched, over
\* what another tab has made of them.
SavesOwnNodes ==
  [][\A t \in Tabs : Commits(t) =>
       ChangedNodes(server.graph, server'.graph) \subseteq touched[t]]_vars

\* Edits reach the server: a dirty tab is saved, shows an error or is
\* reloaded; the autosave never leaves it dirty with nothing to run.
EditsReachServer ==
  \A t \in Tabs :
    tab[t].dirty ~> ~tab[t].dirty \/ tab[t].status = "error"

=============================================================================
