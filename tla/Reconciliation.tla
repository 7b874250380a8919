-------------------------- MODULE Reconciliation --------------------------
(***************************************************************************)
(* reconcileWorkspaces (workspace-sync.ts) on whole workspaces.  The       *)
(* author works in one account on two sides, on this device and, through   *)
(* another one, on the server, both from the same base; then this device   *)
(* merges.  The edits are those of App.tsx, so that the merge is given the *)
(* workspaces the application produces and no others.                      *)
(***************************************************************************)
EXTENDS Integers, Sequences, SequencesExt, FiniteSets, Reconcile

CONSTANTS
    Doc, Block, Connection, Snapshot, Annotation,   \* ids that the sides may hand out
    Base,           \* the workspace both sides start from
    MaxEdits,       \* bound on the edits of each side
    NoResult        \* reconcileWorkspaces threw: the schema rejects its result

VARIABLES
    local, server,  \* the two sides' workspaces
    edits,          \* how many edits each side has made
    merged          \* << >>, then <<what reconcileWorkspaces returned>>

vars == <<local, server, edits, merged>>

-----------------------------------------------------------------------------
(* Workspaces.  What matters of a document's words is which side wrote     *)
(* them last (every edit stamps updatedAt, so no two sides' are the same); *)
(* its title is "full" when the suffix of a copy exceeds 300 characters.   *)
(* settings holds what is merged field by field, "active" (the document    *)
(* that is open) among it.  An annotation is the block it comments on.     *)

Side == {"local", "server"}

BlocksOf(w, d) == ToSet(w.documents[d].blocks)
Ends(w, c) == {w.connections[c].from, w.connections[c].to}

Document == [words : Side \cup {"base"}, title : {"short", "full"}, blocks : Seq(Block)]
Collection(C, ids, values) == DOMAIN C \subseteq ids /\ C \in [DOMAIN C -> values]
Typed(w) ==
    /\ w = [documents |-> w.documents, connections |-> w.connections, annotations |-> w.annotations,
            snapshots |-> w.snapshots, settings |-> w.settings]
    /\ Collection(w.documents, Doc, Document)
    /\ Collection(w.connections, Connection, [from : Block, to : Block])
    /\ Collection(w.annotations, Annotation, Block)
    /\ Collection(w.snapshots, Snapshot, [document : Doc, blocks : SUBSET Block])

(* A block is in one document, once.  Connections and snapshots of the     *)
(* application stay within one document.                                   *)
ASSUME BaseAssumption ==
    /\ Typed(Base)
    /\ \A d \in DOMAIN Base.documents :
          /\ Base.documents[d].words = "base"
          /\ Base.documents[d].blocks # << >> /\ IsInjective(Base.documents[d].blocks)
          /\ \A e \in DOMAIN Base.documents \ {d} : BlocksOf(Base, d) \cap BlocksOf(Base, e) = {}
    /\ \A c \in DOMAIN Base.connections :
          \E d \in DOMAIN Base.documents : Ends(Base, c) \subseteq BlocksOf(Base, d)
    /\ "active" \in DOMAIN Base.settings
    /\ \A p \in DOMAIN Base.snapshots :
          /\ Base.snapshots[p].document \in DOMAIN Base.documents
          /\ Base.snapshots[p].blocks \subseteq BlocksOf(Base, Base.snapshots[p].document)

(* The id that a conflict copy is given is nobody's (crypto.randomUUID).   *)
ASSUME CopiesAreNew ==
    /\ Doc \cap (Doc \X {1}) = {} /\ Snapshot \cap (Snapshot \X {1}) = {}
    /\ Connection \cap ((Connection \X {1}) \cup (Doc \X {2})) = {}

(* undefined is no document, no connection and no snapshot.                *)
ASSUME AbsentIsNotStored ==
    Absent \notin Document \cup [from : Block, to : Block] \cup [document : Doc, blocks : SUBSET Block]

Taken(w) == DOMAIN w.documents \cup DOMAIN w.connections \cup DOMAIN w.snapshots \cup DOMAIN w.annotations
              \cup UNION {BlocksOf(w, d) : d \in DOMAIN w.documents}
NewIn(S) == S \ (Taken(Base) \cup Taken(local) \cup Taken(server))

Without(C, ids) == [x \in DOMAIN C \ ids |-> C[x]]
Put(C, x, v) == With(C, [y \in {x} |-> v])

-----------------------------------------------------------------------------
(* Edits of one workspace w by side s (App.tsx): the results they may have.*)

Wrote(w, s, d) == [w EXCEPT !.documents[d].words = s]
Retitled(w, s, d) == [w EXCEPT !.documents[d].words = s, !.documents[d].title = "full"]

Branched(w, s, d, parent, b, c) ==
    [w EXCEPT !.documents[d].words = s,
              !.documents[d].blocks = Append(@, b),
              !.connections = Put(@, c, [from |-> parent, to |-> b])]

(* deleteBlock: its connections and annotations go with it and snapshots   *)
(* no longer list it; a document that would be empty gets a blank block r. *)
Position(w, d, b) == CHOOSE i \in DOMAIN w.documents[d].blocks : w.documents[d].blocks[i] = b
BlockDeleted(w, s, d, b, r) ==
    [documents   |-> [w.documents EXCEPT ![d].words = s,
                        ![d].blocks = IF Len(@) = 1 THEN <<r>> ELSE RemoveAt(@, Position(w, d, b))],
     connections |-> Without(w.connections, {c \in DOMAIN w.connections : b \in Ends(w, c)}),
     annotations |-> Without(w.annotations, {a \in DOMAIN w.annotations : w.annotations[a] = b}),
     snapshots   |-> [p \in DOMAIN w.snapshots |-> [w.snapshots[p] EXCEPT !.blocks = @ \ {b}]],
     settings    |-> w.settings]

Snapped(w, d, p) ==
    [w EXCEPT !.snapshots = Put(@, p, [document |-> d, blocks |-> BlocksOf(w, d)])]

Created(w, s, d, b) ==
    [w EXCEPT !.documents = Put(@, d, [words |-> s, title |-> "short", blocks |-> <<b>>]),
              !.settings["active"] = d]

Annotated(w, b, a) == [w EXCEPT !.annotations = Put(@, a, b)]

Configured(w, s, f) == [w EXCEPT !.settings[f] = s]

(* The schema rejects a snapshot without blocks before a merge sees it.    *)
Saveable(w) == \A p \in DOMAIN w.snapshots : w.snapshots[p].blocks # {}

Edited(w, s) ==
    {v \in
       {Wrote(w, s, d) : d \in DOMAIN w.documents}
       \cup {Retitled(w, s, d) : d \in DOMAIN w.documents}
       \cup (UNION {{Branched(w, s, d, q, b, c) : q \in BlocksOf(w, d), b \in NewIn(Block), c \in NewIn(Connection)}
                       : d \in DOMAIN w.documents})
       \cup (UNION {{BlockDeleted(w, s, d, b, r) : b \in BlocksOf(w, d), r \in NewIn(Block)}
                       : d \in DOMAIN w.documents})
       \cup {Snapped(w, d, p) : d \in DOMAIN w.documents, p \in NewIn(Snapshot)}
       \cup {Created(w, s, d, b) : d \in NewIn(Doc), b \in NewIn(Block)}
       \cup {Annotated(w, b, a) : b \in UNION {BlocksOf(w, d) : d \in DOMAIN w.documents}, a \in NewIn(Annotation)}
       \cup {Configured(w, s, f) : f \in DOMAIN w.settings}
     : Saveable(v)}

-----------------------------------------------------------------------------
(* reconcileWorkspaces(server, local, base).                               *)

Conf == Conflicts(server.documents, local.documents, Base.documents)

Unmapped(d, b) == b          \* mutant
Copied(d, b) == IF b \in BlocksOf(local, d) THEN Fresh(b, 1) ELSE b

CopiedDocuments ==
    [y \in {Fresh(d, 1) : d \in Conf} |->
        [local.documents[Original(y)] EXCEPT !.blocks = [i \in DOMAIN @ |-> Fresh(@[i], 1)]]]

(* The connections and snapshots of the device that touch the blocks of a  *)
(* conflicting document, and that document.                                *)
Touching(d) == {c \in DOMAIN local.connections : Ends(local, c) \cap BlocksOf(local, d) # {}}
Showing(d) == {p \in DOMAIN local.snapshots : local.snapshots[p].blocks \cap BlocksOf(local, d) # {}}
MovedConnections == UNION {Touching(d) : d \in Conf}
MovedSnapshots == UNION {Showing(d) : d \in Conf}

CopiedConnections ==
    [y \in {Fresh(c, 1) : c \in MovedConnections} |->
        LET c == Original(y)
            d == CHOOSE x \in Conf : c \in Touching(x)
        IN [from |-> Copied(d, local.connections[c].from), to |-> Copied(d, local.connections[c].to)]]

CopiedSnapshots ==
    [y \in {Fresh(p, 1) : p \in MovedSnapshots} |->
        LET p == Original(y)
            d == CHOOSE x \in Conf : p \in Showing(x)
        IN [document |-> Fresh(d, 1), blocks |-> {Copied(d, b) : b \in local.snapshots[p].blocks}]]

(* Every copy is linked from its first block to the server's first block.  *)
Links ==
    [y \in {Fresh(d, 2) : d \in Conf \cap DOMAIN server.documents} |->
        LET d == Original(y)
        IN [from |-> Fresh(Head(local.documents[d].blocks), 1), to |-> Head(server.documents[d].blocks)]]

ReconciledConnections ==
    ThreeWay(With(With(server.connections, CopiedConnections), Links),
             Without(local.connections, MovedConnections),
             Without(Base.connections, MovedConnections))

ReconciledSnapshots ==
    ThreeWay(With(server.snapshots, CopiedSnapshots),
             Without(local.snapshots, MovedSnapshots),
             Without(Base.snapshots, MovedSnapshots))

(* The title of a copy, with its suffix, must fit the schema.              *)
Parses == \A d \in Conf : local.documents[d].title # "full"

Reconciled ==
    IF Parses
    THEN [documents   |-> With(ThreeWay(server.documents, local.documents, Base.documents), CopiedDocuments),
          connections |-> ReconciledConnections,
          annotations |-> ThreeWay(server.annotations, local.annotations, Base.annotations),
          snapshots   |-> ReconciledSnapshots,
          settings    |-> ThreeWay(server.settings, local.settings, Base.settings)]
    ELSE NoResult

-----------------------------------------------------------------------------

Init ==
    /\ local = Base /\ server = Base
    /\ edits = [s \in Side |-> 0]
    /\ merged = << >>

Count(s) ==
    /\ merged = << >>
    /\ edits[s] < MaxEdits
    /\ edits' = [edits EXCEPT ![s] = @ + 1]

EditHere == Count("local") /\ local' \in Edited(local, "local") /\ UNCHANGED <<server, merged>>
EditThere == Count("server") /\ server' \in Edited(server, "server") /\ UNCHANGED <<local, merged>>

Merge ==
    /\ merged = << >>
    /\ merged' = <<Reconciled>>
    /\ UNCHANGED <<local, server, edits>>

Next == EditHere \/ EditThere \/ Merge

Spec == Init /\ [][Next]_vars

-----------------------------------------------------------------------------
(* Properties of a merge that returned.                                    *)

Returned == merged # << >> /\ merged # <<NoResult>>
M == merged[1]

(* An author's words are never dropped, blended or overwritten: a document *)
(* this device changed is in the result as it is here, under its own id or *)
(* as a conflict copy, and one the server changed is there as it was on    *)
(* the server.                                                             *)
WordsSurvive ==
    Returned =>
        /\ \A d \in DOMAIN local.documents : Changed(local.documents, Base.documents, d) =>
              \E x \in DOMAIN M.documents :
                 /\ M.documents[x].words = local.documents[d].words
                 /\ \/ x = d /\ M.documents[x].blocks = local.documents[d].blocks
                    \/ x = Fresh(d, 1) /\ Len(M.documents[x].blocks) = Len(local.documents[d].blocks)
        /\ \A d \in DOMAIN server.documents : Changed(server.documents, Base.documents, d) =>
              At(M.documents, d) = server.documents[d]

(* Independent changes combine: a copy exists only of a document that both *)
(* sides really changed, and a setting or an annotation that one side      *)
(* changed, added or removed is as that side left it.                      *)
OneSided(C, s, l, b) ==
    \A x \in DOMAIN s \cup DOMAIN l \cup DOMAIN b :
        At(C, x) = IF Changed(s, b, x) THEN At(s, x) ELSE At(l, x)

IndependentChangesCombine ==
    Returned =>
        /\ \A x \in DOMAIN M.documents \ Doc :
              /\ local.documents[Original(x)].words = "local"
              /\ server.documents[Original(x)].words = "server"
        /\ OneSided(M.settings, server.settings, local.settings, Base.settings)
        /\ OneSided(M.annotations, server.annotations, local.annotations, Base.annotations)

(* What hangs on the device's words moves with them: every connection of a *)
(* changed document has one in the result between the blocks that hold its *)
(* words, every snapshot of it shows as many of those blocks, and no       *)
(* connection has an end that no document of the result holds.             *)
Held(w) == UNION {BlocksOf(w, d) : d \in DOMAIN w.documents}

StructureSurvives ==
    Returned =>
        /\ \A d \in DOMAIN local.documents : Changed(local.documents, Base.documents, d) =>
              \E x \in {d, Fresh(d, 1)} \cap DOMAIN M.documents :
                 /\ M.documents[x].words = "local"
                 /\ \A c \in Touching(d) : \E y \in DOMAIN M.connections : Ends(M, y) \subseteq BlocksOf(M, x)
                 /\ \A p \in Showing(d) : \E q \in DOMAIN M.snapshots :
                       /\ M.snapshots[q].document = x /\ M.snapshots[q].blocks \subseteq BlocksOf(M, x)
                       /\ Cardinality(M.snapshots[q].blocks) = Cardinality(local.snapshots[p].blocks)
        /\ \A y \in DOMAIN M.connections : Ends(M, y) \subseteq Held(M)

(* The version of the server is preserved as it is, with the connections   *)
(* between its blocks, whatever this device did to its own version.        *)
ServerVersionIntact ==
    Returned =>
        \A d \in Conf \cap DOMAIN server.documents, c \in DOMAIN server.connections :
            Ends(server, c) \subseteq BlocksOf(server, d) => At(M.connections, c) = server.connections[c]
=============================================================================
