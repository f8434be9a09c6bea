--------------------------- MODULE EntityExplorer ---------------------------
(***************************************************************************)
(* The Explorer tab of the Hub Explorer: the table of a container          *)
(* (explorer/src/explorer.ts) and the entity editor beside it              *)
(* (entity-editor.ts).  Both send REST requests and go on with the answer  *)
(* when it arrives, in any order, to whatever the page shows by then.      *)
(*                                                                         *)
(* One handler, or the part of it up to the next answer, is one step.  A   *)
(* pending request carries what its handler captured.  Entities are their  *)
(* ids; the text of the editor is what it is about: entities of a          *)
(* container, the result of a command, or nothing.  One database.          *)
(***************************************************************************)
EXTENDS Integers, Sequences, FiniteSets, Functions, SequencesExt

CONSTANTS
    Containers,
    Ids,
    Command,            \* stands for the command in place of a container
    None,
    MaxRequests         \* bound: REST requests the page sends

ASSUME EntityExplorerAssumption ==
    /\ Command \notin Containers /\ None \notin Containers /\ Command # None
    /\ MaxRequests \in Nat

VARIABLES
    explorer,           \* the explorer record; n is its load request, ver the
                        \* answered one (0: none), as each makes a new object
    explorerTable,      \* the shown table: its number (0 is null), its container
    explorerRows,       \* rows by id: the container of the values, their table
    selectedRows,       \* ids of the selected rows
    entityIdentity,     \* what Save and Delete act on; n is its load request
    editor,             \* the text of the editor: what it is about, and its ids
    header,             \* container and ids above the editor
    activeExplorerEditor,
    entityHistory,
    entityHistoryPos,   \* from 1; 0 is the -1 of the code
    pending,            \* requests without an answer
    sent,               \* number of requests sent so far
    astray              \* history: a handler ran for another container or entity
                        \* than the page had at that time

tableVars  == <<explorer, explorerTable, explorerRows, selectedRows>>
editorVars == <<entityIdentity, editor, header, activeExplorerEditor>>
historyVars == <<entityHistory, entityHistoryPos>>
vars == <<tableVars, editorVars, historyVars, pending, sent, astray>>

Shown == Containers \cup {Command, None}
ExplorerType == [n : 0..sent, ver : 0..sent, container : Containers \cup {None},
                 cursor : BOOLEAN, loadMorePending : BOOLEAN]

NoTable == [n |-> 0, container |-> None]
Text(about, ids) == [about |-> about, ids |-> ids]
Header(container, ids) == [container |-> container, ids |-> ids]
Identity(n, container, ids) == [n |-> n, container |-> container, ids |-> ids]

\* A request with what its continuation needs, and its number.
Send(request) ==
    /\ sent < MaxRequests
    /\ sent' = sent + 1
    /\ pending' = pending \cup {request}

Answered(r) ==
    /\ r \in pending
    /\ pending' = pending \ {r}
    /\ UNCHANGED sent

Init ==
    /\ explorer = [n |-> 0, ver |-> 0, container |-> None,
                   cursor |-> FALSE, loadMorePending |-> FALSE]
    /\ explorerTable = NoTable
    /\ explorerRows = << >>
    /\ selectedRows = {}
    /\ entityIdentity = Identity(0, None, {})
    /\ editor = Text(None, {})
    /\ header = Header(None, {})
    /\ activeExplorerEditor = "dbInfo"
    /\ entityHistory = <<>>
    /\ entityHistoryPos = 0
    /\ pending = {}
    /\ sent = 0
    /\ astray = FALSE

-----------------------------------------------------------------------------
(***************************************************************************)
(* The table.                                                              *)
(***************************************************************************)
\* Mutant: the rows of the table before are kept.
InitExplorer_Rows(n, container) ==
    /\ explorer' = [n |-> n, ver |-> 0,
                    container |-> container, cursor |-> FALSE, loadMorePending |-> FALSE]
    /\ explorerTable' = NoTable
    /\ selectedRows' = {}
    /\ UNCHANGED explorerRows

\* initExplorer()
InitExplorer(n, container) ==
    /\ explorer' = [n |-> n, ver |-> 0,
                    container |-> container, cursor |-> FALSE, loadMorePending |-> FALSE]
    /\ explorerTable' = NoTable
    /\ explorerRows' = << >>
    /\ selectedRows' = {}

\* updateEntitiesInternal(): rows of unknown ids are added to the table.
\* Without a table that throws, when the rows are in the map already.
RowsWith(container, ids, table) ==
    [id \in DOMAIN explorerRows \cup ids |->
       [container |-> IF id \in ids THEN container ELSE explorerRows[id].container,
        table     |-> IF id \in DOMAIN explorerRows THEN explorerRows[id].table ELSE table]]

\* setSelectedEntities()
Selection(container, ids, rows) ==
    IF container = explorer.container THEN ids \cap DOMAIN rows ELSE {}

\* loadContainer() up to the request; then: what follows its end.
LoadContainer(container, then) ==
    /\ InitExplorer(sent + 1, container)
    /\ Send([n |-> sent + 1, kind |-> "load", container |-> container, then |-> then])

\* Mutant: the editor is not cleared.
ShowContainer_Text(container) ==
    /\ entityIdentity' = Identity(0, container, {})
    /\ header' = Header(container, {})
    /\ activeExplorerEditor' = "entity"
    /\ LoadContainer(container, "none")
    /\ UNCHANGED <<historyVars, astray, editor>>

\* A click on a container in the tree: clearEntity() and loadContainer().
ShowContainer(container) ==
    /\ entityIdentity' = Identity(0, container, {})
    /\ editor' = Text(None, {})
    /\ header' = Header(container, {})
    /\ activeExplorerEditor' = "entity"
    /\ LoadContainer(container, "none")
    /\ UNCHANGED <<historyVars, astray>>

\* The reload button, applyFilter(), removeFilter().
ReloadContainer ==
    /\ explorer.container \in Containers
    /\ LoadContainer(explorer.container, "none")
    /\ UNCHANGED <<editorVars, historyVars, astray>>

\* entityIdsContainer.onclick: the container of the shown entities.
OpenContainer ==
    /\ activeExplorerEditor = "entity"
    /\ LoadContainer(header.container, "select")
    /\ UNCHANGED <<editorVars, historyVars, astray>>

\* The rest of loadContainer(): the page of entities goes to a new table,
\* and to the explorer record and rows the page has by now.
ContainerLoaded(r, ids, cursor) ==
    LET rows == RowsWith(r.container, ids, r.n)
    IN /\ r.kind = "load"
       /\ Answered(r)
       /\ explorer' = [explorer EXCEPT !.ver = r.n, !.cursor = cursor]
       /\ explorerTable' = [n |-> r.n, container |-> r.container]
       /\ explorerRows' = rows
       /\ selectedRows' = IF r.then = "select"
                            THEN Selection(entityIdentity.container, entityIdentity.ids, rows)
                            ELSE selectedRows
       /\ astray' = (astray \/ r.n # explorer.n)
       /\ UNCHANGED <<editorVars, historyVars>>

ContainerFailed(r) ==
    /\ r.kind = "load"
    /\ Answered(r)
    /\ selectedRows' = IF r.then = "select"
                         THEN Selection(entityIdentity.container, entityIdentity.ids, explorerRows)
                         ELSE selectedRows
    /\ astray' = (astray \/ r.n # explorer.n)
    /\ UNCHANGED <<explorer, explorerTable, explorerRows, editorVars, historyVars>>

\* loadMore(), on scrolling to the end.
LoadMore ==
    /\ explorer.cursor /\ ~explorer.loadMorePending
    /\ explorer' = [explorer EXCEPT !.loadMorePending = TRUE]
    /\ Send([n |-> sent + 1, kind |-> "more", ver |-> explorer.ver, container |-> explorer.container])
    /\ UNCHANGED <<explorerTable, explorerRows, selectedRows, editorVars, historyVars, astray>>

\* The answer: the flags go to the explorer record it was sent for, the
\* entities to the table the page has.  If it failed the cursor is kept.
MoreLoaded(r, ok, ids, cursor) ==
    LET current == r.ver = explorer.ver
    IN /\ r.kind = "more"
       /\ ok => r.container \in Containers
       /\ Answered(r)
       /\ explorer' = IF current
                        THEN [explorer EXCEPT !.loadMorePending = FALSE,
                                              !.cursor = IF ok THEN cursor ELSE @]
                        ELSE explorer
       /\ explorerRows' = IF ok THEN RowsWith(r.container, ids, explorerTable.n)
                          ELSE explorerRows
       /\ astray' = (astray \/ ~current)
       /\ UNCHANGED <<explorerTable, selectedRows, editorVars, historyVars>>

-----------------------------------------------------------------------------
(***************************************************************************)
(* The editor.                                                             *)
(***************************************************************************)
\* Mutant: the entries after the current position are kept.
Visit_Append(container, ids) ==
    /\ entityHistory' = Append(entityHistory, [container |-> container, ids |-> ids])
    /\ entityHistoryPos' = entityHistoryPos + 1

Visit(container, ids) ==
    /\ entityHistory' = Append(SubSeq(entityHistory, 1, entityHistoryPos),
                               [container |-> container, ids |-> ids])
    /\ entityHistoryPos' = entityHistoryPos + 1

(***************************************************************************)
(* loadEntities() up to the request; then: what its caller goes on with.   *)
(* No ids: the editor is emptied and entityIdentity stays as it is, which  *)
(* goes astray if it has entities: Save takes them for the shown ones.     *)
(***************************************************************************)
ShowEntities(container, ids) ==
    /\ activeExplorerEditor' = "entity"
    /\ header' = Header(container, ids)
    /\ IF ids = {}
         THEN /\ editor' = Text(None, {})
              /\ astray' = (astray \/ entityIdentity.container # container
                                   \/ entityIdentity.ids # {})
              /\ UNCHANGED <<entityIdentity, pending, sent>>
         ELSE /\ entityIdentity' = Identity(sent + 1, container, ids)
              /\ UNCHANGED <<editor, astray>>

GetEntities(container, ids, then) ==
    /\ ShowEntities(container, ids)
    /\ ids # {} => Send([n |-> sent + 1, kind |-> "entities", container |-> container,
                         ids |-> ids, then |-> then])

\* loadEntities(p, false)
VisitEntities(container, ids) ==
    /\ GetEntities(container, ids, "none")
    /\ IF ids = {} THEN UNCHANGED historyVars ELSE Visit(container, ids)

\* Select rows: with the keys in the explorer's container, with the mouse in
\* the one the table was loaded for.
SelectRows(container, ids) ==
    /\ ids \subseteq DOMAIN explorerRows
    /\ selectedRows' = ids
    /\ VisitEntities(container, ids)
    /\ UNCHANGED <<explorer, explorerTable, explorerRows>>

SelectExplorerEntities(ids) ==
    /\ explorer.container \in Containers
    /\ SelectRows(explorer.container, ids)

ExplorerOnClick(ids) ==
    /\ explorerTable # NoTable
    /\ SelectRows(explorerTable.container, ids)

\* Follow a reference of the shown entities to an entity of a container.
TryFollowLink(container, id) ==
    /\ activeExplorerEditor = "entity"
    /\ editor.about \in Containers
    /\ VisitEntities(container, {id})
    /\ UNCHANGED tableVars

NavigateEntity(pos) ==
    /\ pos \in {entityHistoryPos - 1, entityHistoryPos + 1}
    /\ pos \in 1..Len(entityHistory)
    /\ entityHistoryPos' = pos
    /\ GetEntities(entityHistory[pos].container, entityHistory[pos].ids, "none")
    /\ UNCHANGED <<tableVars, entityHistory>>

\* updateEntities() throws: the container is not loaded yet.
UpdateThrows(container) == explorer.container = container /\ explorerTable = NoTable

UpdatedRows(container, ids) ==
    IF explorer.container = container THEN RowsWith(container, ids, explorerTable.n)
    ELSE explorerRows

\* selectEntities(): entityIdentity keeps its container.
SelectEntities(container, ids, rows) ==
    /\ entityIdentity' = [entityIdentity EXCEPT !.ids = ids]
    /\ selectedRows' = Selection(entityIdentity.container, ids, rows)
    /\ Visit(container, ids)

\* The ids above the editor, as entered by the user, are loaded; none empty the
\* editor at once and are then selected.
LoadEntitiesById(ids) ==
    /\ activeExplorerEditor = "entity"
    /\ header.container \in Containers
    /\ \/ /\ ids # {} \/ entityIdentity.ids = {}
          /\ GetEntities(header.container, ids, IF ids = entityIdentity.ids THEN "none" ELSE "update")
          /\ UNCHANGED <<tableVars, historyVars>>
       \/ /\ ids = {} /\ entityIdentity.ids # {}
          /\ editor' = Text(None, {})
          /\ header' = [header EXCEPT !.ids = {}]
          /\ astray' = (astray \/ entityIdentity.container # header.container
                               \/ UpdateThrows(header.container))
          /\ IF UpdateThrows(header.container)
               THEN UNCHANGED <<entityIdentity, selectedRows, historyVars>>
               ELSE SelectEntities(header.container, {}, explorerRows)
          /\ UNCHANGED <<explorer, explorerTable, explorerRows, activeExplorerEditor,
                         pending, sent>>

(***************************************************************************)
(* The rest of loadEntities(), and of loadEntitiesById() after it: rows    *)
(* are selected for the identity of this request, the text goes to the     *)
(* editor, whatever entityIdentity is by now.  A failure shows its message *)
(* in the editor; found: the entities that exist.                          *)
(***************************************************************************)
EntitiesLoaded(r, ok, found) ==
    LET current == r.n = entityIdentity.n
        ids     == IF current THEN entityIdentity.ids ELSE r.ids
        rows    == UpdatedRows(r.container, found)
        throws  == r.then = "update" /\ UpdateThrows(r.container)
    IN /\ r.kind = "entities"
       /\ Answered(r)
       /\ found \subseteq (IF ok THEN r.ids ELSE {})
       /\ editor' = Text(r.container, r.ids)
       /\ astray' = (astray \/ ~current \/ entityIdentity.ids # r.ids \/ throws)
       /\ explorerRows' = IF r.then = "update" THEN rows ELSE explorerRows
       /\ IF r.then = "update" /\ ~throws
            THEN SelectEntities(r.container, r.ids, rows)
            ELSE /\ selectedRows' = IF ok THEN Selection(r.container, ids, explorerRows)
                                    ELSE selectedRows
                 /\ UNCHANGED <<entityIdentity, historyVars>>
       /\ UNCHANGED <<explorer, explorerTable, header, activeExplorerEditor>>

\* The user edits the text and saves (PUT) or patches the entities in it.
ChangeEntities(ids) ==
    /\ activeExplorerEditor = "entity"
    /\ entityIdentity.container \in Containers
    /\ editor' = Text(IF editor.about = None THEN header.container ELSE editor.about, ids)
    /\ Send([n |-> sent + 1, kind |-> "change", container |-> entityIdentity.container, ids |-> ids])
    /\ UNCHANGED <<tableVars, entityIdentity, header, activeExplorerEditor, historyVars, astray>>

EntitiesChanged(r) ==
    LET rows   == UpdatedRows(r.container, r.ids)
        throws == UpdateThrows(r.container)
    IN /\ r.kind = "change"
       /\ Answered(r)
       /\ explorerRows' = rows
       /\ astray' = (astray \/ throws \/ entityIdentity.container # r.container)
       /\ IF throws \/ entityIdentity.ids = r.ids
            THEN UNCHANGED <<header, entityIdentity, selectedRows, historyVars>>
            ELSE /\ header' = Header(r.container, r.ids)
                 /\ SelectEntities(r.container, r.ids, rows)
       /\ UNCHANGED <<explorer, explorerTable, editor, activeExplorerEditor>>

DeleteEntities(container, ids) ==
    /\ Send([n |-> sent + 1, kind |-> "delete", container |-> container, ids |-> ids])
    /\ UNCHANGED <<tableVars, editorVars, historyVars, astray>>

\* The Delete button, enabled if there are ids, and the Delete key in the table.
DeleteEntitiesAction ==
    /\ activeExplorerEditor = "entity"
    /\ entityIdentity.container \in Containers
    /\ header.ids # {}
    /\ DeleteEntities(entityIdentity.container, entityIdentity.ids)

DeleteSelected ==
    /\ explorer.container \in Containers
    /\ explorerTable # NoTable
    /\ DeleteEntities(explorer.container, selectedRows)

\* Mutant: deleted entities stay selected.
EntitiesDeleted_Selected(r) ==
    /\ r.kind = "delete"
    /\ Answered(r)
    /\ entityIdentity' = [entityIdentity EXCEPT !.ids = {}]
    /\ header' = Header(r.container, {})
    /\ editor' = Text(None, {})
    /\ explorerRows' = Restrict(explorerRows, DOMAIN explorerRows \ r.ids)
    /\ UNCHANGED <<selectedRows, astray, explorer, explorerTable, activeExplorerEditor, historyVars>>

EntitiesDeleted(r) ==
    /\ r.kind = "delete"
    /\ Answered(r)
    /\ entityIdentity' = [entityIdentity EXCEPT !.ids = {}]
    /\ header' = Header(r.container, {})
    /\ editor' = Text(None, {})
    /\ explorerRows' = Restrict(explorerRows, DOMAIN explorerRows \ r.ids)
    /\ selectedRows' = selectedRows \ r.ids
    /\ astray' = (astray \/ entityIdentity.container # r.container
                         \/ explorer.container # r.container)
    /\ UNCHANGED <<explorer, explorerTable, activeExplorerEditor, historyVars>>

\* A failed change or delete writes its message only.
RequestFailed(r) ==
    /\ r.kind \in {"change", "delete", "command"}
    /\ Answered(r)
    /\ UNCHANGED <<tableVars, editorVars, historyVars, astray>>

-----------------------------------------------------------------------------
(***************************************************************************)
(* The database entry of the tree: its commands in place of the table.     *)
(***************************************************************************)
ShowCommand ==
    /\ entityIdentity' = Identity(0, Command, {})
    /\ editor' = Text(None, {})
    /\ activeExplorerEditor' = "command"
    /\ UNCHANGED header

\* listCommands(): the command selected before is shown again, or the info.
ListCommands ==
    /\ InitExplorer(0, None)
    /\ \/ ShowCommand
       \/ /\ activeExplorerEditor' = "dbInfo"
          /\ UNCHANGED <<entityIdentity, editor, header>>
    /\ UNCHANGED <<historyVars, pending, sent, astray>>

SelectCommand ==
    /\ explorer.container = None
    /\ ShowCommand
    /\ UNCHANGED <<tableVars, historyVars, pending, sent, astray>>

SendCommand ==
    /\ activeExplorerEditor = "command"
    /\ entityIdentity.container = Command
    /\ Send([n |-> sent + 1, kind |-> "command"])
    /\ UNCHANGED <<tableVars, editorVars, historyVars, astray>>

\* The result replaces the text of the editor.
CommandResult(r) ==
    /\ r.kind = "command"
    /\ Answered(r)
    /\ editor' = Text(Command, {})
    /\ astray' = (astray \/ entityIdentity.container # Command)
    /\ UNCHANGED <<tableVars, entityIdentity, header, activeExplorerEditor, historyVars>>

-----------------------------------------------------------------------------
User ==
    \/ \E c \in Containers : ShowContainer(c)
    \/ ReloadContainer
    \/ OpenContainer
    \/ LoadMore
    \/ \E ids \in SUBSET Ids : SelectExplorerEntities(ids) \/ ExplorerOnClick(ids)
    \/ \E c \in Containers, id \in Ids : TryFollowLink(c, id)
    \/ \E pos \in 1..Len(entityHistory) : NavigateEntity(pos)
    \/ \E ids \in SUBSET Ids : LoadEntitiesById(ids)
    \/ \E ids \in SUBSET Ids : ChangeEntities(ids)
    \/ DeleteEntitiesAction
    \/ DeleteSelected
    \/ ListCommands
    \/ SelectCommand
    \/ SendCommand

Answer(r) ==
    \/ \E ids \in SUBSET Ids, cursor \in BOOLEAN : ContainerLoaded(r, ids, cursor)
    \/ ContainerFailed(r)
    \/ \E ids \in SUBSET Ids, ok, cursor \in BOOLEAN : MoreLoaded(r, ok, ids, cursor)
    \/ \E found \in SUBSET Ids, ok \in BOOLEAN : EntitiesLoaded(r, ok, found)
    \/ EntitiesChanged(r)
    \/ EntitiesDeleted(r)
    \/ CommandResult(r)
    \/ RequestFailed(r)

Next == User \/ \E r \in pending : Answer(r)

Spec == Init /\ [][Next]_vars

-----------------------------------------------------------------------------
(***************************************************************************)
(* Records, tables and positions have their types.                         *)
(***************************************************************************)
TypeOK ==
    /\ sent \in 0..MaxRequests
    /\ explorer \in ExplorerType
    /\ explorerTable \in [n : 0..sent, container : Containers \cup {None}]
    /\ \A id \in DOMAIN explorerRows :
         id \in Ids /\ explorerRows[id] \in [container : Containers, table : 0..sent]
    /\ selectedRows \subseteq DOMAIN explorerRows
    /\ entityIdentity \in [n : 0..sent, container : Shown, ids : SUBSET Ids]
    /\ editor \in [about : Shown, ids : SUBSET Ids]
    /\ header \in [container : Containers \cup {None}, ids : SUBSET Ids]
    /\ activeExplorerEditor \in {"dbInfo", "entity", "command"}
    /\ entityHistory \in Seq([container : Containers, ids : SUBSET Ids])
    /\ entityHistoryPos \in 0..Len(entityHistory)
    /\ \A r \in pending : r.n \in 1..sent

(***************************************************************************)
(* Unless an answer went astray: every row is in the shown table and has   *)
(* the values of an entity of the container the explorer names, and more   *)
(* is not loaded only while a request for it is pending.                   *)
(***************************************************************************)
TableShowsContainer ==
    ~astray =>
      /\ \A id \in DOMAIN explorerRows :
           /\ explorerRows[id] = [container |-> explorer.container, table |-> explorerTable.n]
           /\ explorerTable.n # 0
      /\ explorer.loadMorePending =>
           \E r \in pending : r.kind = "more" /\ r.ver = explorer.ver

(***************************************************************************)
(* Unless an answer went astray: the entities named above the editor are   *)
(* those Delete acts on, and unless they are being loaded the text that    *)
(* Save puts to a container is about that container.                       *)
(***************************************************************************)
Loading == \E r \in pending : r.kind = "entities" /\ r.n = entityIdentity.n

EditorShowsIdentity ==
    ~astray /\ activeExplorerEditor = "entity" =>
        /\ header = Header(entityIdentity.container, entityIdentity.ids)
        /\ Loading \/ editor.about \in {None, entityIdentity.container}

(***************************************************************************)
(* Unless an answer went astray: the history stands at the entities the    *)
(* editor has, so that going back and forth returns to them.  Ids entered  *)
(* by the user join it when they are loaded.                               *)
(***************************************************************************)
Entering == \E r \in pending : r.kind = "entities" /\ r.then = "update"

HistoryAtIdentity ==
    ~astray /\ entityIdentity.ids # {} /\ ~Entering =>
        /\ entityHistoryPos > 0
        /\ entityHistory[entityHistoryPos] =
             [container |-> entityIdentity.container, ids |-> entityIdentity.ids]
=============================================================================
