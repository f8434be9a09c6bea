------------------------ MODULE EntityExplorerProofs ------------------------
(***************************************************************************)
(* For any containers and ids and any number of requests, answered in any  *)
(* order: the types of the page, and, up to the first handler that goes    *)
(* astray, what its table, its editor and its history show.                *)
(***************************************************************************)
EXTENDS EntityExplorer, SequenceTheorems, TLAPS

-----------------------------------------------------------------------------
(***************************************************************************)
(* Types.  A request carries what its kind needs and has a number of its   *)
(* own; an editor of entities names their container, and so does a table.  *)
(***************************************************************************)
RequestTyped(r) ==
    /\ r.n \in 1..sent
    /\ r.kind \in {"load", "more", "entities", "change", "delete", "command"}
    /\ r.kind = "load" => r.container \in Containers /\ r.then \in {"none", "select"}
    /\ r.kind = "more" => r.container \in Containers \cup {None} /\ r.ver \in 0..sent
    /\ r.kind = "entities" =>
         r.container \in Containers /\ r.ids \in SUBSET Ids /\ r.then \in {"none", "update"}
    /\ r.kind \in {"change", "delete"} => r.container \in Containers /\ r.ids \in SUBSET Ids

PendingInv ==
    /\ \A r \in pending : RequestTyped(r)
    /\ \A r, s \in pending : r.n = s.n => r = s

ShownInv ==
    /\ activeExplorerEditor = "entity" => header.container \in Containers
    /\ explorerTable = NoTable <=> explorerTable.n = 0
    /\ explorerTable # NoTable => explorerTable.container \in Containers

PageInv == TypeOK /\ PendingInv /\ ShownInv

Rows == [container : Containers, table : 0..sent]
Entry == [container : Containers, ids : SUBSET Ids]

LEMMA SendTyped ==
  ASSUME TypeOK, PendingInv, NEW request, Send(request),
         request.n = sent + 1,
         request.kind \in {"load", "more", "entities", "change", "delete", "command"},
         request.kind = "load" =>
           request.container \in Containers /\ request.then \in {"none", "select"},
         request.kind = "more" =>
           request.container \in Containers \cup {None} /\ request.ver \in 0..sent,
         request.kind = "entities" =>
           /\ request.container \in Containers /\ request.ids \in SUBSET Ids
           /\ request.then \in {"none", "update"},
         request.kind \in {"change", "delete"} =>
           request.container \in Containers /\ request.ids \in SUBSET Ids
  PROVE  /\ PendingInv' /\ \A r \in pending' : r.n \in 1..sent'
         /\ sent' = sent + 1 /\ sent' \in 0..MaxRequests
<1>1. sent \in Nat /\ sent' = sent + 1 /\ pending' = pending \cup {request} /\ sent' \in 0..MaxRequests
  BY EntityExplorerAssumption DEF Send, TypeOK
<1>2. \A r \in pending : RequestTyped(r)'
  BY <1>1 DEF PendingInv, RequestTyped
<1>3. RequestTyped(request)'
  BY <1>1 DEF RequestTyped
<1>4. \A r \in pending : r.n # request.n
  BY <1>1 DEF PendingInv, RequestTyped
<1> QED
  BY <1>1, <1>2, <1>3, <1>4 DEF PendingInv, RequestTyped

LEMMA AnsweredTyped ==
  ASSUME TypeOK, PendingInv, NEW r, Answered(r)
  PROVE  /\ PendingInv' /\ \A q \in pending' : q.n \in 1..sent'
         /\ sent' = sent /\ RequestTyped(r) /\ r \in pending
BY DEF Answered, PendingInv, RequestTyped

\* A step that sends and answers nothing.
LEMMA IdleTyped ==
  ASSUME PendingInv, UNCHANGED <<pending, sent>>
  PROVE  PendingInv' /\ \A q \in pending' : q.n \in 1..sent'
BY DEF PendingInv, RequestTyped

LEMMA VisitTyped ==
  ASSUME TypeOK, NEW c \in Containers, NEW ids \in SUBSET Ids, Visit(c, ids)
  PROVE  /\ entityHistory' \in Seq(Entry)
         /\ entityHistoryPos' \in 1..Len(entityHistory')
         /\ entityHistory'[entityHistoryPos'] = [container |-> c, ids |-> ids]
<1> DEFINE before == SubSeq(entityHistory, 1, entityHistoryPos)
           entry == [container |-> c, ids |-> ids]
<1>1. entityHistory \in Seq(Entry) /\ entityHistoryPos \in 0..Len(entityHistory)
  BY DEF TypeOK, Entry
<1>2. before \in Seq(Entry) /\ Len(before) = entityHistoryPos
  BY <1>1, SubSeqProperties
<1>3. entry \in Entry
  BY DEF Entry
<1>4. /\ entityHistory' = Append(before, entry)
      /\ entityHistoryPos' = entityHistoryPos + 1
  BY DEF Visit
<1> HIDE DEF before, entry
<1>5. /\ Append(before, entry) \in Seq(Entry)
      /\ Len(Append(before, entry)) = Len(before) + 1
      /\ Append(before, entry)[Len(before) + 1] = entry
  BY <1>2, <1>3, AppendProperties
<1> QED
  BY <1>1, <1>2, <1>4, <1>5 DEF entry

\* What updateEntities() and the answers to requests make of the rows.
RowsTyped(rows) == \A id \in DOMAIN rows : id \in Ids /\ rows[id] \in Rows

LEMMA RowsWithOK ==
  ASSUME TypeOK, NEW c \in Containers, NEW ids \in SUBSET Ids, NEW table \in 0..sent
  PROVE  RowsTyped(RowsWith(c, ids, table)) /\ DOMAIN explorerRows \subseteq DOMAIN RowsWith(c, ids, table)
<1> DEFINE rows == RowsWith(c, ids, table)
<1>1. \A id \in DOMAIN explorerRows : id \in Ids /\ explorerRows[id] \in Rows
  BY DEF TypeOK, Rows
<1>2. /\ DOMAIN rows = DOMAIN explorerRows \cup ids
      /\ \A id \in DOMAIN rows : rows[id] =
           [container |-> IF id \in ids THEN c ELSE explorerRows[id].container,
            table |-> IF id \in DOMAIN explorerRows THEN explorerRows[id].table ELSE table]
  BY DEF RowsWith
<1> HIDE DEF rows
<1>3. ASSUME NEW id \in DOMAIN rows
      PROVE  id \in Ids /\ rows[id] \in Rows
  <2> DEFINE of == IF id \in ids THEN c ELSE explorerRows[id].container
             in == IF id \in DOMAIN explorerRows THEN explorerRows[id].table ELSE table
  <2>1. id \in Ids /\ (id \notin DOMAIN explorerRows => id \in ids)
    BY <1>1, <1>2, <1>3
  <2>2. id \in DOMAIN explorerRows =>
          explorerRows[id].container \in Containers /\ explorerRows[id].table \in 0..sent
    BY <1>1 DEF Rows
  <2>3. of \in Containers /\ in \in 0..sent
    BY <2>1, <2>2
  <2>4. rows[id] = [container |-> of, table |-> in]
    BY <1>2, <1>3
  <2> HIDE DEF of, in
  <2> QED
    BY <2>1, <2>3, <2>4 DEF Rows
<1>4. RowsTyped(rows) /\ DOMAIN explorerRows \subseteq DOMAIN rows
  BY <1>2, <1>3 DEF RowsTyped
<1> QED
  BY <1>4 DEF rows

LEMMA UpdatedRowsOK ==
  ASSUME TypeOK, NEW c \in Containers, NEW ids \in SUBSET Ids
  PROVE  RowsTyped(UpdatedRows(c, ids)) /\ DOMAIN explorerRows \subseteq DOMAIN UpdatedRows(c, ids)
BY RowsWithOK DEF UpdatedRows, TypeOK, RowsTyped, Rows

LEMMA InitPage == Init => PageInv
<1> SUFFICES ASSUME Init PROVE PageInv
  OBVIOUS
<1>1. TypeOK
  BY EntityExplorerAssumption
  DEF Init, TypeOK, ExplorerType, NoTable, Identity, Text, Header, Shown
<1> QED
  BY <1>1 DEF Init, PageInv, PendingInv, ShownInv, NoTable

-----------------------------------------------------------------------------
(***************************************************************************)
(* The types are kept by the table's handlers.                             *)
(***************************************************************************)
LEMMA LoadContainerPage ==
  ASSUME PageInv, NEW c \in Containers, NEW then \in {"none", "select"}, LoadContainer(c, then)
  PROVE  /\ PendingInv' /\ \A r \in pending' : r.n \in 1..sent'
         /\ sent' = sent + 1 /\ sent' \in 0..MaxRequests
         /\ explorer' \in ExplorerType'
         /\ explorerTable' = NoTable /\ explorerRows' = << >> /\ selectedRows' = {}
<1>1. InitExplorer(sent + 1, c)
      /\ Send([n |-> sent + 1, kind |-> "load", container |-> c, then |-> then])
  BY DEF LoadContainer
<1>2. /\ PendingInv' /\ \A r \in pending' : r.n \in 1..sent'
      /\ sent' = sent + 1 /\ sent' \in 0..MaxRequests
  BY <1>1, SendTyped DEF PageInv
<1> QED
  BY <1>1, <1>2 DEF InitExplorer, ExplorerType, PageInv, TypeOK

LEMMA EmptyTable ==
  ASSUME explorerTable' = NoTable, explorerRows' = << >>, selectedRows' = {}, sent' \in Nat
  PROVE  /\ explorerTable' \in [n : 0..sent', container : Containers \cup {None}]
         /\ RowsTyped(explorerRows)' /\ selectedRows' \subseteq DOMAIN explorerRows'
         /\ (explorerTable = NoTable <=> explorerTable.n = 0)'
BY DEF NoTable, RowsTyped

LEMMA ShowContainerPage ==
  ASSUME PageInv, NEW c \in Containers, ShowContainer(c)
  PROVE  PageInv'
<1>1. LoadContainer(c, "none")
  BY DEF ShowContainer
<1>2. /\ PendingInv' /\ \A r \in pending' : r.n \in 1..sent'
      /\ sent' = sent + 1 /\ sent' \in 0..MaxRequests
      /\ explorer' \in ExplorerType'
      /\ explorerTable' = NoTable /\ explorerRows' = << >> /\ selectedRows' = {}
  BY <1>1, LoadContainerPage
<1>3. /\ explorerTable' \in [n : 0..sent', container : Containers \cup {None}]
      /\ RowsTyped(explorerRows)' /\ selectedRows' \subseteq DOMAIN explorerRows'
      /\ (explorerTable = NoTable <=> explorerTable.n = 0)'
  BY <1>2, EmptyTable
<1>4. TypeOK'
  BY <1>2, <1>3 DEF PageInv, TypeOK, ShowContainer, Identity, Text, Header, Shown, historyVars,
                    RowsTyped, Rows
<1> QED
  BY <1>2, <1>3, <1>4 DEF PageInv, ShownInv, ShowContainer, Header

\* Reload and the link above the editor.
LEMMA LoadOnlyPage ==
  ASSUME PageInv, NEW c \in Containers, NEW then \in {"none", "select"}, LoadContainer(c, then),
         UNCHANGED <<editorVars, historyVars>>
  PROVE  PageInv'
<1>2. /\ PendingInv' /\ \A r \in pending' : r.n \in 1..sent'
      /\ sent' = sent + 1 /\ sent' \in 0..MaxRequests
      /\ explorer' \in ExplorerType'
      /\ explorerTable' = NoTable /\ explorerRows' = << >> /\ selectedRows' = {}
  BY LoadContainerPage
<1>3. /\ explorerTable' \in [n : 0..sent', container : Containers \cup {None}]
      /\ RowsTyped(explorerRows)' /\ selectedRows' \subseteq DOMAIN explorerRows'
      /\ (explorerTable = NoTable <=> explorerTable.n = 0)'
  BY <1>2, EmptyTable
<1>4. TypeOK'
  BY <1>2, <1>3 DEF PageInv, TypeOK, editorVars, historyVars, RowsTyped, Rows
<1> QED
  BY <1>2, <1>3, <1>4 DEF PageInv, ShownInv, editorVars

LEMMA ReloadContainerPage == PageInv /\ ReloadContainer => PageInv'
BY LoadOnlyPage DEF ReloadContainer

LEMMA OpenContainerPage == PageInv /\ OpenContainer => PageInv'
BY LoadOnlyPage DEF OpenContainer, PageInv, ShownInv

LEMMA SelectionSubset ==
  ASSUME NEW c, NEW ids, NEW rows
  PROVE  Selection(c, ids, rows) \subseteq DOMAIN rows
BY DEF Selection

LEMMA ContainerLoadedPage ==
  ASSUME PageInv, NEW r, NEW ids \in SUBSET Ids, NEW cursor \in BOOLEAN,
         ContainerLoaded(r, ids, cursor)
  PROVE  PageInv'
<1> DEFINE rows == RowsWith(r.container, ids, r.n)
<1>1. /\ PendingInv' /\ \A q \in pending' : q.n \in 1..sent'
      /\ sent' = sent /\ RequestTyped(r)
  BY AnsweredTyped DEF PageInv, ContainerLoaded
<1>2. r.container \in Containers /\ r.n \in 1..sent /\ r.n \in 0..sent
  BY <1>1 DEF RequestTyped, ContainerLoaded
<1>3. RowsTyped(rows) /\ DOMAIN explorerRows \subseteq DOMAIN rows
  BY <1>2, RowsWithOK DEF PageInv
<1>4. Selection(entityIdentity.container, entityIdentity.ids, rows) \subseteq DOMAIN rows
  BY SelectionSubset
<1>5. explorerRows' = rows
  BY DEF ContainerLoaded
<1>6. selectedRows' \subseteq DOMAIN rows
  BY <1>3, <1>4 DEF ContainerLoaded, PageInv, TypeOK
<1> HIDE DEF rows
<1>7. explorer' \in ExplorerType'
  BY <1>1, <1>2 DEF ContainerLoaded, PageInv, TypeOK, ExplorerType
<1>8. TypeOK'
  BY <1>1, <1>2, <1>3, <1>5, <1>6, <1>7
  DEF ContainerLoaded, PageInv, TypeOK, editorVars, historyVars, RowsTyped, Rows
<1> QED
  BY <1>1, <1>2, <1>8 DEF ContainerLoaded, PageInv, ShownInv, editorVars, NoTable, TypeOK

LEMMA ContainerFailedPage ==
  ASSUME PageInv, NEW r, ContainerFailed(r)
  PROVE  PageInv'
<1>1. /\ PendingInv' /\ \A q \in pending' : q.n \in 1..sent'
      /\ sent' = sent
  BY AnsweredTyped DEF PageInv, ContainerFailed
<1>2. Selection(entityIdentity.container, entityIdentity.ids, explorerRows) \subseteq DOMAIN explorerRows
  BY SelectionSubset
<1>3. TypeOK'
  BY <1>1, <1>2 DEF ContainerFailed, PageInv, TypeOK, editorVars, historyVars, ExplorerType
<1> QED
  BY <1>1, <1>3 DEF ContainerFailed, PageInv, ShownInv, editorVars

LEMMA LoadMorePage == PageInv /\ LoadMore => PageInv'
<1> SUFFICES ASSUME PageInv, LoadMore PROVE PageInv'
  OBVIOUS
<1>0. explorer.ver \in 0..sent /\ explorer.container \in Containers \cup {None}
  BY DEF PageInv, TypeOK, ExplorerType
<1>1. /\ PendingInv' /\ \A r \in pending' : r.n \in 1..sent'
      /\ sent' = sent + 1 /\ sent' \in 0..MaxRequests
  BY <1>0, SendTyped DEF PageInv, LoadMore
<1>2. explorer' \in ExplorerType'
  <2>1. explorer \in ExplorerType'
    BY <1>1 DEF PageInv, TypeOK, ExplorerType
  <2> QED
    BY <2>1 DEF LoadMore, ExplorerType
<1>3. TypeOK'
  BY <1>1, <1>2 DEF LoadMore, PageInv, TypeOK, editorVars, historyVars
<1> QED
  BY <1>1, <1>3 DEF LoadMore, PageInv, ShownInv, editorVars

LEMMA MoreLoadedPage ==
  ASSUME PageInv, NEW r, NEW ok \in BOOLEAN, NEW ids \in SUBSET Ids, NEW cursor \in BOOLEAN,
         MoreLoaded(r, ok, ids, cursor)
  PROVE  PageInv'
<1> DEFINE rows == RowsWith(r.container, ids, explorerTable.n)
<1>1. /\ PendingInv' /\ \A q \in pending' : q.n \in 1..sent'
      /\ sent' = sent
  BY AnsweredTyped DEF PageInv, MoreLoaded
<1>2. explorerTable.n \in 0..sent
  BY DEF PageInv, TypeOK
<1>3. ok => RowsTyped(rows) /\ DOMAIN explorerRows \subseteq DOMAIN rows
  BY <1>2, RowsWithOK DEF PageInv, MoreLoaded
<1>4. explorerRows' = IF ok THEN rows ELSE explorerRows
  BY DEF MoreLoaded
<1> HIDE DEF rows
<1>5. RowsTyped(explorerRows') /\ DOMAIN explorerRows \subseteq DOMAIN explorerRows'
  BY <1>3, <1>4 DEF PageInv, TypeOK, RowsTyped, Rows
<1>6. explorer' \in ExplorerType'
  BY <1>1 DEF MoreLoaded, PageInv, TypeOK, ExplorerType
<1>7. TypeOK'
  BY <1>1, <1>5, <1>6
  DEF MoreLoaded, PageInv, TypeOK, editorVars, historyVars, RowsTyped, Rows
<1> QED
  BY <1>1, <1>7 DEF MoreLoaded, PageInv, ShownInv, editorVars

-----------------------------------------------------------------------------
(***************************************************************************)
(* The types are kept by the editor's handlers.                            *)
(***************************************************************************)
\* Any step that leaves the table alone, but for its rows and its selection.
LEMMA RowsPage ==
  ASSUME PageInv, UNCHANGED <<explorer, explorerTable>>,
         PendingInv', \A r \in pending' : r.n \in 1..sent',
         sent' \in sent..MaxRequests,
         RowsTyped(explorerRows'), selectedRows' \subseteq DOMAIN explorerRows',
         entityIdentity' \in [n : 0..sent', container : Shown, ids : SUBSET Ids],
         editor' \in [about : Shown, ids : SUBSET Ids],
         header' \in [container : Containers \cup {None}, ids : SUBSET Ids],
         activeExplorerEditor' \in {"dbInfo", "entity", "command"},
         activeExplorerEditor' = "entity" => header'.container \in Containers,
         entityHistory' \in Seq(Entry), entityHistoryPos' \in 0..Len(entityHistory')
  PROVE  PageInv'
<1>1. sent \in Nat /\ sent' \in 0..MaxRequests /\ 0..sent \subseteq 0..sent'
  BY EntityExplorerAssumption DEF PageInv, TypeOK
<1>2. explorer' \in ExplorerType'
  BY <1>1 DEF PageInv, TypeOK, ExplorerType
<1>3. explorerTable' \in [n : 0..sent', container : Containers \cup {None}]
  BY <1>1 DEF PageInv, TypeOK
<1>4. \A id \in DOMAIN explorerRows' :
        id \in Ids /\ explorerRows'[id] \in [container : Containers, table : 0..sent']
  BY <1>1 DEF RowsTyped, Rows
<1>5. TypeOK'
  BY <1>1, <1>2, <1>3, <1>4 DEF TypeOK, Entry
<1> QED
  BY <1>5 DEF PageInv, ShownInv

LEMMA PageTypes ==
  ASSUME PageInv
  PROVE  /\ RowsTyped(explorerRows) /\ selectedRows \subseteq DOMAIN explorerRows
         /\ sent \in 0..MaxRequests /\ sent \in sent..MaxRequests /\ sent + 1 \in 0..(sent + 1)
         /\ entityIdentity \in [n : 0..sent, container : Shown, ids : SUBSET Ids]
         /\ editor \in [about : Shown, ids : SUBSET Ids]
         /\ header \in [container : Containers \cup {None}, ids : SUBSET Ids]
         /\ activeExplorerEditor \in {"dbInfo", "entity", "command"}
         /\ activeExplorerEditor = "entity" => header.container \in Containers
         /\ entityHistory \in Seq(Entry) /\ entityHistoryPos \in 0..Len(entityHistory)
BY EntityExplorerAssumption DEF PageInv, TypeOK, ShownInv, RowsTyped, Rows, Entry

LEMMA GetEntitiesPage ==
  ASSUME PageInv, NEW c \in Containers, NEW ids \in SUBSET Ids, NEW then \in {"none", "update"},
         GetEntities(c, ids, then)
  PROVE  /\ PendingInv' /\ \A r \in pending' : r.n \in 1..sent'
         /\ sent' \in sent..MaxRequests
         /\ entityIdentity' \in [n : 0..sent', container : Shown, ids : SUBSET Ids]
         /\ editor' \in [about : Shown, ids : SUBSET Ids]
         /\ header' = Header(c, ids) /\ activeExplorerEditor' = "entity"
         /\ header' \in [container : Containers \cup {None}, ids : SUBSET Ids]
<1>1. CASE ids = {}
  <2>1. UNCHANGED <<entityIdentity, pending, sent>> /\ editor' = Text(None, {})
    BY <1>1 DEF GetEntities, ShowEntities
  <2> QED
    BY <2>1, PageTypes, IdleTyped DEF PageInv, GetEntities, ShowEntities, Text, Header, Shown
<1>2. CASE ids # {}
  <2>1. /\ entityIdentity' = Identity(sent + 1, c, ids) /\ UNCHANGED editor
        /\ Send([n |-> sent + 1, kind |-> "entities", container |-> c, ids |-> ids, then |-> then])
    BY <1>2 DEF GetEntities, ShowEntities
  <2>2. /\ PendingInv' /\ \A r \in pending' : r.n \in 1..sent'
        /\ sent' = sent + 1 /\ sent' \in 0..MaxRequests
    BY <2>1, SendTyped DEF PageInv
  <2>3. sent' \in sent..MaxRequests
    BY <2>2, PageTypes
  <2>4. entityIdentity' \in [n : 0..sent', container : Shown, ids : SUBSET Ids]
    BY <2>1, <2>2, PageTypes DEF Identity, Shown
  <2> QED
    BY <2>1, <2>2, <2>3, <2>4, PageTypes DEF GetEntities, ShowEntities, Header
<1> QED
  BY <1>1, <1>2

LEMMA VisitEntitiesPage ==
  ASSUME PageInv, NEW c \in Containers, NEW ids \in SUBSET Ids, VisitEntities(c, ids),
         UNCHANGED <<explorer, explorerTable, explorerRows>>,
         selectedRows' \subseteq DOMAIN explorerRows
  PROVE  PageInv'
<1>1. /\ PendingInv' /\ \A r \in pending' : r.n \in 1..sent'
      /\ sent' \in sent..MaxRequests
      /\ entityIdentity' \in [n : 0..sent', container : Shown, ids : SUBSET Ids]
      /\ editor' \in [about : Shown, ids : SUBSET Ids]
      /\ header' = Header(c, ids) /\ activeExplorerEditor' = "entity"
      /\ header' \in [container : Containers \cup {None}, ids : SUBSET Ids]
  BY GetEntitiesPage DEF VisitEntities
<1>2. entityHistory' \in Seq(Entry) /\ entityHistoryPos' \in 0..Len(entityHistory')
  <2>1. CASE ids = {}
    BY <2>1, PageTypes DEF VisitEntities, historyVars
  <2>2. CASE ids # {}
    <3>1. entityHistory' \in Seq(Entry) /\ entityHistoryPos' \in 1..Len(entityHistory')
      BY <2>2, VisitTyped DEF VisitEntities, PageInv
    <3> QED
      BY <3>1
  <2> QED
    BY <2>1, <2>2
<1>3. RowsTyped(explorerRows') /\ selectedRows' \subseteq DOMAIN explorerRows'
  BY PageTypes DEF RowsTyped
<1> QED
  BY <1>1, <1>2, <1>3, RowsPage DEF Header

LEMMA SelectRowsPage ==
  ASSUME PageInv, NEW c \in Containers, NEW ids \in SUBSET Ids, SelectRows(c, ids)
  PROVE  PageInv'
BY VisitEntitiesPage DEF SelectRows

LEMMA SelectExplorerEntitiesPage ==
  ASSUME PageInv, NEW ids \in SUBSET Ids, SelectExplorerEntities(ids)
  PROVE  PageInv'
BY SelectRowsPage DEF SelectExplorerEntities

LEMMA ExplorerOnClickPage ==
  ASSUME PageInv, NEW ids \in SUBSET Ids, ExplorerOnClick(ids)
  PROVE  PageInv'
BY SelectRowsPage DEF ExplorerOnClick, PageInv, ShownInv

LEMMA TryFollowLinkPage ==
  ASSUME PageInv, NEW c \in Containers, NEW id \in Ids, TryFollowLink(c, id)
  PROVE  PageInv'
BY VisitEntitiesPage, PageTypes DEF TryFollowLink, tableVars

LEMMA NavigateEntityPage ==
  ASSUME PageInv, NEW pos, NavigateEntity(pos)
  PROVE  PageInv'
<1>1. entityHistory \in Seq(Entry) /\ pos \in 1..Len(entityHistory)
  BY PageTypes DEF NavigateEntity
<1>2. entityHistory[pos] \in Entry
  BY <1>1
<1>3. entityHistory[pos].container \in Containers /\ entityHistory[pos].ids \in SUBSET Ids
  BY <1>2 DEF Entry
<1>4. GetEntities(entityHistory[pos].container, entityHistory[pos].ids, "none")
  BY DEF NavigateEntity
<1>5. /\ PendingInv' /\ \A r \in pending' : r.n \in 1..sent'
      /\ sent' \in sent..MaxRequests
      /\ entityIdentity' \in [n : 0..sent', container : Shown, ids : SUBSET Ids]
      /\ editor' \in [about : Shown, ids : SUBSET Ids]
      /\ header' = Header(entityHistory[pos].container, entityHistory[pos].ids)
      /\ activeExplorerEditor' = "entity"
      /\ header' \in [container : Containers \cup {None}, ids : SUBSET Ids]
  BY <1>3, <1>4, GetEntitiesPage
<1>6. entityHistory' \in Seq(Entry) /\ entityHistoryPos' \in 0..Len(entityHistory')
  BY <1>1 DEF NavigateEntity
<1>7. /\ RowsTyped(explorerRows') /\ selectedRows' \subseteq DOMAIN explorerRows'
      /\ UNCHANGED <<explorer, explorerTable>>
  BY PageTypes DEF RowsTyped, NavigateEntity, tableVars
<1> QED
  BY <1>3, <1>5, <1>6, <1>7, RowsPage DEF Header

LEMMA SelectEntitiesPage ==
  ASSUME PageInv, NEW c \in Containers, NEW ids \in SUBSET Ids, NEW rows,
         SelectEntities(c, ids, rows)
  PROVE  /\ entityIdentity' \in [n : 0..sent, container : Shown, ids : SUBSET Ids]
         /\ selectedRows' \subseteq DOMAIN rows
         /\ entityHistory' \in Seq(Entry) /\ entityHistoryPos' \in 0..Len(entityHistory')
<1>1. /\ entityHistory' \in Seq(Entry) /\ entityHistoryPos' \in 1..Len(entityHistory')
  BY VisitTyped DEF SelectEntities, PageInv
<1>2. entityIdentity' \in [n : 0..sent, container : Shown, ids : SUBSET Ids]
  BY PageTypes DEF SelectEntities
<1> QED
  BY <1>1, <1>2, SelectionSubset DEF SelectEntities

LEMMA LoadEntitiesByIdPage ==
  ASSUME PageInv, NEW ids \in SUBSET Ids, LoadEntitiesById(ids)
  PROVE  PageInv'
<1>0. activeExplorerEditor = "entity" /\ header.container \in Containers
  BY DEF LoadEntitiesById
<1>1. CASE /\ GetEntities(header.container, ids, IF ids = entityIdentity.ids THEN "none" ELSE "update")
           /\ UNCHANGED <<tableVars, historyVars>>
  <2>1. (IF ids = entityIdentity.ids THEN "none" ELSE "update") \in {"none", "update"}
    OBVIOUS
  <2>2. /\ PendingInv' /\ \A r \in pending' : r.n \in 1..sent'
        /\ sent' \in sent..MaxRequests
        /\ entityIdentity' \in [n : 0..sent', container : Shown, ids : SUBSET Ids]
        /\ editor' \in [about : Shown, ids : SUBSET Ids]
        /\ header' = Header(header.container, ids)
        /\ activeExplorerEditor' = "entity"
        /\ header' \in [container : Containers \cup {None}, ids : SUBSET Ids]
    BY <1>0, <1>1, <2>1, GetEntitiesPage
  <2>3. /\ RowsTyped(explorerRows') /\ selectedRows' \subseteq DOMAIN explorerRows'
        /\ UNCHANGED <<explorer, explorerTable>>
        /\ entityHistory' \in Seq(Entry) /\ entityHistoryPos' \in 0..Len(entityHistory')
    BY <1>1, PageTypes DEF RowsTyped, tableVars, historyVars
  <2> QED
    BY <1>0, <2>2, <2>3, RowsPage DEF Header
<1>2. CASE /\ editor' = Text(None, {})
           /\ header' = [header EXCEPT !.ids = {}]
           /\ IF UpdateThrows(header.container)
                THEN UNCHANGED <<entityIdentity, selectedRows, historyVars>>
                ELSE SelectEntities(header.container, {}, explorerRows)
           /\ UNCHANGED <<explorer, explorerTable, explorerRows, activeExplorerEditor,
                          pending, sent>>
  <2>1. /\ entityIdentity' \in [n : 0..sent, container : Shown, ids : SUBSET Ids]
        /\ selectedRows' \subseteq DOMAIN explorerRows
        /\ entityHistory' \in Seq(Entry) /\ entityHistoryPos' \in 0..Len(entityHistory')
    <3>1. CASE UpdateThrows(header.container)
      BY <1>2, <3>1, PageTypes DEF historyVars
    <3>2. CASE ~UpdateThrows(header.container)
      BY <1>0, <1>2, <3>2, SelectEntitiesPage
    <3> QED
      BY <3>1, <3>2
  <2>2. /\ RowsTyped(explorerRows') /\ selectedRows' \subseteq DOMAIN explorerRows'
        /\ UNCHANGED <<explorer, explorerTable>>
    BY <1>2, <2>1, PageTypes DEF RowsTyped
  <2>3. /\ header' \in [container : Containers \cup {None}, ids : SUBSET Ids]
        /\ header'.container \in Containers
        /\ editor' \in [about : Shown, ids : SUBSET Ids]
        /\ activeExplorerEditor' \in {"dbInfo", "entity", "command"}
    BY <1>0, <1>2, PageTypes DEF Text, Shown
  <2>4. PendingInv' /\ \A q \in pending' : q.n \in 1..sent'
    BY <1>2, IdleTyped DEF PageInv
  <2>5. sent' = sent /\ sent' \in sent..MaxRequests
    BY <1>2, PageTypes
  <2> QED
    BY <2>1, <2>2, <2>3, <2>4, <2>5, RowsPage
<1> QED
  BY <1>1, <1>2 DEF LoadEntitiesById

LEMMA EntitiesLoadedPage ==
  ASSUME PageInv, NEW r, NEW ok \in BOOLEAN, NEW found \in SUBSET Ids, EntitiesLoaded(r, ok, found)
  PROVE  PageInv'
<1> DEFINE rows == UpdatedRows(r.container, found)
           throws == r.then = "update" /\ UpdateThrows(r.container)
           ids == IF r.n = entityIdentity.n THEN entityIdentity.ids ELSE r.ids
<1>1. /\ PendingInv' /\ \A q \in pending' : q.n \in 1..sent'
      /\ sent' = sent /\ RequestTyped(r) /\ r.kind = "entities"
  BY AnsweredTyped DEF PageInv, EntitiesLoaded
<1>2. r.container \in Containers /\ r.ids \in SUBSET Ids
  BY <1>1 DEF RequestTyped
<1>3. RowsTyped(rows) /\ DOMAIN explorerRows \subseteq DOMAIN rows
  BY <1>2, UpdatedRowsOK DEF PageInv
<1>4. /\ explorerRows' = IF r.then = "update" THEN rows ELSE explorerRows
      /\ IF r.then = "update" /\ ~throws
           THEN SelectEntities(r.container, r.ids, rows)
           ELSE /\ selectedRows' = IF ok THEN Selection(r.container, ids, explorerRows)
                                   ELSE selectedRows
                /\ UNCHANGED <<entityIdentity, historyVars>>
      /\ editor' = Text(r.container, r.ids)
      /\ UNCHANGED <<explorer, explorerTable, header, activeExplorerEditor>>
  BY DEF EntitiesLoaded
<1> HIDE DEF rows, throws
<1>5. /\ entityIdentity' \in [n : 0..sent, container : Shown, ids : SUBSET Ids]
      /\ selectedRows' \subseteq DOMAIN explorerRows'
      /\ entityHistory' \in Seq(Entry) /\ entityHistoryPos' \in 0..Len(entityHistory')
  <2>1. CASE r.then = "update" /\ ~throws
    BY <1>2, <1>4, <2>1, SelectEntitiesPage
  <2>2. CASE ~(r.then = "update" /\ ~throws)
    <3>1. selectedRows' \subseteq DOMAIN explorerRows
      BY <1>4, <2>2, PageTypes, SelectionSubset
    <3> QED
      BY <1>3, <1>4, <2>2, <3>1, PageTypes DEF historyVars
  <2> QED
    BY <2>1, <2>2
<1>6. RowsTyped(explorerRows')
  BY <1>3, <1>4, PageTypes
<1>7. editor' \in [about : Shown, ids : SUBSET Ids]
  BY <1>2, <1>4 DEF Text, Shown
<1>8. sent' \in sent..MaxRequests
  BY <1>1, PageTypes
<1> QED
  BY <1>1, <1>4, <1>5, <1>6, <1>7, <1>8, PageTypes, RowsPage

LEMMA EntitiesChangedPage ==
  ASSUME PageInv, NEW r, EntitiesChanged(r)
  PROVE  PageInv'
<1> DEFINE rows == UpdatedRows(r.container, r.ids)
<1>1. /\ PendingInv' /\ \A q \in pending' : q.n \in 1..sent'
      /\ sent' = sent /\ RequestTyped(r) /\ r.kind = "change"
  BY AnsweredTyped DEF PageInv, EntitiesChanged
<1>2. r.container \in Containers /\ r.ids \in SUBSET Ids
  BY <1>1 DEF RequestTyped
<1>3. RowsTyped(rows) /\ DOMAIN explorerRows \subseteq DOMAIN rows
  BY <1>2, UpdatedRowsOK DEF PageInv
<1>4. /\ explorerRows' = rows
      /\ \/ UNCHANGED <<header, entityIdentity, selectedRows, historyVars>>
         \/ header' = Header(r.container, r.ids) /\ SelectEntities(r.container, r.ids, rows)
      /\ UNCHANGED <<explorer, explorerTable, editor, activeExplorerEditor>>
  BY DEF EntitiesChanged
<1> HIDE DEF rows
<1>5. /\ entityIdentity' \in [n : 0..sent, container : Shown, ids : SUBSET Ids]
      /\ selectedRows' \subseteq DOMAIN explorerRows'
      /\ entityHistory' \in Seq(Entry) /\ entityHistoryPos' \in 0..Len(entityHistory')
      /\ header' \in [container : Containers \cup {None}, ids : SUBSET Ids]
      /\ activeExplorerEditor = "entity" => header'.container \in Containers
  <2>1. CASE UNCHANGED <<header, entityIdentity, selectedRows, historyVars>>
    BY <1>3, <1>4, <2>1, PageTypes DEF historyVars
  <2>2. CASE header' = Header(r.container, r.ids) /\ SelectEntities(r.container, r.ids, rows)
    <3>1. /\ entityIdentity' \in [n : 0..sent, container : Shown, ids : SUBSET Ids]
          /\ selectedRows' \subseteq DOMAIN rows
          /\ entityHistory' \in Seq(Entry) /\ entityHistoryPos' \in 0..Len(entityHistory')
      BY <1>2, <2>2, SelectEntitiesPage
    <3> QED
      BY <1>2, <1>4, <2>2, <3>1 DEF Header
  <2> QED
    BY <1>4, <2>1, <2>2
<1>6. sent' \in sent..MaxRequests
  BY <1>1, PageTypes
<1> QED
  BY <1>1, <1>3, <1>4, <1>5, <1>6, PageTypes, RowsPage

LEMMA EntitiesDeletedPage ==
  ASSUME PageInv, NEW r, EntitiesDeleted(r)
  PROVE  PageInv'
<1>1. /\ PendingInv' /\ \A q \in pending' : q.n \in 1..sent'
      /\ sent' = sent /\ RequestTyped(r) /\ r.kind = "delete"
  BY AnsweredTyped DEF PageInv, EntitiesDeleted
<1>2. r.container \in Containers
  BY <1>1 DEF RequestTyped
<1>3. RowsTyped(explorerRows') /\ selectedRows' \subseteq DOMAIN explorerRows'
  BY PageTypes DEF EntitiesDeleted, RowsTyped, Restrict
<1>4. entityIdentity' \in [n : 0..sent, container : Shown, ids : SUBSET Ids]
  BY PageTypes DEF EntitiesDeleted
<1>5. /\ header' = Header(r.container, {}) /\ editor' = Text(None, {})
      /\ UNCHANGED <<explorer, explorerTable, activeExplorerEditor, entityHistory, entityHistoryPos>>
  BY DEF EntitiesDeleted, historyVars
<1>6. /\ header' \in [container : Containers \cup {None}, ids : SUBSET Ids]
      /\ header'.container \in Containers
      /\ editor' \in [about : Shown, ids : SUBSET Ids]
  BY <1>2, <1>5 DEF Header, Text, Shown
<1>7. sent' \in sent..MaxRequests
  BY <1>1, PageTypes
<1> QED
  BY <1>1, <1>3, <1>4, <1>5, <1>6, <1>7, PageTypes, RowsPage

\* The handlers that leave the table and the history alone.
LEMMA EditorPage ==
  ASSUME PageInv, UNCHANGED <<tableVars, historyVars>>,
         PendingInv', \A r \in pending' : r.n \in 1..sent', sent' \in sent..MaxRequests,
         entityIdentity' \in [n : 0..sent', container : Shown, ids : SUBSET Ids],
         editor' \in [about : Shown, ids : SUBSET Ids], UNCHANGED header,
         activeExplorerEditor' \in {"dbInfo", "entity", "command"},
         activeExplorerEditor' = "entity" => activeExplorerEditor = "entity"
  PROVE  PageInv'
<1>1. /\ RowsTyped(explorerRows') /\ selectedRows' \subseteq DOMAIN explorerRows'
      /\ UNCHANGED <<explorer, explorerTable>>
      /\ entityHistory' \in Seq(Entry) /\ entityHistoryPos' \in 0..Len(entityHistory')
  BY PageTypes DEF RowsTyped, tableVars, historyVars
<1> QED
  BY <1>1, PageTypes, RowsPage

LEMMA ChangeEntitiesPage ==
  ASSUME PageInv, NEW ids \in SUBSET Ids, ChangeEntities(ids)
  PROVE  PageInv'
<1>1. /\ entityIdentity.container \in Containers
      /\ Send([n |-> sent + 1, kind |-> "change", container |-> entityIdentity.container, ids |-> ids])
      /\ editor' = Text(IF editor.about = None THEN header.container ELSE editor.about, ids)
      /\ UNCHANGED <<tableVars, entityIdentity, header, activeExplorerEditor, historyVars>>
  BY DEF ChangeEntities
<1>2. /\ PendingInv' /\ \A r \in pending' : r.n \in 1..sent'
      /\ sent' = sent + 1 /\ sent' \in 0..MaxRequests
  BY <1>1, SendTyped DEF PageInv
<1>3. editor' \in [about : Shown, ids : SUBSET Ids]
  BY <1>1, PageTypes DEF Text, Shown
<1>4. sent' \in sent..MaxRequests /\ entityIdentity' \in [n : 0..sent', container : Shown, ids : SUBSET Ids]
  BY <1>1, <1>2, PageTypes
<1> QED
  BY <1>1, <1>2, <1>3, <1>4, PageTypes, EditorPage

LEMMA DeleteEntitiesPage ==
  ASSUME PageInv, NEW c \in Containers, NEW ids \in SUBSET Ids, DeleteEntities(c, ids)
  PROVE  PageInv'
<1>1. /\ Send([n |-> sent + 1, kind |-> "delete", container |-> c, ids |-> ids])
      /\ UNCHANGED <<tableVars, entityIdentity, editor, header, activeExplorerEditor, historyVars>>
  BY DEF DeleteEntities, editorVars
<1>2. /\ PendingInv' /\ \A r \in pending' : r.n \in 1..sent'
      /\ sent' = sent + 1 /\ sent' \in 0..MaxRequests
  BY <1>1, SendTyped DEF PageInv
<1>3. sent' \in sent..MaxRequests /\ entityIdentity' \in [n : 0..sent', container : Shown, ids : SUBSET Ids]
  BY <1>1, <1>2, PageTypes
<1> QED
  BY <1>1, <1>2, <1>3, PageTypes, EditorPage

LEMMA DeleteEntitiesActionPage == PageInv /\ DeleteEntitiesAction => PageInv'
BY DeleteEntitiesPage, PageTypes DEF DeleteEntitiesAction

LEMMA DeleteSelectedPage == PageInv /\ DeleteSelected => PageInv'
<1> SUFFICES ASSUME PageInv, DeleteSelected PROVE PageInv'
  OBVIOUS
<1>1. selectedRows \in SUBSET Ids
  BY PageTypes DEF RowsTyped
<1> QED
  BY <1>1, DeleteEntitiesPage DEF DeleteSelected

LEMMA RequestFailedPage ==
  ASSUME PageInv, NEW r, RequestFailed(r)
  PROVE  PageInv'
<1>1. /\ PendingInv' /\ \A q \in pending' : q.n \in 1..sent'
      /\ sent' = sent
  BY AnsweredTyped DEF PageInv, RequestFailed
<1>2. UNCHANGED <<tableVars, entityIdentity, editor, header, activeExplorerEditor, historyVars>>
  BY DEF RequestFailed, editorVars
<1> QED
  BY <1>1, <1>2, PageTypes, EditorPage

\* The text is emptied or about the command.
LEMMA ShowCommandTyped ==
  ASSUME PageInv, ShowCommand
  PROVE  /\ entityIdentity' \in [n : 0..sent, container : Shown, ids : SUBSET Ids]
         /\ editor' \in [about : Shown, ids : SUBSET Ids]
         /\ activeExplorerEditor' = "command" /\ UNCHANGED header
BY PageTypes DEF ShowCommand, Identity, Text, Shown

LEMMA ListCommandsPage == PageInv /\ ListCommands => PageInv'
<1> SUFFICES ASSUME PageInv, ListCommands PROVE PageInv'
  OBVIOUS
<1>1. /\ explorer' \in ExplorerType' /\ sent' = sent
      /\ explorerTable' = NoTable /\ explorerRows' = << >> /\ selectedRows' = {}
  BY PageTypes DEF ListCommands, InitExplorer, ExplorerType
<1>2. sent' \in Nat /\ PendingInv' /\ \A q \in pending' : q.n \in 1..sent'
  BY <1>1, PageTypes, IdleTyped DEF ListCommands, PageInv
<1>3. /\ explorerTable' \in [n : 0..sent', container : Containers \cup {None}]
      /\ RowsTyped(explorerRows)' /\ selectedRows' \subseteq DOMAIN explorerRows'
      /\ (explorerTable = NoTable <=> explorerTable.n = 0)'
  BY <1>1, <1>2, EmptyTable
<1>4. /\ entityIdentity' \in [n : 0..sent, container : Shown, ids : SUBSET Ids]
      /\ editor' \in [about : Shown, ids : SUBSET Ids]
      /\ activeExplorerEditor' \in {"command", "dbInfo"} /\ UNCHANGED header
  BY ShowCommandTyped, PageTypes DEF ListCommands
<1>5. TypeOK'
  BY <1>1, <1>2, <1>3, <1>4, PageTypes
  DEF PageInv, TypeOK, ListCommands, historyVars, RowsTyped, Rows
<1> QED
  BY <1>1, <1>2, <1>3, <1>4, <1>5 DEF PageInv, ShownInv

LEMMA SelectCommandPage == PageInv /\ SelectCommand => PageInv'
<1> SUFFICES ASSUME PageInv, SelectCommand PROVE PageInv'
  OBVIOUS
<1>1. ShowCommand /\ UNCHANGED <<tableVars, historyVars, pending, sent>>
  BY DEF SelectCommand
<1>2. PendingInv' /\ \A q \in pending' : q.n \in 1..sent'
  BY <1>1, IdleTyped DEF PageInv
<1>3. sent' = sent /\ sent' \in sent..MaxRequests
  BY <1>1, PageTypes
<1> QED
  BY <1>1, <1>2, <1>3, ShowCommandTyped, EditorPage

LEMMA SendCommandPage == PageInv /\ SendCommand => PageInv'
<1> SUFFICES ASSUME PageInv, SendCommand PROVE PageInv'
  OBVIOUS
<1>1. /\ Send([n |-> sent + 1, kind |-> "command"])
      /\ UNCHANGED <<tableVars, entityIdentity, editor, header, activeExplorerEditor, historyVars>>
  BY DEF SendCommand, editorVars
<1>2. /\ PendingInv' /\ \A r \in pending' : r.n \in 1..sent'
      /\ sent' = sent + 1 /\ sent' \in 0..MaxRequests
  BY <1>1, SendTyped DEF PageInv
<1>3. sent' \in sent..MaxRequests /\ entityIdentity' \in [n : 0..sent', container : Shown, ids : SUBSET Ids]
  BY <1>1, <1>2, PageTypes
<1> QED
  BY <1>1, <1>2, <1>3, PageTypes, EditorPage

LEMMA CommandResultPage ==
  ASSUME PageInv, NEW r, CommandResult(r)
  PROVE  PageInv'
<1>1. /\ PendingInv' /\ \A q \in pending' : q.n \in 1..sent'
      /\ sent' = sent
  BY AnsweredTyped DEF PageInv, CommandResult
<1>2. /\ editor' = Text(Command, {})
      /\ UNCHANGED <<tableVars, entityIdentity, header, activeExplorerEditor, historyVars>>
  BY DEF CommandResult
<1>3. editor' \in [about : Shown, ids : SUBSET Ids]
  BY <1>2 DEF Text, Shown
<1> QED
  BY <1>1, <1>2, <1>3, PageTypes, EditorPage

LEMMA NextPage == PageInv /\ [Next]_vars => PageInv'
<1> SUFFICES ASSUME PageInv, [Next]_vars PROVE PageInv'
  OBVIOUS
<1>1. CASE User
  BY <1>1, ShowContainerPage, ReloadContainerPage, OpenContainerPage, LoadMorePage,
     SelectExplorerEntitiesPage, ExplorerOnClickPage, TryFollowLinkPage, NavigateEntityPage,
     LoadEntitiesByIdPage, ChangeEntitiesPage, DeleteEntitiesActionPage, DeleteSelectedPage,
     ListCommandsPage, SelectCommandPage, SendCommandPage
  DEF User
<1>2. ASSUME NEW r \in pending, Answer(r) PROVE PageInv'
  BY <1>2, ContainerLoadedPage, ContainerFailedPage, MoreLoadedPage, EntitiesLoadedPage,
     EntitiesChangedPage, EntitiesDeletedPage, CommandResultPage, RequestFailedPage
  DEF Answer
<1>3. CASE UNCHANGED vars
  BY <1>3
  DEF vars, tableVars, editorVars, historyVars, PageInv, TypeOK, ExplorerType, PendingInv,
      RequestTyped, ShownInv
<1> QED
  BY <1>1, <1>2, <1>3 DEF Next

LEMMA PageCorrect == Spec => []PageInv
BY InitPage, NextPage, PTL DEF Spec

\* The records, tables and positions of the page keep their types, whatever
\* goes astray.
THEOREM TypeCorrect == Spec => []TypeOK
<1>1. PageInv => TypeOK
  BY DEF PageInv
<1> QED
  BY <1>1, PageCorrect, PTL

-----------------------------------------------------------------------------
(***************************************************************************)
(* As long as no handler went astray.                                      *)
(***************************************************************************)
TableRequests  == {r \in pending : r.kind \in {"load", "more"}}
EntityRequests == {r \in pending : r.kind = "entities"}

RowsShown ==
    \A id \in DOMAIN explorerRows :
      /\ explorerRows[id] = [container |-> explorer.container, table |-> explorerTable.n]
      /\ explorerTable.n # 0

(***************************************************************************)
(* The answered explorer record has the shown table.  The load request of  *)
(* the record is pending before that, for its container; a request for     *)
(* more was sent for a record that was answered, so no load request that   *)
(* is still pending makes the record it belongs to.                        *)
(***************************************************************************)
TableInv ==
    /\ RowsShown
    /\ explorer.loadMorePending => \E r \in TableRequests : r.kind = "more" /\ r.ver = explorer.ver
    /\ \A r \in TableRequests : r.kind = "load" /\ r.n = explorer.n =>
         explorer.ver = 0 /\ r.container = explorer.container
    /\ explorer.ver = 0 => explorerTable = NoTable /\ ~explorer.cursor /\ ~explorer.loadMorePending
    /\ explorer.ver # 0 => explorerTable = [n |-> explorer.ver, container |-> explorer.container]
    /\ \A r \in TableRequests : r.kind = "more" =>
         r.ver # 0 /\ (r.ver = explorer.ver => r.container = explorer.container)
    /\ \A r \in TableRequests : r.kind = "load" =>
         r.n # explorer.ver /\ \A m \in TableRequests : m.kind = "more" => m.ver # r.n

\* The request that loads the shown entities is for their container.
EditorInv ==
    /\ activeExplorerEditor = "entity" =>
         /\ header = Header(entityIdentity.container, entityIdentity.ids)
         /\ \/ \E r \in EntityRequests : r.n = entityIdentity.n
            \/ editor.about \in {None, entityIdentity.container}
    /\ \A r \in EntityRequests : r.n = entityIdentity.n => r.container = entityIdentity.container

HistoryInv ==
    entityIdentity.ids # {} /\ ~(\E r \in EntityRequests : r.then = "update") =>
        /\ entityHistoryPos > 0
        /\ entityHistory[entityHistoryPos] =
             [container |-> entityIdentity.container, ids |-> entityIdentity.ids]

CourseInv == ~astray => TableInv /\ EditorInv /\ HistoryInv

LEMMA SendKeeps ==
  ASSUME NEW request, Send(request)
  PROVE  /\ request.kind \notin {"load", "more"} => TableRequests' = TableRequests
         /\ request.kind # "entities" => EntityRequests' = EntityRequests
         /\ request.kind = "entities" => EntityRequests' = EntityRequests \cup {request}
         /\ request.kind \in {"load", "more"} => TableRequests' = TableRequests \cup {request}
BY DEF Send, TableRequests, EntityRequests

LEMMA AnsweredKeeps ==
  ASSUME NEW r, Answered(r)
  PROVE  /\ r.kind \notin {"load", "more"} => TableRequests' = TableRequests
         /\ r.kind # "entities" => EntityRequests' = EntityRequests
         /\ TableRequests' = TableRequests \ {r}
         /\ EntityRequests' = EntityRequests \ {r}
BY DEF Answered, TableRequests, EntityRequests

LEMMA IdleKeeps ==
  ASSUME UNCHANGED pending
  PROVE  TableRequests' = TableRequests /\ EntityRequests' = EntityRequests
BY DEF TableRequests, EntityRequests

LEMMA TableKept ==
  ASSUME TableInv, UNCHANGED <<explorer, explorerTable>>, RowsShown',
         TableRequests' = TableRequests
  PROVE  TableInv'
BY DEF TableInv

LEMMA TableFixed ==
  ASSUME TableInv, UNCHANGED <<explorer, explorerTable, explorerRows>>,
         TableRequests' = TableRequests
  PROVE  TableInv'
BY TableKept DEF TableInv, RowsShown

LEMMA EditorKept ==
  ASSUME EditorInv, UNCHANGED <<entityIdentity, editor, header, activeExplorerEditor>>,
         EntityRequests' = EntityRequests
  PROVE  EditorInv'
BY DEF EditorInv

LEMMA HistoryKept ==
  ASSUME HistoryInv, UNCHANGED <<entityIdentity, entityHistory, entityHistoryPos>>,
         EntityRequests' = EntityRequests
  PROVE  HistoryInv'
BY DEF HistoryInv

\* Steps of the table that the editor does not see.
LEMMA EditorUnseen ==
  ASSUME EditorInv, HistoryInv, UNCHANGED <<editorVars, historyVars>>,
         EntityRequests' = EntityRequests
  PROVE  EditorInv' /\ HistoryInv'
BY EditorKept, HistoryKept DEF editorVars, historyVars

LEMMA RequestNumbers ==
  ASSUME PageInv
  PROVE  /\ sent \in Nat
         /\ \A r \in TableRequests : r.n \in 1..sent /\ (r.kind = "more" => r.ver \in 0..sent)
         /\ \A r \in EntityRequests : r.n \in 1..sent
         /\ \A r, s \in pending : r.n = s.n => r = s
         /\ explorer.n \in 0..sent /\ explorer.ver \in 0..sent
         /\ entityIdentity.n \in 0..sent
BY EntityExplorerAssumption
DEF PageInv, PendingInv, RequestTyped, TableRequests, EntityRequests, TypeOK, ExplorerType

LEMMA InitCourse == Init => CourseInv
BY DEF Init, CourseInv, TableInv, EditorInv, HistoryInv, RowsShown, TableRequests, EntityRequests,
       NoTable, Identity

-----------------------------------------------------------------------------
\* The table.
LEMMA LoadContainerCourse ==
  ASSUME PageInv, TableInv, NEW c, NEW then, LoadContainer(c, then)
  PROVE  TableInv' /\ EntityRequests' = EntityRequests
<1> DEFINE request == [n |-> sent + 1, kind |-> "load", container |-> c, then |-> then]
<1>1. /\ TableRequests' = TableRequests \cup {request}
      /\ EntityRequests' = EntityRequests
  BY SendKeeps DEF LoadContainer
<1>2. /\ explorer' = [n |-> sent + 1, ver |-> 0, container |-> c, cursor |-> FALSE,
                      loadMorePending |-> FALSE]
      /\ explorerTable' = NoTable /\ explorerRows' = << >>
  BY DEF LoadContainer, InitExplorer
<1>3. request.n = sent + 1 /\ request.kind = "load" /\ request.container = c
  OBVIOUS
<1> HIDE DEF request
<1>4. RowsShown'
  BY <1>2 DEF RowsShown
<1>5. \A r \in TableRequests' : r.kind = "load" /\ r.n = sent + 1 => r.container = c
  BY <1>1, <1>3, RequestNumbers
<1>6. \A r \in TableRequests' : r.kind = "more" => r.ver # 0
  BY <1>1, <1>3 DEF TableInv
<1>7. \A r \in TableRequests' : r.kind = "load" =>
        r.n # 0 /\ \A m \in TableRequests' : m.kind = "more" => m.ver # r.n
  BY <1>1, <1>3, RequestNumbers DEF TableInv
<1> QED
  BY <1>1, <1>2, <1>4, <1>5, <1>6, <1>7 DEF TableInv

LEMMA ShowContainerCourse ==
  ASSUME PageInv, TableInv, NEW c, ShowContainer(c)
  PROVE  TableInv' /\ EditorInv' /\ HistoryInv'
<1>1. TableInv' /\ EntityRequests' = EntityRequests
  BY LoadContainerCourse DEF ShowContainer
<1> QED
  BY <1>1, RequestNumbers DEF ShowContainer, EditorInv, HistoryInv, Identity, Text, Header

LEMMA LoadOnlyCourse ==
  ASSUME PageInv, TableInv, EditorInv, HistoryInv,
         ReloadContainer \/ OpenContainer
  PROVE  TableInv' /\ EditorInv' /\ HistoryInv'
BY LoadContainerCourse, EditorUnseen DEF ReloadContainer, OpenContainer

LEMMA ContainerLoadedCourse ==
  ASSUME PageInv, TableInv, EditorInv, HistoryInv, ~astray',
         NEW r, NEW ids, NEW cursor \in BOOLEAN, ContainerLoaded(r, ids, cursor)
  PROVE  TableInv' /\ EditorInv' /\ HistoryInv'
<1>1. r.kind = "load" /\ r \in pending /\ r \in TableRequests /\ r.n = explorer.n
  BY DEF ContainerLoaded, Answered, TableRequests
<1>2. /\ TableRequests' = TableRequests \ {r}
      /\ EntityRequests' = EntityRequests
  BY <1>1, AnsweredKeeps DEF ContainerLoaded
<1>3. r.n \in 1..sent /\ explorer.ver = 0 /\ r.container = explorer.container
      /\ ~explorer.loadMorePending /\ explorerTable = NoTable
  BY <1>1, RequestNumbers DEF TableInv
<1>4. DOMAIN explorerRows = {}
  BY <1>3 DEF TableInv, RowsShown, NoTable
<1>5. explorer \in ExplorerType
  BY DEF PageInv, TypeOK
<1>6. /\ explorer'.n = r.n /\ explorer'.ver = r.n /\ explorer'.container = r.container
      /\ ~explorer'.loadMorePending
      /\ explorerTable' = [n |-> r.n, container |-> r.container]
  BY <1>1, <1>3, <1>5 DEF ContainerLoaded, ExplorerType
<1>7. /\ DOMAIN explorerRows' = ids
      /\ \A id \in ids : explorerRows'[id] = [container |-> r.container, table |-> r.n]
  BY <1>4 DEF ContainerLoaded, RowsWith
<1>8. RowsShown'
  BY <1>3, <1>6, <1>7 DEF RowsShown
<1>9. \A q \in TableRequests' : q.kind = "load" => q.n # r.n
  BY <1>1, <1>2, RequestNumbers DEF TableRequests
<1>10. \A m \in TableRequests' : m.kind = "more" => m.ver # r.n /\ m.ver # 0
  BY <1>1, <1>2 DEF TableInv
<1>11. TableInv'
  BY <1>2, <1>3, <1>6, <1>8, <1>9, <1>10 DEF TableInv
<1> QED
  BY <1>2, <1>11, EditorUnseen DEF ContainerLoaded

LEMMA ContainerFailedCourse ==
  ASSUME PageInv, TableInv, EditorInv, HistoryInv, NEW r, ContainerFailed(r)
  PROVE  TableInv' /\ EditorInv' /\ HistoryInv'
<1>1. r.kind = "load"
      /\ TableRequests' = TableRequests \ {r}
      /\ EntityRequests' = EntityRequests
  BY AnsweredKeeps DEF ContainerFailed
<1>2. RowsShown' /\ UNCHANGED <<explorer, explorerTable>>
  BY DEF TableInv, RowsShown, ContainerFailed
<1>3. TableInv'
  BY <1>1, <1>2 DEF TableInv
<1> QED
  BY <1>1, <1>3, EditorUnseen DEF ContainerFailed

LEMMA LoadMoreCourse ==
  ASSUME PageInv, TableInv, EditorInv, HistoryInv, LoadMore
  PROVE  TableInv' /\ EditorInv' /\ HistoryInv'
<1> DEFINE request == [n |-> sent + 1, kind |-> "more", ver |-> explorer.ver,
                       container |-> explorer.container]
<1>1. /\ TableRequests' = TableRequests \cup {request}
      /\ EntityRequests' = EntityRequests
  BY SendKeeps DEF LoadMore
<1>2. request.kind = "more" /\ request.ver = explorer.ver /\ request.container = explorer.container
  OBVIOUS
<1> HIDE DEF request
<1>3. explorer \in ExplorerType /\ explorer.ver # 0
  BY DEF PageInv, TypeOK, TableInv, LoadMore
<1>4. /\ explorer'.n = explorer.n /\ explorer'.ver = explorer.ver
      /\ explorer'.container = explorer.container
      /\ UNCHANGED explorerTable
  BY <1>3 DEF LoadMore, ExplorerType
<1>5. RowsShown'
  BY <1>4 DEF TableInv, RowsShown, LoadMore
<1>6. TableInv'
  BY <1>1, <1>2, <1>3, <1>4, <1>5 DEF TableInv
<1> QED
  BY <1>1, <1>6, EditorUnseen DEF LoadMore

\* Entities of the shown container join the rows of a shown table.
LEMMA RowsWithShown ==
  ASSUME RowsShown, explorerTable.n # 0, UNCHANGED <<explorer, explorerTable>>, NEW ids,
         explorerRows' = RowsWith(explorer.container, ids, explorerTable.n)
  PROVE  RowsShown'
<1> DEFINE shown == [container |-> explorer.container, table |-> explorerTable.n]
<1>1. \A id \in DOMAIN explorerRows :
        explorerRows[id].container = explorer.container /\ explorerRows[id].table = explorerTable.n
  BY DEF RowsShown
<1>2. /\ DOMAIN explorerRows' = DOMAIN explorerRows \cup ids
      /\ \A id \in DOMAIN explorerRows' : explorerRows'[id] = shown
  BY <1>1 DEF RowsWith
<1> QED
  BY <1>2 DEF RowsShown

LEMMA MoreLoadedCourse ==
  ASSUME PageInv, TableInv, EditorInv, HistoryInv, ~astray',
         NEW r, NEW ok \in BOOLEAN, NEW ids, NEW cursor \in BOOLEAN, MoreLoaded(r, ok, ids, cursor)
  PROVE  TableInv' /\ EditorInv' /\ HistoryInv'
<1>1. r.kind = "more" /\ r \in TableRequests /\ r.ver = explorer.ver
  BY DEF MoreLoaded, Answered, TableRequests
<1>2. /\ TableRequests' = TableRequests \ {r}
      /\ EntityRequests' = EntityRequests
  BY <1>1, AnsweredKeeps DEF MoreLoaded
<1>3. /\ r.container = explorer.container /\ explorer.ver # 0
      /\ explorerTable = [n |-> explorer.ver, container |-> explorer.container]
      /\ explorer \in ExplorerType
  BY <1>1 DEF TableInv, PageInv, TypeOK
<1>4. /\ explorer'.n = explorer.n /\ explorer'.ver = explorer.ver
      /\ explorer'.container = explorer.container /\ ~explorer'.loadMorePending
      /\ UNCHANGED explorerTable
  BY <1>1, <1>3 DEF MoreLoaded, ExplorerType
<1>5. RowsShown'
  <2>1. CASE ok
    <3>1. explorerRows' = RowsWith(explorer.container, ids, explorerTable.n)
      BY <1>3, <2>1 DEF MoreLoaded
    <3>2. \A id \in DOMAIN explorerRows :
            explorerRows[id].container = explorer.container
            /\ explorerRows[id].table = explorerTable.n
      BY DEF RowsShown, TableInv
    <3>3. \A id \in DOMAIN explorerRows' :
            explorerRows'[id] = [container |-> explorer.container, table |-> explorerTable.n]
      BY <3>1, <3>2 DEF RowsWith
    <3> QED
      BY <1>3, <1>4, <3>3 DEF RowsShown
  <2>2. CASE ~ok
    BY <1>4, <2>2 DEF MoreLoaded, TableInv, RowsShown
  <2> QED
    BY <2>1, <2>2
<1>6. TableInv'
  BY <1>2, <1>3, <1>4, <1>5 DEF TableInv
<1> QED
  BY <1>2, <1>6, EditorUnseen DEF MoreLoaded

LEMMA ListCommandsCourse ==
  ASSUME PageInv, TableInv, EditorInv, HistoryInv, ListCommands
  PROVE  TableInv' /\ EditorInv' /\ HistoryInv'
<1>1. TableRequests' = TableRequests /\ EntityRequests' = EntityRequests
  BY IdleKeeps DEF ListCommands
<1>2. /\ explorer' = [n |-> 0, ver |-> 0, container |-> None, cursor |-> FALSE,
                      loadMorePending |-> FALSE]
      /\ explorerTable' = NoTable /\ explorerRows' = << >>
  BY DEF ListCommands, InitExplorer
<1>3. RowsShown'
  BY <1>2 DEF RowsShown
<1>4. \A r \in TableRequests : r.n # 0
  BY RequestNumbers
<1>5. TableInv'
  BY <1>1, <1>2, <1>3, <1>4 DEF TableInv
<1>6. EditorInv' /\ HistoryInv'
  BY <1>1, RequestNumbers
  DEF ListCommands, ShowCommand, Identity, EditorInv, HistoryInv, historyVars
<1> QED
  BY <1>5, <1>6

-----------------------------------------------------------------------------
\* The editor.
LEMMA GetEntitiesCourse ==
  ASSUME PageInv, EditorInv, ~astray', NEW c, NEW ids, NEW then, GetEntities(c, ids, then)
  PROVE  /\ EditorInv' /\ TableRequests' = TableRequests
         /\ entityIdentity'.container = c /\ entityIdentity'.ids = ids
         /\ ids = {} => EntityRequests' = EntityRequests
         /\ then = "update" => ids = {} \/ \E r \in EntityRequests' : r.then = "update"
         /\ \A r \in EntityRequests : r \in EntityRequests'
<1>1. CASE ids = {}
  <2>1. /\ entityIdentity.container = c /\ entityIdentity.ids = {}
        /\ UNCHANGED <<entityIdentity, pending>> /\ editor' = Text(None, {})
        /\ header' = Header(c, ids)
    BY <1>1 DEF GetEntities, ShowEntities
  <2>2. TableRequests' = TableRequests /\ EntityRequests' = EntityRequests
    BY <2>1, IdleKeeps
  <2> QED
    BY <1>1, <2>1, <2>2 DEF EditorInv, Text
<1>2. CASE ids # {}
  <2> DEFINE request == [n |-> sent + 1, kind |-> "entities", container |-> c,
                         ids |-> ids, then |-> then]
  <2>1. /\ Send(request) /\ entityIdentity' = Identity(sent + 1, c, ids)
        /\ header' = Header(c, ids)
    BY <1>2 DEF GetEntities, ShowEntities
  <2>2. TableRequests' = TableRequests /\ EntityRequests' = EntityRequests \cup {request}
    BY <2>1, SendKeeps
  <2>3. request.n = sent + 1 /\ request.container = c /\ request.then = then
    OBVIOUS
  <2> HIDE DEF request
  <2>4. \A r \in EntityRequests : r.n # sent + 1
    BY RequestNumbers
  <2> QED
    BY <1>2, <2>1, <2>2, <2>3, <2>4 DEF EditorInv, Identity
<1> QED
  BY <1>1, <1>2

LEMMA VisitEntitiesCourse ==
  ASSUME PageInv, TableInv, EditorInv, HistoryInv, ~astray',
         NEW c \in Containers, NEW ids \in SUBSET Ids, VisitEntities(c, ids),
         UNCHANGED <<explorer, explorerTable, explorerRows>>
  PROVE  TableInv' /\ EditorInv' /\ HistoryInv'
<1>1. /\ EditorInv' /\ TableRequests' = TableRequests
      /\ entityIdentity'.container = c /\ entityIdentity'.ids = ids
  BY GetEntitiesCourse DEF VisitEntities
<1>2. HistoryInv'
  <2>1. CASE ids = {}
    BY <1>1, <2>1 DEF HistoryInv
  <2>2. CASE ids # {}
    <3>1. /\ entityHistoryPos' \in 1..Len(entityHistory')
          /\ entityHistory'[entityHistoryPos'] = [container |-> c, ids |-> ids]
      BY <2>2, VisitTyped DEF VisitEntities, PageInv
    <3> QED
      BY <1>1, <3>1 DEF HistoryInv
  <2> QED
    BY <2>1, <2>2
<1> QED
  BY <1>1, <1>2, TableFixed

LEMMA SelectCourse ==
  ASSUME PageInv, TableInv, EditorInv, HistoryInv, ~astray',
         NEW ids \in SUBSET Ids, SelectExplorerEntities(ids) \/ ExplorerOnClick(ids)
  PROVE  TableInv' /\ EditorInv' /\ HistoryInv'
BY VisitEntitiesCourse
DEF SelectExplorerEntities, ExplorerOnClick, SelectRows, PageInv, ShownInv

LEMMA TryFollowLinkCourse ==
  ASSUME PageInv, TableInv, EditorInv, HistoryInv, ~astray',
         NEW c \in Containers, NEW id \in Ids, TryFollowLink(c, id)
  PROVE  TableInv' /\ EditorInv' /\ HistoryInv'
BY VisitEntitiesCourse DEF TryFollowLink, tableVars

LEMMA NavigateEntityCourse ==
  ASSUME PageInv, TableInv, EditorInv, HistoryInv, ~astray', NEW pos, NavigateEntity(pos)
  PROVE  TableInv' /\ EditorInv' /\ HistoryInv'
<1>1. entityHistory \in Seq(Entry) /\ pos \in 1..Len(entityHistory)
  BY PageTypes DEF NavigateEntity
<1>2. entityHistory[pos] \in Entry /\ pos > 0
  BY <1>1
<1>3. GetEntities(entityHistory[pos].container, entityHistory[pos].ids, "none")
  BY DEF NavigateEntity
<1>4. /\ EditorInv' /\ TableRequests' = TableRequests
      /\ entityIdentity'.container = entityHistory[pos].container
      /\ entityIdentity'.ids = entityHistory[pos].ids
  BY <1>3, GetEntitiesCourse
<1>5. entityHistory' = entityHistory /\ entityHistoryPos' = pos
  BY DEF NavigateEntity
<1>6. entityHistory[pos] = [container |-> entityHistory[pos].container,
                            ids |-> entityHistory[pos].ids]
  BY <1>2 DEF Entry
<1>7. HistoryInv'
  BY <1>2, <1>4, <1>5, <1>6 DEF HistoryInv
<1> QED
  BY <1>4, <1>7, TableFixed DEF NavigateEntity, tableVars

\* selectEntities(): the history is at the entities it is called with.
LEMMA SelectEntitiesCourse ==
  ASSUME PageInv, NEW c \in Containers, NEW ids \in SUBSET Ids, NEW rows,
         SelectEntities(c, ids, rows), entityIdentity.container = c
  PROVE  /\ HistoryInv' /\ entityIdentity'.n = entityIdentity.n
         /\ entityIdentity'.container = c /\ entityIdentity'.ids = ids
<1>1. entityIdentity' = [entityIdentity EXCEPT !.ids = ids] /\ Visit(c, ids)
  BY DEF SelectEntities
<1>2. /\ entityIdentity'.n = entityIdentity.n
      /\ entityIdentity'.container = c /\ entityIdentity'.ids = ids
  BY <1>1, PageTypes
<1>3. /\ entityHistoryPos' \in 1..Len(entityHistory')
      /\ entityHistory'[entityHistoryPos'] = [container |-> c, ids |-> ids]
  BY <1>1, VisitTyped DEF PageInv
<1> QED
  BY <1>2, <1>3 DEF HistoryInv

LEMMA LoadEntitiesByIdCourse ==
  ASSUME PageInv, TableInv, EditorInv, HistoryInv, ~astray',
         NEW ids \in SUBSET Ids, LoadEntitiesById(ids)
  PROVE  TableInv' /\ EditorInv' /\ HistoryInv'
<1>1. CASE /\ GetEntities(header.container, ids, IF ids = entityIdentity.ids THEN "none" ELSE "update")
           /\ UNCHANGED <<tableVars, historyVars>>
  <2> DEFINE then == IF ids = entityIdentity.ids THEN "none" ELSE "update"
  <2>1. /\ EditorInv' /\ TableRequests' = TableRequests
        /\ entityIdentity'.container = header.container /\ entityIdentity'.ids = ids
        /\ ids = {} => EntityRequests' = EntityRequests
        /\ then = "update" => ids = {} \/ \E r \in EntityRequests' : r.then = "update"
        /\ \A r \in EntityRequests : r \in EntityRequests'
    BY <1>1, GetEntitiesCourse
  <2>2. header.container = entityIdentity.container
    BY DEF LoadEntitiesById, EditorInv, Header
  <2>3. HistoryInv'
    <3>1. CASE ids = entityIdentity.ids
      BY <1>1, <2>1, <2>2, <3>1 DEF HistoryInv, historyVars
    <3>2. CASE ids # entityIdentity.ids
      BY <2>1, <3>2 DEF HistoryInv
    <3> QED
      BY <3>1, <3>2
  <2> QED
    BY <1>1, <2>1, <2>3, TableFixed DEF tableVars
<1>2. CASE /\ editor' = Text(None, {})
           /\ header' = [header EXCEPT !.ids = {}]
           /\ astray' = (astray \/ entityIdentity.container # header.container
                                \/ UpdateThrows(header.container))
           /\ IF UpdateThrows(header.container)
                THEN UNCHANGED <<entityIdentity, selectedRows, historyVars>>
                ELSE SelectEntities(header.container, {}, explorerRows)
           /\ UNCHANGED <<explorer, explorerTable, explorerRows, activeExplorerEditor,
                          pending, sent>>
  <2>1. /\ SelectEntities(header.container, {}, explorerRows)
        /\ entityIdentity.container = header.container /\ header.container \in Containers
    BY <1>2 DEF LoadEntitiesById
  <2>2. /\ HistoryInv' /\ entityIdentity'.n = entityIdentity.n
        /\ entityIdentity'.container = header.container /\ entityIdentity'.ids = {}
    BY <2>1, SelectEntitiesCourse
  <2>3. TableRequests' = TableRequests /\ EntityRequests' = EntityRequests
    BY <1>2, IdleKeeps
  <2>4. header' = Header(header.container, {})
    BY <1>2, PageTypes DEF Header
  <2>5. EditorInv'
    BY <1>2, <2>1, <2>2, <2>3, <2>4 DEF EditorInv, Text
  <2> QED
    BY <1>2, <2>2, <2>3, <2>5, TableFixed
<1> QED
  BY <1>1, <1>2 DEF LoadEntitiesById

\* updateEntities(): the rows it adds to are those of a shown table.
LEMMA UpdatedRowsShown ==
  ASSUME PageInv, RowsShown, NEW c, NEW ids, ~UpdateThrows(c),
         explorerRows' = UpdatedRows(c, ids), UNCHANGED <<explorer, explorerTable>>
  PROVE  RowsShown'
<1>1. CASE explorer.container = c
  <2>1. explorerTable.n # 0
    BY <1>1 DEF UpdateThrows, PageInv, ShownInv
  <2> QED
    BY <1>1, <2>1, RowsWithShown DEF UpdatedRows
<1>2. CASE explorer.container # c
  BY <1>2 DEF UpdatedRows, RowsShown
<1> QED
  BY <1>1, <1>2

LEMMA EntitiesLoadedCourse ==
  ASSUME PageInv, TableInv, EditorInv, HistoryInv, ~astray',
         NEW r, NEW ok \in BOOLEAN, NEW found, EntitiesLoaded(r, ok, found)
  PROVE  TableInv' /\ EditorInv' /\ HistoryInv'
<1>1. /\ r.kind = "entities" /\ Answered(r) /\ r \in EntityRequests
      /\ r.n = entityIdentity.n /\ entityIdentity.ids = r.ids
      /\ r.then = "update" => ~UpdateThrows(r.container)
      /\ editor' = Text(r.container, r.ids)
      /\ UNCHANGED <<explorer, explorerTable, header, activeExplorerEditor>>
  BY DEF EntitiesLoaded, Answered, EntityRequests
<1>2. /\ TableRequests' = TableRequests
      /\ EntityRequests' = EntityRequests \ {r}
  BY <1>1, AnsweredKeeps
<1>3. RequestTyped(r) /\ r.container \in Containers /\ r.ids \in SUBSET Ids
  BY <1>1, AnsweredTyped DEF PageInv, RequestTyped
<1>4. entityIdentity.container = r.container
  BY <1>1 DEF EditorInv
<1>5. CASE r.then = "update"
  <2>1. /\ explorerRows' = UpdatedRows(r.container, found)
        /\ SelectEntities(r.container, r.ids, UpdatedRows(r.container, found))
    BY <1>1, <1>5 DEF EntitiesLoaded
  <2>2. /\ HistoryInv' /\ entityIdentity'.n = entityIdentity.n
        /\ entityIdentity'.container = r.container /\ entityIdentity'.ids = r.ids
    BY <1>3, <1>4, <2>1, SelectEntitiesCourse
  <2>3. RowsShown'
    BY <1>1, <1>5, <2>1, UpdatedRowsShown DEF TableInv
  <2>4. EditorInv'
    BY <1>1, <1>2, <1>4, <2>2 DEF EditorInv, Text
  <2> QED
    BY <1>1, <1>2, <2>2, <2>3, <2>4, TableKept
<1>6. CASE r.then # "update"
  <2>1. UNCHANGED <<explorerRows, entityIdentity, entityHistory, entityHistoryPos>>
    BY <1>6 DEF EntitiesLoaded, historyVars
  <2>2. EditorInv'
    BY <1>1, <1>2, <1>4, <2>1 DEF EditorInv, Text
  <2>3. HistoryInv'
    BY <1>2, <1>6, <2>1 DEF HistoryInv
  <2> QED
    BY <1>1, <1>2, <2>1, <2>2, <2>3, TableFixed
<1> QED
  BY <1>5, <1>6

LEMMA EntitiesChangedCourse ==
  ASSUME PageInv, TableInv, EditorInv, HistoryInv, ~astray', NEW r, EntitiesChanged(r)
  PROVE  TableInv' /\ EditorInv' /\ HistoryInv'
<1>1. /\ r.kind = "change" /\ Answered(r)
      /\ ~UpdateThrows(r.container) /\ entityIdentity.container = r.container
      /\ explorerRows' = UpdatedRows(r.container, r.ids)
      /\ UNCHANGED <<explorer, explorerTable, editor, activeExplorerEditor>>
  BY DEF EntitiesChanged
<1>2. TableRequests' = TableRequests /\ EntityRequests' = EntityRequests
  BY <1>1, AnsweredKeeps
<1>3. r.container \in Containers /\ r.ids \in SUBSET Ids
  BY <1>1, AnsweredTyped DEF PageInv, RequestTyped
<1>4. RowsShown'
  BY <1>1, UpdatedRowsShown DEF TableInv
<1>5. CASE entityIdentity.ids = r.ids
  <2>1. UNCHANGED <<header, entityIdentity, entityHistory, entityHistoryPos>>
    BY <1>5 DEF EntitiesChanged, historyVars
  <2> QED
    BY <1>1, <1>2, <1>4, <2>1, TableKept, EditorKept, HistoryKept
<1>6. CASE entityIdentity.ids # r.ids
  <2>1. /\ header' = Header(r.container, r.ids)
        /\ SelectEntities(r.container, r.ids, UpdatedRows(r.container, r.ids))
    BY <1>1, <1>6 DEF EntitiesChanged
  <2>2. /\ HistoryInv' /\ entityIdentity'.n = entityIdentity.n
        /\ entityIdentity'.container = r.container /\ entityIdentity'.ids = r.ids
    BY <1>1, <1>3, <2>1, SelectEntitiesCourse
  <2>3. EditorInv'
    BY <1>1, <1>2, <2>1, <2>2 DEF EditorInv
  <2> QED
    BY <1>1, <1>2, <1>4, <2>2, <2>3, TableKept
<1> QED
  BY <1>5, <1>6

LEMMA EntitiesDeletedCourse ==
  ASSUME PageInv, TableInv, EditorInv, HistoryInv, ~astray', NEW r, EntitiesDeleted(r)
  PROVE  TableInv' /\ EditorInv' /\ HistoryInv'
<1>1. /\ r.kind = "delete" /\ Answered(r) /\ entityIdentity.container = r.container
      /\ entityIdentity' = [entityIdentity EXCEPT !.ids = {}]
      /\ header' = Header(r.container, {}) /\ editor' = Text(None, {})
      /\ UNCHANGED <<explorer, explorerTable>>
  BY DEF EntitiesDeleted
<1>2. TableRequests' = TableRequests /\ EntityRequests' = EntityRequests
  BY <1>1, AnsweredKeeps
<1>3. /\ entityIdentity'.n = entityIdentity.n
      /\ entityIdentity'.container = r.container /\ entityIdentity'.ids = {}
  BY <1>1, PageTypes
<1>4. RowsShown'
  BY <1>1 DEF TableInv, RowsShown, EntitiesDeleted, Restrict
<1>5. EditorInv' /\ HistoryInv'
  BY <1>1, <1>2, <1>3 DEF EditorInv, HistoryInv, Text
<1> QED
  BY <1>1, <1>2, <1>4, <1>5, TableKept

LEMMA ChangeEntitiesCourse ==
  ASSUME PageInv, TableInv, EditorInv, HistoryInv, NEW ids, ChangeEntities(ids)
  PROVE  TableInv' /\ EditorInv' /\ HistoryInv'
<1> DEFINE request == [n |-> sent + 1, kind |-> "change", container |-> entityIdentity.container,
                       ids |-> ids]
<1>1. /\ Send(request) /\ activeExplorerEditor = "entity"
      /\ editor' = Text(IF editor.about = None THEN header.container ELSE editor.about, ids)
      /\ UNCHANGED <<tableVars, entityIdentity, header, activeExplorerEditor, historyVars>>
  BY DEF ChangeEntities
<1>2. TableRequests' = TableRequests /\ EntityRequests' = EntityRequests
  BY <1>1, SendKeeps
<1>3. EditorInv'
  BY <1>1, <1>2 DEF EditorInv, Text, Header
<1> QED
  BY <1>1, <1>2, <1>3, TableFixed, HistoryKept DEF tableVars, historyVars

LEMMA DeleteEntitiesCourse ==
  ASSUME PageInv, TableInv, EditorInv, HistoryInv, DeleteEntitiesAction \/ DeleteSelected
  PROVE  TableInv' /\ EditorInv' /\ HistoryInv'
<1>1. TableRequests' = TableRequests /\ EntityRequests' = EntityRequests
  BY SendKeeps DEF DeleteEntitiesAction, DeleteSelected, DeleteEntities
<1> QED
  BY <1>1, TableFixed, EditorUnseen
  DEF DeleteEntitiesAction, DeleteSelected, DeleteEntities, tableVars

LEMMA RequestFailedCourse ==
  ASSUME PageInv, TableInv, EditorInv, HistoryInv, NEW r, RequestFailed(r)
  PROVE  TableInv' /\ EditorInv' /\ HistoryInv'
<1>1. TableRequests' = TableRequests /\ EntityRequests' = EntityRequests
  BY AnsweredKeeps DEF RequestFailed
<1> QED
  BY <1>1, TableFixed, EditorUnseen DEF RequestFailed, tableVars

LEMMA SelectCommandCourse ==
  ASSUME PageInv, TableInv, EditorInv, HistoryInv, SelectCommand
  PROVE  TableInv' /\ EditorInv' /\ HistoryInv'
<1>1. TableRequests' = TableRequests /\ EntityRequests' = EntityRequests
  BY IdleKeeps DEF SelectCommand
<1>2. EditorInv' /\ HistoryInv'
  BY <1>1, RequestNumbers DEF SelectCommand, ShowCommand, Identity, EditorInv, HistoryInv
<1> QED
  BY <1>1, <1>2, TableFixed DEF SelectCommand, tableVars

LEMMA SendCommandCourse ==
  ASSUME PageInv, TableInv, EditorInv, HistoryInv, SendCommand
  PROVE  TableInv' /\ EditorInv' /\ HistoryInv'
<1>1. TableRequests' = TableRequests /\ EntityRequests' = EntityRequests
  BY SendKeeps DEF SendCommand
<1> QED
  BY <1>1, TableFixed, EditorUnseen DEF SendCommand, tableVars

\* With an editor of entities the command's result would have gone astray.
LEMMA CommandResultCourse ==
  ASSUME PageInv, TableInv, EditorInv, HistoryInv, ~astray', NEW r, CommandResult(r)
  PROVE  TableInv' /\ EditorInv' /\ HistoryInv'
<1>1. TableRequests' = TableRequests /\ EntityRequests' = EntityRequests
  BY AnsweredKeeps DEF CommandResult
<1>2. activeExplorerEditor # "entity"
  <2>1. entityIdentity.container = Command /\ Command \notin Containers
    BY EntityExplorerAssumption DEF CommandResult
  <2>2. activeExplorerEditor = "entity" =>
          header.container = entityIdentity.container /\ header.container \in Containers
    BY DEF EditorInv, Header, PageInv, ShownInv
  <2> QED
    BY <2>1, <2>2
<1>3. EditorInv'
  BY <1>1, <1>2 DEF CommandResult, EditorInv
<1> QED
  BY <1>1, <1>3, TableFixed, HistoryKept DEF CommandResult, tableVars, historyVars

\* A handler that went astray is not forgotten.
LEMMA NeverBack == [Next]_vars /\ astray => astray'
<1> SUFFICES ASSUME [Next]_vars, ~astray' PROVE ~astray
  OBVIOUS
<1>1. CASE User
  BY <1>1 DEF User, ShowContainer, ReloadContainer, OpenContainer, LoadMore,
     SelectExplorerEntities, ExplorerOnClick, SelectRows, TryFollowLink, NavigateEntity,
     VisitEntities, GetEntities, ShowEntities, LoadEntitiesById, ChangeEntities,
     DeleteEntitiesAction, DeleteSelected, DeleteEntities, ListCommands, SelectCommand, SendCommand
<1>2. ASSUME NEW r \in pending, Answer(r) PROVE ~astray
  BY <1>2 DEF Answer, ContainerLoaded, ContainerFailed, MoreLoaded, EntitiesLoaded,
     EntitiesChanged, EntitiesDeleted, CommandResult, RequestFailed
<1>3. CASE UNCHANGED vars
  BY <1>3 DEF vars
<1> QED
  BY <1>1, <1>2, <1>3 DEF Next

LEMMA NextCourse == PageInv /\ CourseInv /\ [Next]_vars => CourseInv'
<1> SUFFICES ASSUME PageInv, CourseInv, [Next]_vars, ~astray'
             PROVE  TableInv' /\ EditorInv' /\ HistoryInv'
  BY DEF CourseInv
<1>0. TableInv /\ EditorInv /\ HistoryInv
  BY NeverBack DEF CourseInv
<1>1. CASE User
  BY <1>0, <1>1, ShowContainerCourse, LoadOnlyCourse, LoadMoreCourse, SelectCourse,
     TryFollowLinkCourse, NavigateEntityCourse, LoadEntitiesByIdCourse, ChangeEntitiesCourse,
     DeleteEntitiesCourse, ListCommandsCourse, SelectCommandCourse, SendCommandCourse
  DEF User
<1>2. ASSUME NEW r \in pending, Answer(r) PROVE TableInv' /\ EditorInv' /\ HistoryInv'
  BY <1>0, <1>2, ContainerLoadedCourse, ContainerFailedCourse, MoreLoadedCourse,
     EntitiesLoadedCourse, EntitiesChangedCourse, EntitiesDeletedCourse, CommandResultCourse,
     RequestFailedCourse
  DEF Answer
<1>3. CASE UNCHANGED vars
  BY <1>0, <1>3, IdleKeeps, TableFixed, EditorUnseen DEF vars, tableVars
<1> QED
  BY <1>1, <1>2, <1>3 DEF Next

LEMMA CourseCorrect == Spec => []CourseInv
BY PageCorrect, InitCourse, NextCourse, PTL DEF Spec

\* Answers in any order: as long as each was for the container the page had,
\* the rows are those of the shown table and of the explorer's container.
THEOREM TableCorrect == Spec => []TableShowsContainer
<1>1. CourseInv => TableShowsContainer
  BY DEF CourseInv, TableInv, RowsShown, TableRequests, TableShowsContainer
<1> QED
  BY <1>1, CourseCorrect, PTL

\* As long as no answer went astray, Save and Delete act on the entities that
\* are named above the editor, and the text is about their container.
THEOREM EditorCorrect == Spec => []EditorShowsIdentity
<1>1. CourseInv => EditorShowsIdentity
  BY DEF CourseInv, EditorInv, EntityRequests, EditorShowsIdentity, Loading
<1> QED
  BY <1>1, CourseCorrect, PTL

\* As long as no answer went astray, the history stands at the entities of the
\* editor, whatever order they were visited and loaded in.
THEOREM HistoryCorrect == Spec => []HistoryAtIdentity
<1>1. CourseInv => HistoryAtIdentity
  BY DEF CourseInv, HistoryInv, EntityRequests, HistoryAtIdentity, Entering
<1> QED
  BY <1>1, CourseCorrect, PTL
=============================================================================
