----------------------------- MODULE EventView -----------------------------
(***************************************************************************)
(* The Pub-Sub tab of the Hub Explorer (explorer/src/events.ts): every     *)
(* received event is kept in subEvents; the log shows those the selected   *)
(* tree entry and the user / seq filter let through, built anew when a     *)
(* filter changes and appended to when an event arrives.                   *)
(*                                                                         *)
(* A tree entry is all, a database, one of its containers, its messages or *)
(* one of its messages.  The text of an event is abstracted to its         *)
(* position in subEvents.                                                  *)
(***************************************************************************)
EXTENDS Integers, Sequences, FiniteSets

CONSTANTS
    Databases,
    Containers,
    Messages,           \* names of messages and commands
    Users,
    MaxSeq              \* Number.MAX_SAFE_INTEGER: no upper limit of the seqs

ASSUME MaxSeqAssumption == MaxSeq \in Nat

VARIABLES
    subEvents,          \* all received events, in the order of arrival
    selectedTreeEl,     \* selected entry of the tree, NoEntry is null
    users,              \* user filter: a set of users
    seqRange,           \* seq filter: [start, end] for seqStart, seqEnd
    log,                \* the events shown, as positions in subEvents
    logCount,           \* the number shown above the log
    cleared             \* history: Len(subEvents) when the log was cleared

viewVars == <<subEvents, selectedTreeEl, users, seqRange, log, logCount, cleared>>

Entry(kind, db, name) == [kind |-> kind, db |-> db, name |-> name]
NoEntry  == Entry("none", "", "")
AllEntry == Entry("all", "", "")
Entries == {AllEntry}
           \cup {Entry(kind, db, "") : kind \in {"database", "messages"}, db \in Databases}
           \cup {Entry("container", db, c) : db \in Databases, c \in Containers}
           \cup {Entry("message", db, m) : db \in Databases, m \in Messages}

\* What SubEvent keeps of a SyncEvent.
SubEvent == [db : Databases, usr : Users, seq : Nat,
             containers : SUBSET Containers, messages : SUBSET Messages]

\* EventFilter.match() for the filter the handler of the entry creates.
Match(entry, ev) ==
    CASE entry.kind = "none"      -> FALSE
      [] entry.kind = "all"       -> TRUE
      [] entry.kind = "database"  -> entry.db = ev.db /\ ev.containers \cup ev.messages # {}
      [] entry.kind = "container" -> entry.db = ev.db /\ entry.name \in ev.containers
      [] entry.kind = "messages"  -> entry.db = ev.db /\ ev.messages # {}
      [] entry.kind = "message"   -> entry.db = ev.db /\ entry.name \in ev.messages

FilterSeqSrc(us, range, ev) ==
    range.start <= ev.seq /\ ev.seq <= range.end /\ ev.usr \in us

\* filterEvents()
Filtered(events, entry, us, range) ==
    {i \in 1..Len(events) : Match(entry, events[i]) /\ FilterSeqSrc(us, range, events[i])}

InitView ==
    /\ subEvents = <<>>
    /\ selectedTreeEl = NoEntry
    /\ users = Users
    /\ seqRange = [start |-> 0, end |-> MaxSeq]
    /\ log = {}
    /\ logCount = 0
    /\ cleared = 0

\* setEditorLog()
SetEditorLog(entry, us, range) ==
    /\ selectedTreeEl' = entry
    /\ users' = us
    /\ seqRange' = range
    /\ log' = Filtered(subEvents, entry, us, range)
    /\ logCount' = Cardinality(Filtered(subEvents, entry, us, range))
    /\ cleared' = 0
    /\ UNCHANGED subEvents

(***************************************************************************)
(* A click on an entry selects it, a click on the selected one selects     *)
(* none.  A click on the selected database folds its entry only.           *)
(***************************************************************************)
SelectEntry(entry) ==
    /\ entry # selectedTreeEl
    /\ SetEditorLog(entry, users, seqRange)

DeselectEntry ==
    /\ selectedTreeEl.kind \notin {"none", "database"}
    /\ SetEditorLog(NoEntry, users, seqRange)

\* setLogFilter(); an empty field is no restriction.
SetLogFilter(us, seqStart, seqEnd) ==
    SetEditorLog(selectedTreeEl, us, [start |-> seqStart, end |-> seqEnd])

\* clearAllEvents() empties the editor only: the events and the count stay.
ClearAllEvents ==
    /\ log' = {}
    /\ cleared' = Len(subEvents)
    /\ UNCHANGED <<subEvents, selectedTreeEl, users, seqRange, logCount>>

\* Mutant: the user and seq filter is not applied to arriving events.
AddSubscriptionEvents_Unfiltered(evs) ==
    LET events == subEvents \o evs
        added  == {i \in (Len(subEvents) + 1)..Len(events) : Match(selectedTreeEl, events[i])}
    IN /\ subEvents' = events
       /\ log' = log \cup added
       /\ logCount' = logCount + Cardinality(added)
       /\ UNCHANGED <<selectedTreeEl, users, seqRange, cleared>>

\* addSubscriptionEvent() for every event of a received event message.
AddSubscriptionEvents(evs) ==
    LET events == subEvents \o evs
        added  == {i \in (Len(subEvents) + 1)..Len(events) :
                     Match(selectedTreeEl, events[i])
                     /\ FilterSeqSrc(users, seqRange, events[i])}
    IN /\ subEvents' = events
       /\ log' = log \cup added
       /\ logCount' = logCount + Cardinality(added)
       /\ UNCHANGED <<selectedTreeEl, users, seqRange, cleared>>

(***************************************************************************)
(* The log shows the received events that pass the filters in force and    *)
(* arrived since it was cleared, and no other; the count is the number of  *)
(* those that pass the filters, the cleared ones included.                 *)
(***************************************************************************)
LogExact ==
    /\ log = {i \in Filtered(subEvents, selectedTreeEl, users, seqRange) : i > cleared}
    /\ logCount = Cardinality(Filtered(subEvents, selectedTreeEl, users, seqRange))

ViewTypeOK ==
    /\ subEvents \in Seq(SubEvent)
    /\ selectedTreeEl \in Entries \cup {NoEntry}
    /\ users \subseteq Users
    /\ seqRange \in [start : Nat, end : Nat]
    /\ cleared \in 0..Len(subEvents)
=============================================================================
