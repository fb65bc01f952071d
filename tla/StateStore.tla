------------------------------- MODULE StateStore -------------------------------
(***************************************************************************)
(* The state file that sessions of one user share (storage/src/store.rs):  *)
(* daily health samples, notes and finding states by host, and saved log   *)
(* searches.  A session loads it when it starts, changes its copy, and     *)
(* writes all of it back when it ends, if it changed anything (ui/src/lib.rs, *)
(* ui/src/app.rs).  Sessions overlap, are killed, and a write may fail or  *)
(* cross another one; there is no lock and no temporary file.              *)
(***************************************************************************)
EXTENDS Integers, Sequences, FiniteSets

CONSTANTS Sessions,
          Hosts,          \* host labels
          Ids,            \* finding ids
          Statuses,       \* FindingStatus
          Open,           \* the status that is no override
          Notes, Queries,
          FindingLists,   \* what a gather may find: sequences of ids
          BaselineDays,   \* how far back the baseline of a trend lies
          MaxSnapshots, MaxNotes, MaxSearches,
          Empty, Torn,    \* a file just truncated; one that does not parse
          None,
          MaxDay, MaxStarts, MaxChanges   \* bounds on what is started

ASSUME OpenIsStatus == Open \in Statuses
ASSUME ListsAreOfIds == FindingLists \subseteq Seq(Ids)
ASSUME CapsAreNat ==
    /\ MaxNotes \in Nat /\ MaxSearches \in Nat /\ MaxDay \in Nat
    /\ MaxStarts \in Nat /\ MaxChanges \in Nat
    /\ BaselineDays \in Nat \ {0} /\ MaxSnapshots \in Nat /\ MaxSnapshots > BaselineDays

VARIABLES
    file,     \* state.json: a document, None (no file), Empty or Torn
    pc,       \* of each session: off, on, saving, writing
    host,     \* the host label of the session
    mem,      \* App::state
    dirty,    \* App::state_dirty
    shown,    \* App::findings, a sequence of [id, status]
    posted,   \* a finished gather that was not yet folded in, or None
    today,    \* the date
    alone,    \* history: the sessions that loaded the file as it is, or write it
    touched,  \* history: the ids whose status the session set
    crossed,  \* history: a write was cut off, or two were under way at once
    starts, changes   \* bound counters

vars == <<file, pc, host, mem, dirty, shown, posted, today, alone, touched, crossed,
          starts, changes>>

Snapshot == [day : 0..MaxDay, findings : Nat]
Finding  == [id : Ids, status : Statuses]

\* `ever` is a history variable of the document: the samples if there were no cap.
\* A finding without an override has the state Open.
Document == [snapshots : [Hosts -> Seq(Snapshot)], ever : [Hosts -> Seq(Snapshot)],
             notes : [Hosts -> Seq(Notes)], searches : Seq(Queries),
             states : [Hosts -> [Ids -> Statuses]]]

ASSUME DamageIsNoDocument == /\ {None, Empty, Torn} \cap Document = {}
                             /\ None # Empty /\ None # Torn /\ Empty # Torn

-------------------------------------------------------------------------------
(* PersistentState. *)

Default == [snapshots |-> [h \in Hosts |-> <<>>], ever |-> [h \in Hosts |-> <<>>],
            notes |-> [h \in Hosts |-> <<>>], searches |-> <<>>,
            states |-> [h \in Hosts |-> [i \in Ids |-> Open]]]

\* StateStore::load: no file, or one that does not parse, is the default state.
Load(content) == IF content \in {None, Empty, Torn} THEN Default ELSE content

\* Mutant: one entry too many is drained.
NewestBut(seq, n) == IF Len(seq) > n THEN SubSeq(seq, Len(seq) - n + 2, Len(seq)) ELSE seq

Newest(seq, n) == IF Len(seq) > n THEN SubSeq(seq, Len(seq) - n + 1, Len(seq)) ELSE seq


\* Mutant: every refresh adds a sample.
Added(series, snap) == Append(series, snap)

\* A sample replaces the one of its day.
Put(series, snap) ==
    IF \E k \in DOMAIN series : series[k].day = snap.day
    THEN [k \in DOMAIN series |-> IF series[k].day = snap.day THEN snap ELSE series[k]]
    ELSE Append(series, snap)

RecordSnapshot(doc, h, snap) ==
    [doc EXCEPT !.snapshots[h] = Newest(Put(@, snap), MaxSnapshots),
                !.ever[h] = Put(@, snap)]

\* Mutant: notes are not capped.
AddNoteOnly(doc, h, note) == [doc EXCEPT !.notes[h] = Append(@, note)]

AddNote(doc, h, note) == [doc EXCEPT !.notes[h] = Newest(Append(@, note), MaxNotes)]

\* A query is among the saved ones once at most.
Without(queries, query) ==
    IF \E k \in DOMAIN queries : queries[k] = query
    THEN LET k == CHOOSE k \in DOMAIN queries : queries[k] = query
         IN  SubSeq(queries, 1, k - 1) \o SubSeq(queries, k + 1, Len(queries))
    ELSE queries

\* The newest comes first, the oldest is truncated.
AddSearch(doc, query) ==
    LET all == <<query>> \o Without(doc.searches, query)
    IN  [doc EXCEPT !.searches = SubSeq(all, 1, IF Len(all) > MaxSearches THEN MaxSearches
                                                                          ELSE Len(all))]

\* Mutant: Open removes the map of the host also when other findings are in it.
SetStatusAndHost(doc, h, id, status) ==
    IF status = Open THEN [doc EXCEPT !.states[h] = [i \in Ids |-> Open]]
                     ELSE [doc EXCEPT !.states[h][id] = status]

SetFindingStatus(doc, h, id, status) == [doc EXCEPT !.states[h][id] = status]

\* A finding whose state is Open is left as it is.
ApplyFindingStates(doc, h, findings) ==
    [k \in DOMAIN findings |->
        IF doc.states[h][findings[k].id] # Open
        THEN [findings[k] EXCEPT !.status = doc.states[h][findings[k].id]]
        ELSE findings[k]]

Distance(a, b) == IF a > b THEN a - b ELSE b - a

\* The sample before the given day nearest to BaselineDays before it; of two equally
\* near ones the first.
Baseline(series, day) ==
    LET past   == {k \in DOMAIN series : series[k].day < day}
        far(k) == Distance(series[k].day, day - BaselineDays)
    IN  IF past = {} THEN None
        ELSE series[CHOOSE k \in past :
                      \A l \in past : far(k) < far(l) \/ (far(k) = far(l) /\ k <= l)]

Active(findings) == Cardinality({k \in DOMAIN findings : findings[k].status = Open})

-------------------------------------------------------------------------------

Init ==
    /\ file = None
    /\ pc = [s \in Sessions |-> "off"]
    /\ host \in [Sessions -> Hosts]
    /\ mem = [s \in Sessions |-> Default]
    /\ dirty = [s \in Sessions |-> FALSE]
    /\ shown = [s \in Sessions |-> <<>>]
    /\ posted = [s \in Sessions |-> None]
    /\ today = 0
    /\ alone = {}
    /\ touched = [s \in Sessions |-> {}]
    /\ crossed = FALSE /\ starts = 0 /\ changes = 0

-------------------------------------------------------------------------------
(* A session from its start to its last key. *)

Start(s) ==
    /\ pc[s] = "off" /\ starts < MaxStarts
    /\ pc' = [pc EXCEPT ![s] = "on"]
    /\ \E h \in Hosts : host' = [host EXCEPT ![s] = h]
    /\ mem' = [mem EXCEPT ![s] = Load(file)]
    /\ alone' = alone \cup {s}
    /\ starts' = starts + 1
    /\ UNCHANGED <<file, dirty, shown, posted, today, touched, crossed, changes>>

GatherEnds(s) ==
    /\ pc[s] = "on" /\ posted[s] = None
    /\ \E found \in FindingLists : posted' = [posted EXCEPT ![s] = [day |-> today, ids |-> found]]
    /\ UNCHANGED <<file, pc, host, mem, dirty, shown, today, alone, touched, crossed,
                   starts, changes>>

\* Mutant: the sample is taken before the states are applied.
RefreshedThenApplied(s, fresh, day) ==
    LET findings == ApplyFindingStates(mem[s], host[s], fresh)
        snap == [day |-> day, findings |-> Active(fresh)]
    IN  /\ shown' = [shown EXCEPT ![s] = findings]
        /\ mem' = [mem EXCEPT ![s] = RecordSnapshot(@, host[s], snap)]

\* apply_finding_states, then record_health_snapshot.
Refreshed(s, fresh, day) ==
    LET findings == ApplyFindingStates(mem[s], host[s], fresh)
        snap == [day |-> day, findings |-> Active(findings)]
    IN  /\ shown' = [shown EXCEPT ![s] = findings]
        /\ mem' = [mem EXCEPT ![s] = RecordSnapshot(@, host[s], snap)]

\* apply_refresh: new findings are open until the stored states are applied.
ApplyRefresh(s) ==
    /\ pc[s] = "on" /\ posted[s] # None
    /\ LET ids == posted[s].ids
       IN  Refreshed(s, [k \in DOMAIN ids |-> [id |-> ids[k], status |-> Open]], posted[s].day)
    /\ dirty' = [dirty EXCEPT ![s] = TRUE]
    /\ posted' = [posted EXCEPT ![s] = None]
    /\ UNCHANGED <<file, pc, host, today, alone, touched, crossed, starts, changes>>

\* Mutant: the finding on screen is left to the stored states.
MarkNone(findings, id, status) == findings

\* The first finding of that id.
MarkFirst(findings, id, status) ==
    LET first == CHOOSE k \in DOMAIN findings :
                   findings[k].id = id /\ \A l \in 1..(k - 1) : findings[l].id # id
    IN  [findings EXCEPT ![first].status = status]

\* set_selected_finding_status on the finding under the cursor.
SetSelected(s, k, status) ==
    LET id  == shown[s][k].id
        doc == SetFindingStatus(mem[s], host[s], id, status)
    IN  /\ mem' = [mem EXCEPT ![s] = doc]
        /\ shown' = [shown EXCEPT ![s] =
                        ApplyFindingStates(doc, host[s], MarkFirst(@, id, status))]
        /\ touched' = [touched EXCEPT ![s] = @ \cup {id}]

Change(s) ==
    /\ pc[s] = "on" /\ changes < MaxChanges
    /\ changes' = changes + 1
    /\ dirty' = [dirty EXCEPT ![s] = TRUE]
    /\ UNCHANGED <<file, pc, host, posted, today, alone, crossed, starts>>

SetStatus(s) ==
    /\ Change(s)
    /\ \E k \in DOMAIN shown[s], status \in Statuses : SetSelected(s, k, status)

\* submit_note with a text that is not blank.
SubmitNote(s) ==
    /\ Change(s)
    /\ \E note \in Notes : mem' = [mem EXCEPT ![s] = AddNote(@, host[s], note)]
    /\ UNCHANGED <<shown, touched>>

\* save_current_search with a query that is not blank.
SaveSearch(s) ==
    /\ Change(s)
    /\ \E query \in Queries : mem' = [mem EXCEPT ![s] = AddSearch(@, query)]
    /\ UNCHANGED <<shown, touched>>

-------------------------------------------------------------------------------
(* The end of a session. *)

\* What the session held is gone.
Gone(s) ==
    /\ pc' = [pc EXCEPT ![s] = "off"]
    /\ mem' = [mem EXCEPT ![s] = Default] /\ dirty' = [dirty EXCEPT ![s] = FALSE]
    /\ shown' = [shown EXCEPT ![s] = <<>>] /\ posted' = [posted EXCEPT ![s] = None]
    /\ touched' = [touched EXCEPT ![s] = {}]
    /\ UNCHANGED <<host, today, starts, changes>>

\* With nothing to save the session is over; a gather not yet folded in is dropped.
Quit(s) ==
    /\ pc[s] = "on"
    /\ \/ /\ ~dirty[s]
          /\ Gone(s) /\ alone' = alone \ {s}
       \/ /\ dirty[s]
          /\ pc' = [pc EXCEPT ![s] = "saving"] /\ posted' = [posted EXCEPT ![s] = None]
          /\ UNCHANGED <<host, mem, dirty, shown, today, alone, touched, starts, changes>>
    /\ UNCHANGED <<file, crossed>>

\* The session is killed, or cannot open the file to save.
Stops(s) ==
    /\ pc[s] \in {"on", "saving"}
    /\ Gone(s) /\ alone' = alone \ {s}
    /\ UNCHANGED <<file, crossed>>

OthersWrite(s) == \E t \in Sessions \ {s} : pc[t] = "writing"

\* Mutant: the file is opened without truncation.
OpenedOnly == file' = file

Opened == file' = Empty

\* StateStore::save: fs::write opens the file and truncates it ...
OpenFile(s) ==
    /\ pc[s] = "saving"
    /\ Opened
    /\ pc' = [pc EXCEPT ![s] = "writing"]
    /\ alone' = alone \cap {s}
    /\ crossed' = (crossed \/ OthersWrite(s))
    /\ UNCHANGED <<host, mem, dirty, shown, posted, today, touched, starts, changes>>

\* ... and writes the document from its beginning.  What others wrote meanwhile stays
\* behind it where it is longer.
WriteFile(s) ==
    /\ pc[s] = "writing"
    /\ file' \in IF file = Empty THEN {mem[s]} ELSE {mem[s], Torn}
    /\ Gone(s) /\ alone' = {}
    /\ UNCHANGED crossed

\* The write fails half way, or the session is killed in it.
WriteStops(s) ==
    /\ pc[s] = "writing"
    /\ file' \in {file, Torn}
    /\ crossed' = TRUE
    /\ Gone(s) /\ alone' = {}

-------------------------------------------------------------------------------

NextDay ==
    /\ today < MaxDay
    /\ today' = today + 1
    /\ UNCHANGED <<file, pc, host, mem, dirty, shown, posted, alone, touched, crossed,
                   starts, changes>>

Use(s) == \/ Start(s) \/ GatherEnds(s) \/ ApplyRefresh(s)
          \/ SetStatus(s) \/ SubmitNote(s) \/ SaveSearch(s)
End(s) == Quit(s) \/ Stops(s) \/ OpenFile(s) \/ WriteFile(s) \/ WriteStops(s)

Next == NextDay \/ \E s \in Sessions : Use(s) \/ End(s)

Spec == Init /\ [][Next]_vars

-------------------------------------------------------------------------------
(* Properties. *)

\* Every document there is, on disk or in a session.
Documents == {mem[s] : s \in Sessions} \cup ({file} \ {None, Empty, Torn})

TypeOK ==
    /\ file \in Document \cup {None, Empty, Torn}
    /\ pc \in [Sessions -> {"off", "on", "saving", "writing"}]
    /\ host \in [Sessions -> Hosts]
    /\ mem \in [Sessions -> Document]
    /\ dirty \in [Sessions -> BOOLEAN]
    /\ shown \in [Sessions -> Seq(Finding)]
    /\ posted \in [Sessions -> [day : 0..MaxDay, ids : FindingLists] \cup {None}]
    /\ today \in 0..MaxDay
    /\ alone \in SUBSET Sessions
    /\ touched \in [Sessions -> SUBSET Ids]
    /\ crossed \in BOOLEAN
    /\ starts \in 0..MaxStarts /\ changes \in 0..MaxChanges
    /\ \A doc \in Documents, h \in Hosts : /\ Len(doc.snapshots[h]) <= MaxSnapshots
                                          /\ Len(doc.notes[h]) <= MaxNotes
                                          /\ Len(doc.searches) <= MaxSearches
    /\ \A doc \in Documents : \A k, l \in DOMAIN doc.searches :
         doc.searches[k] = doc.searches[l] => k = l

\* The samples of a host are one a day, oldest first, whoever of overlapping sessions
\* recorded them and however late (HealthSnapshot, PersistentState::snapshots).
OldestFirst(series) == \A k, l \in DOMAIN series : k < l => series[k].day < series[l].day

SeriesInOrder ==
    \A doc \in Documents, h \in Hosts : OldestFirst(doc.snapshots[h])

\* Dropping old samples never changes the trend: the baseline is the one that all the
\* samples ever recorded would give (MAX_SNAPSHOTS, baseline).
BaselineKept ==
    \A doc \in Documents, h \in Hosts :
        doc.ever[h] # <<>> =>
            LET day == doc.ever[h][Len(doc.ever[h])].day
            IN  Baseline(doc.snapshots[h], day) = Baseline(doc.ever[h], day)

\* A session that nobody else's save met will write what it loaded but for its own
\* samples, notes and searches and the states it set; and it writes if it changed anything.
ChangesOnlyItsOwn ==
    \A s \in alone :
        pc[s] \in {"on", "saving"} =>
            LET was == Load(file)
                own == host[s]
            IN  /\ \A h \in Hosts \ {own} :
                     /\ mem[s].snapshots[h] = was.snapshots[h]
                     /\ mem[s].notes[h] = was.notes[h]
                     /\ mem[s].states[h] = was.states[h]
                /\ \A i \in Ids \ touched[s] : mem[s].states[own][i] = was.states[own][i]
                /\ ~dirty[s] => mem[s] = was

\* The file is whole, or somebody is just writing it, unless a write was cut off or two
\* crossed.
WholeUnlessCrossed ==
    ~crossed /\ file \in {Empty, Torn} => \E s \in Sessions : pc[s] = "writing"

\* What the Security tab shows of a finding is its stored state, if no other finding
\* on screen has its id.
StatusShown ==
    \A s \in Sessions : \A k \in DOMAIN shown[s] :
        LET finding == shown[s][k] IN
        (\A l \in DOMAIN shown[s] : shown[s][l].id = finding.id => l = k)
            => finding.status = mem[s].states[host[s]][finding.id]

\* A finding that was accepted, ignored or fixed is not counted in the sample of a refresh.
HandledNotCounted ==
    [][\A s \in Sessions : ApplyRefresh(s) =>
         LET series == mem'[s].snapshots[host[s]]
             open(k) == mem[s].states[host[s]][shown'[s][k].id] = Open
         IN  series[Len(series)].findings = Cardinality({k \in DOMAIN shown'[s] : open(k)})]_vars
================================================================================
