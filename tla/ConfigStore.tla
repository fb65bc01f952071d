------------------------------ MODULE ConfigStore ------------------------------
(***************************************************************************)
(* The host inventory: config.toml, the Hosts grid of ui/src/fleet.rs that *)
(* edits it, and the writer of storage/src/config.rs.  Several sessions    *)
(* (SysTUI processes) share the file and one temporary file beside it; a   *)
(* person edits the file by hand; a session may be killed at any step.     *)
(*                                                                         *)
(* An edit is a form or a question (overlay), then a save in four steps:   *)
(* the file is read into a document that is changed in memory, the         *)
(* temporary file is created or truncated, written, and renamed over       *)
(* config.toml.  A session that has the temporary file open keeps writing  *)
(* to the same file after another session's rename (fd).                   *)
(***************************************************************************)
EXTENDS Naturals, FiniteSets

CONSTANTS Sessions,    \* SysTUI processes
          Ids,         \* inventory ids
          Local,       \* the id of the local machine, HostId::LOCAL
          Addresses,   \* what a form may hold for a host
          Policies,    \* policy names
          Rests,       \* the rest of the file: other tables, comments, order
          Inline,      \* those that hold the hosts as an inline table
          Inventories, \* what config.toml may hold at first
          None,
          Torn,        \* a file that does not parse
          Missing,     \* no such file
          MaxSaves,    \* bound: saves that are started
          MaxByHand,   \* bound: edits by hand
          MaxKills     \* bound: sessions killed

Host     == [addr: Addresses, policy: Policies \cup {None}]
Hosts    == [Ids -> Host \cup {None}]
Document == [hosts: Hosts, rest: Rests \cup {None}]
NoHosts  == [i \in Ids |-> None]
Empty    == [hosts |-> NoHosts, rest |-> None]   \* a file of no bytes parses as this
File     == Document \cup {Torn, Missing}

ASSUME LocalIsId   == Local \in Ids
ASSUME InlineIsRest == Inline \subseteq Rests \ {None}
ASSUME InventoriesAreFiles == Inventories \subseteq Document \cup {Missing}
ASSUME BoundsAreNat == MaxSaves \in Nat /\ MaxByHand \in Nat /\ MaxKills \in Nat
ASSUME MarksDiffer == /\ Torn # Missing /\ {Torn, Missing} \cap Document = {}
                      /\ None \notin Host /\ None \notin Ids

VARIABLES
    conf,       \* config.toml
    tmp,        \* config.toml.tmp
    pc,         \* off, view, host, or the next step of a save: open, write, rename
    readOnly,   \* started with --read-only
    mem,        \* the hosts of the loaded Config
    overlay,    \* the modal over the table: [kind, id]
    op,         \* the edit being saved: [kind, id, host]
    doc,        \* the document being saved
    fd,         \* the file an unfinished write goes to
    alone,      \* history: nobody else changed conf since this session read it to save
    synced,     \* history: nobody else changed conf since this session loaded it
    overlapped, \* history: a save opened the temporary file during another's save
    saves, byHand, kills

counters == <<saves, byHand, kills>>
vars == <<conf, tmp, pc, readOnly, mem, overlay, op, doc, fd, alone, synced, overlapped, counters>>

Overlays  == [kind: {"none", "add", "edit", "confirm", "notice"}, id: Ids \cup {None}]
NoOverlay == [kind |-> "none", id |-> None]
Notice    == [kind |-> "notice", id |-> None]
Edits     == [kind: {"save", "remove"}, id: Ids, host: Host \cup {None}]
NoEdit    == [kind |-> "remove", id |-> Local, host |-> None]

Init ==
    /\ conf \in Inventories
    /\ tmp = Missing
    /\ pc = [s \in Sessions |-> "off"]
    /\ readOnly = [s \in Sessions |-> FALSE]
    /\ mem = [s \in Sessions |-> NoHosts]
    /\ overlay = [s \in Sessions |-> NoOverlay]
    /\ op = [s \in Sessions |-> NoEdit]
    /\ doc = [s \in Sessions |-> Empty]
    /\ fd = [s \in Sessions |-> "none"]
    /\ alone = [s \in Sessions |-> FALSE] /\ synced = [s \in Sessions |-> FALSE]
    /\ overlapped = FALSE
    /\ saves = 0 /\ byHand = 0 /\ kills = 0

-------------------------------------------------------------------------------
(* Reading the file: load_from and read_document. *)

Readable == conf # Torn
ReadFile == IF conf = Missing THEN Empty ELSE conf

\* as_table_mut: the hosts of an inline table can be loaded and not be edited.
Editable == Readable /\ ReadFile.rest \notin Inline

\* What everybody else knows of the file is out of date once s changes it.
OnlyKnownTo(s, flag) == [q \in Sessions |-> q = s /\ flag[q]]

\* A session starts: a file that does not parse ends it at once (main.rs).
Start(s) ==
    /\ pc[s] = "off" /\ Readable
    /\ pc' = [pc EXCEPT ![s] = "view"]
    /\ \E flag \in BOOLEAN : readOnly' = [readOnly EXCEPT ![s] = flag]
    /\ mem' = [mem EXCEPT ![s] = ReadFile.hosts]
    /\ synced' = [synced EXCEPT ![s] = TRUE]
    /\ UNCHANGED <<conf, tmp, overlay, op, doc, fd, alone, overlapped, counters>>

-------------------------------------------------------------------------------
(* The keys of the Hosts grid.  Moving the cursor and r change no state    *)
(* here: an action picks any host that is shown.                           *)

\* selected_with_local: the inventory, and the local machine.
Shown(s) == {i \in Ids : mem[s][i] # None} \cup {Local}

AtTable(s) == pc[s] = "view" /\ overlay[s] = NoOverlay

Modal(s, kind, id) ==
    /\ overlay' = [overlay EXCEPT ![s] =
                     IF readOnly[s] THEN Notice ELSE [kind |-> kind, id |-> id]]
    /\ UNCHANGED <<conf, tmp, pc, readOnly, mem, op, doc, fd, alone, synced, overlapped, counters>>

OpenAdd(s) == AtTable(s) /\ Modal(s, "add", None)

\* Mutant: the form opens on the local machine too.
OpenEditAny(s) == AtTable(s) /\ \E i \in Shown(s) : Modal(s, "edit", i)

\* The local machine is shown without being in the inventory: it cannot be edited.
OpenEdit(s) ==
    /\ AtTable(s)
    /\ \E i \in Shown(s) : IF mem[s][i] = None THEN Modal(s, "notice", None)
                                               ELSE Modal(s, "edit", i)

OpenDelete(s) == AtTable(s) /\ \E i \in Shown(s) : Modal(s, "confirm", i)

\* Esc in a form, n on a question, any key on a notice.
Dismiss(s) ==
    /\ pc[s] = "view" /\ overlay[s].kind # "none"
    /\ overlay' = [overlay EXCEPT ![s] = NoOverlay]
    /\ UNCHANGED <<conf, tmp, pc, readOnly, mem, op, doc, fd, alone, synced, overlapped, counters>>

\* Enter on a host, and the return from its session to a fresh view of the grid.
DrillIn(s) ==
    /\ \/ AtTable(s) /\ pc' = [pc EXCEPT ![s] = "host"]
       \/ pc[s] = "host" /\ pc' = [pc EXCEPT ![s] = "view"]
    /\ UNCHANGED <<conf, tmp, readOnly, mem, overlay, op, doc, fd, alone, synced, overlapped,
                   counters>>

Quit(s) ==
    /\ AtTable(s)
    /\ pc' = [pc EXCEPT ![s] = "off"]
    /\ mem' = [mem EXCEPT ![s] = NoHosts] /\ readOnly' = [readOnly EXCEPT ![s] = FALSE]
    /\ synced' = [synced EXCEPT ![s] = FALSE] /\ alone' = [alone EXCEPT ![s] = FALSE]
    /\ UNCHANGED <<conf, tmp, overlay, op, doc, fd, overlapped, counters>>

-------------------------------------------------------------------------------
(* Enter in a form and y on a question: the change is made to what the     *)
(* file holds now.  A file that cannot be read or edited leaves the form   *)
(* open with an error.                                                     *)

BeginSave(s, edit, document) ==
    /\ op' = [op EXCEPT ![s] = edit]
    /\ doc' = [doc EXCEPT ![s] = document]
    /\ pc' = [pc EXCEPT ![s] = "open"]
    /\ alone' = [alone EXCEPT ![s] = TRUE]
    /\ saves' = saves + 1
    /\ UNCHANGED <<conf, tmp, readOnly, mem, overlay, fd, synced, overlapped, byHand, kills>>

\* Mutant: the document is written anew from the inventory SysTUI knows.
WithOnly(document, i, h) == [hosts |-> [document.hosts EXCEPT ![i] = h], rest |-> None]

\* write_host_fields into the document; everything else in it stays.
With(document, i, h) == [document EXCEPT !.hosts[i] = h]

\* build_host: an id that is taken is refused, as the loaded inventory knows it.
MayAdd(s, i) == mem[s][i] = None

SubmitAdd(s) ==
    /\ pc[s] = "view" /\ overlay[s].kind = "add" /\ saves < MaxSaves /\ Editable
    /\ \E i \in Ids, a \in Addresses :
         LET h == [addr |-> a, policy |-> None] IN
         /\ MayAdd(s, i)
         /\ BeginSave(s, [kind |-> "save", id |-> i, host |-> h], With(ReadFile, i, h))

\* Mutant: the policy is left to its default.
KeptPolicyNot(s, i) == None

\* The form has no field for the policy: the loaded one is kept.
KeptPolicy(s, i) == mem[s][i].policy

SubmitEdit(s) ==
    /\ pc[s] = "view" /\ overlay[s].kind = "edit" /\ saves < MaxSaves /\ Editable
    /\ \E a \in Addresses :
         LET i == overlay[s].id
             h == [addr |-> a, policy |-> KeptPolicy(s, i)]
         IN  BeginSave(s, [kind |-> "save", id |-> i, host |-> h], With(ReadFile, i, h))

\* remove_host_from.  A host that is not in the file, or is in one that cannot be edited,
\* is not an error: nothing is written and the host leaves the loaded inventory.
ConfirmDelete(s) ==
    /\ pc[s] = "view" /\ overlay[s].kind = "confirm" /\ saves < MaxSaves
    /\ LET i == overlay[s].id IN
       \/ /\ Editable /\ ReadFile.hosts[i] # None
          /\ BeginSave(s, [kind |-> "remove", id |-> i, host |-> None], With(ReadFile, i, None))
       \/ /\ Readable /\ (ReadFile.hosts[i] = None \/ ~Editable)
          /\ mem' = [mem EXCEPT ![s][i] = None]
          /\ overlay' = [overlay EXCEPT ![s] = NoOverlay]
          /\ UNCHANGED <<conf, tmp, pc, readOnly, op, doc, fd, alone, synced, overlapped, counters>>
       \/ /\ ~Readable
          /\ overlay' = [overlay EXCEPT ![s] = Notice]
          /\ UNCHANGED <<conf, tmp, pc, readOnly, mem, op, doc, fd, alone, synced, overlapped,
                         counters>>

-------------------------------------------------------------------------------
(* write_document. *)

\* The document is dropped when the save ends.
Forget(s) == op' = [op EXCEPT ![s] = NoEdit] /\ doc' = [doc EXCEPT ![s] = Empty]

\* Mutant: the loaded inventory takes the edit whether or not it was saved.
FailedButKept(s) ==
    /\ pc' = [pc EXCEPT ![s] = "view"]
    /\ overlay' = [overlay EXCEPT ![s] = IF op[s].kind = "save" THEN @ ELSE Notice]
    /\ mem' = [mem EXCEPT ![s][op[s].id] = op[s].host]
    /\ Forget(s)

\* A step of the save fails: the form stays open with the error, a deletion ends
\* in a notice.  The loaded inventory is left as it was.
Failed(s) ==
    /\ pc' = [pc EXCEPT ![s] = "view"]
    /\ overlay' = [overlay EXCEPT ![s] = IF op[s].kind = "save" THEN @ ELSE Notice]
    /\ Forget(s)
    /\ UNCHANGED mem

Saving(s) == pc[s] \in {"write", "rename"}

\* Mutant: config.toml itself is truncated and rewritten.
OpenConf(s) ==
    /\ pc[s] = "open"
    /\ conf' = Empty
    /\ fd' = [fd EXCEPT ![s] = "conf"]
    /\ pc' = [pc EXCEPT ![s] = "write"]
    /\ alone' = OnlyKnownTo(s, alone) /\ synced' = OnlyKnownTo(s, synced)
    /\ overlapped' = (overlapped \/ \E q \in Sessions \ {s} : Saving(q))
    /\ UNCHANGED <<tmp, readOnly, mem, overlay, op, doc, counters>>

\* fs::write opens the file with truncation.
OpenTmp(s) ==
    /\ pc[s] = "open"
    /\ \/ /\ tmp' = Empty
          /\ fd' = [fd EXCEPT ![s] = "tmp"]
          /\ pc' = [pc EXCEPT ![s] = "write"]
          /\ overlapped' = (overlapped \/ \E q \in Sessions \ {s} : Saving(q))
          /\ UNCHANGED <<mem, overlay, op, doc>>
       \/ Failed(s) /\ UNCHANGED <<tmp, fd, overlapped>>
    /\ UNCHANGED <<conf, readOnly, alone, synced, counters>>

\* What a file that held old holds once d, or the part of it for which there was
\* room, was written from its start: another session may have written to it since
\* it was truncated, and the rest of a longer text stays behind.
Written(old, d) == IF old \in {Empty, d} THEN {d} ELSE {d, Torn}
CutShort(old)   == IF old = Empty THEN {Empty, Torn} ELSE {old, Torn}

Put(s, content) ==
    /\ fd[s] = "tmp" => tmp' = content /\ UNCHANGED <<conf, alone, synced>>
    /\ fd[s] = "conf" => /\ conf' = content /\ tmp' = tmp
                         /\ alone' = OnlyKnownTo(s, alone) /\ synced' = OnlyKnownTo(s, synced)
    /\ fd[s] \notin {"tmp", "conf"} => UNCHANGED <<conf, tmp, alone, synced>>

Old(s) == CASE fd[s] = "tmp" -> tmp [] fd[s] = "conf" -> conf [] OTHER -> Empty

WriteTmp(s) ==
    /\ pc[s] = "write"
    /\ fd' = [fd EXCEPT ![s] = "none"]
    /\ \/ /\ \E c \in Written(Old(s), doc[s]) : Put(s, c)
          /\ pc' = [pc EXCEPT ![s] = "rename"]
          /\ UNCHANGED <<mem, overlay, op, doc>>
       \/ \E c \in CutShort(Old(s)) : Put(s, c) /\ Failed(s)
    /\ UNCHANGED <<readOnly, overlapped, counters>>

\* The rename puts whatever the temporary file holds in place of config.toml; who
\* has it open goes on writing to it there, who had the old one open to no name.
\* Only then does the loaded inventory take the edit.
Replace(s) ==
    /\ tmp # Missing
    /\ conf' = tmp /\ tmp' = Missing
    /\ fd' = [q \in Sessions |-> CASE fd[q] = "tmp" -> "conf"
                                   [] fd[q] = "conf" -> "gone"
                                   [] OTHER -> fd[q]]
    /\ pc' = [pc EXCEPT ![s] = "view"]
    /\ mem' = [mem EXCEPT ![s][op[s].id] = op[s].host]
    /\ overlay' = [overlay EXCEPT ![s] = NoOverlay]
    /\ alone' = OnlyKnownTo(s, alone) /\ synced' = OnlyKnownTo(s, synced)
    /\ Forget(s)

Rename(s) ==
    /\ pc[s] = "rename"
    /\ Replace(s) \/ (Failed(s) /\ UNCHANGED <<conf, tmp, fd, alone, synced>>)
    /\ UNCHANGED <<readOnly, overlapped, counters>>

-------------------------------------------------------------------------------
(* The surroundings. *)

Kill(s) ==
    /\ pc[s] # "off" /\ kills < MaxKills
    /\ kills' = kills + 1
    /\ pc' = [pc EXCEPT ![s] = "off"]
    /\ mem' = [mem EXCEPT ![s] = NoHosts] /\ readOnly' = [readOnly EXCEPT ![s] = FALSE]
    /\ overlay' = [overlay EXCEPT ![s] = NoOverlay]
    /\ fd' = [fd EXCEPT ![s] = "none"]
    /\ synced' = [synced EXCEPT ![s] = FALSE] /\ alone' = [alone EXCEPT ![s] = FALSE]
    /\ Forget(s)
    /\ UNCHANGED <<conf, tmp, overlapped, saves, byHand>>

\* Somebody edits the file with an editor that replaces it.
EditByHand ==
    /\ byHand < MaxByHand /\ conf \in Document
    /\ byHand' = byHand + 1
    /\ \/ \E i \in Ids, h \in Host \cup {None} : conf' = [conf EXCEPT !.hosts[i] = h]
       \/ \E r \in Rests : conf' = [conf EXCEPT !.rest = r]
    /\ conf' # conf
    /\ alone' = [s \in Sessions |-> FALSE] /\ synced' = [s \in Sessions |-> FALSE]
    /\ fd' = [s \in Sessions |-> IF fd[s] = "conf" THEN "gone" ELSE fd[s]]
    /\ UNCHANGED <<tmp, pc, readOnly, mem, overlay, op, doc, overlapped, saves, kills>>

SessionStep(s) ==
    \/ Start(s) \/ OpenAdd(s) \/ OpenEdit(s) \/ OpenDelete(s) \/ Dismiss(s) \/ DrillIn(s)
    \/ Quit(s) \/ SubmitAdd(s) \/ SubmitEdit(s) \/ ConfirmDelete(s)
    \/ OpenTmp(s) \/ WriteTmp(s) \/ Rename(s) \/ Kill(s)

Next == EditByHand \/ \E s \in Sessions : SessionStep(s)

Spec == Init /\ [][Next]_vars

-------------------------------------------------------------------------------
(* Properties. *)

\* Every variable has its type; a form that edits is of a host of the inventory.
TypeOK ==
    /\ conf \in File /\ tmp \in File
    /\ pc \in [Sessions -> {"off", "view", "host", "open", "write", "rename"}]
    /\ readOnly \in [Sessions -> BOOLEAN]
    /\ mem \in [Sessions -> Hosts]
    /\ overlay \in [Sessions -> Overlays]
    /\ \A s \in Sessions :
         /\ overlay[s].kind = "confirm" => overlay[s].id \in Ids
         /\ overlay[s].kind = "edit" => overlay[s].id \in Ids /\ mem[s][overlay[s].id] # None
    /\ op \in [Sessions -> Edits]
    /\ doc \in [Sessions -> Document]
    /\ fd \in [Sessions -> {"none", "tmp", "conf", "gone"}]
    /\ alone \in [Sessions -> BOOLEAN] /\ synced \in [Sessions -> BOOLEAN]
    /\ overlapped \in BOOLEAN
    /\ saves \in 0..MaxSaves /\ byHand \in 0..MaxByHand /\ kills \in 0..MaxKills

\* config.toml always parses, whatever write fails and whoever is killed, as long as
\* no two saves were under way at once (write_document: temporary file and rename).
WholeUnlessOverlapped == ~overlapped => conf # Torn

\* A save that nobody disturbed changes the file in its own host and nothing else:
\* the hosts other sessions or people added since this session started, the tables
\* and the comments stay (save_host_to and remove_host_from edit what they read).
SaveChangesItsHost ==
    [][\A s \in Sessions :
         (pc[s] = "rename" /\ tmp # Missing /\ tmp' = Missing /\ alone[s] /\ ~overlapped)
             => conf' = [ReadFile EXCEPT !.hosts[op[s].id] = op[s].host]]_vars

InStep(s) ==
    \A i \in Ids : mem[s][i] = ReadFile.hosts[i] \/ (ReadFile.rest \in Inline /\ mem[s][i] = None)

\* A session whose file nobody else touched shows what the file holds, also after
\* saves that failed at any step: the grid never shows an edit that was not saved,
\* and never misses one that was.  It may only miss a host of an inline table, which
\* Delete takes off the grid alone.
GridShowsFile ==
    \A s \in Sessions :
        (synced[s] /\ pc[s] = "view" /\ ~overlapped) => Readable /\ InStep(s)

\* With an inventory that is up to date, Add never replaces a host that is in the
\* file (the check of build_host).
AddReplacesNothing ==
    [][\A s \in Sessions :
         (pc[s] = "view" /\ pc'[s] = "open" /\ overlay[s].kind = "add" /\ synced[s]
          /\ ~overlapped)
             => ReadFile.hosts[op'[s].id] = None]_vars

\* With an inventory that is up to date, Edit keeps the policy the file assigns to
\* the host, which the form does not show.
EditKeepsPolicy ==
    [][\A s \in Sessions :
         (pc[s] = "view" /\ pc'[s] = "open" /\ overlay[s].kind = "edit" /\ synced[s]
          /\ ~overlapped)
             => doc'[s].hosts[op'[s].id].policy = ReadFile.hosts[op'[s].id].policy]_vars

\* A session started read-only never comes to write the file, by whatever sequence
\* of keys (open_add, open_edit, open_delete).
ViewersDoNotSave ==
    \A s \in Sessions : readOnly[s] => pc[s] \in {"off", "view", "host"}
================================================================================
