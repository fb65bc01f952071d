--------------------------- MODULE ConfigStoreProofs ---------------------------
(***************************************************************************)
(* Proofs about ConfigStore, for any sessions, hosts and bounds.           *)
(*                                                                         *)
(* TypeOK needs that a session that is not running has no form open        *)
(* (OffIsClean): loading the file would otherwise take away the host the   *)
(* form is of.  The rest holds as long as no two saves overlapped: then at *)
(* most one session is writing, it writes to the temporary file, and what  *)
(* it will rename is the document it made from the file (Settled).         *)
(***************************************************************************)
EXTENDS ConfigStore, TLAPS

OffIsClean == \A s \in Sessions : pc[s] = "off" => overlay[s] = NoOverlay

InSave(s) == pc[s] \in {"open", "write", "rename"}

\* At most one session writes, to the temporary file.
OneWriter ==
    /\ \A s, q \in Sessions : Saving(s) /\ Saving(q) => s = q
    /\ \A s \in Sessions : /\ fd[s] = IF pc[s] = "write" THEN "tmp" ELSE "none"
                           /\ pc[s] = "write" => tmp = Empty
                           /\ pc[s] = "rename" => tmp = doc[s]

\* The document of a save nobody disturbed is the file with its edit.
Edited ==
    \A s \in Sessions :
        /\ (InSave(s) /\ alone[s]) => doc[s] = [ReadFile EXCEPT !.hosts[op[s].id] = op[s].host]
        /\ (InSave(s) /\ synced[s]) => alone[s]

\* A session whose file nobody else touched has loaded what it holds, and dropped at most
\* hosts of an inline table from it.
Loaded == \A s \in Sessions : synced[s] => InStep(s)

Good    == conf # Torn /\ OneWriter /\ Edited /\ Loaded
Settled == ~overlapped => Good

\* A session started read-only has nothing to submit.
Barred == \A s \in Sessions : readOnly[s] => /\ pc[s] \in {"off", "view", "host"}
                                             /\ overlay[s].kind \in {"none", "notice"}

IInv == TypeOK /\ OffIsClean /\ Barred /\ Settled

-------------------------------------------------------------------------------
\* The empty inventory is a document.
LEMMA EmptyType == Empty \in Document /\ NoHosts \in Hosts
  BY DEF Empty, Document, Hosts, NoHosts

\* A document with one host changed is a document.
LEMMA WithType ==
  ASSUME NEW d \in Document, NEW i \in Ids, NEW h \in Host \cup {None}
  PROVE  /\ [d EXCEPT !.hosts[i] = h] \in Document
         /\ [d EXCEPT !.hosts[i] = h].hosts = [d.hosts EXCEPT ![i] = h]
  BY DEF Document, Hosts

\* An inventory with one host set or removed is an inventory.
LEMMA HostsWith ==
  ASSUME NEW f \in Hosts, NEW i \in Ids, NEW h \in Host \cup {None}
  PROVE  [f EXCEPT ![i] = h] \in Hosts
  BY DEF Hosts

\* What load reads from a file that parses is a document.
LEMMA ReadType ==
  ASSUME TypeOK, Readable PROVE ReadFile \in Document /\ ReadFile.hosts \in Hosts
  BY EmptyType DEF TypeOK, File, Readable, ReadFile, Document

\* The overlays and the edit that stand for none are of their types.
LEMMA NoOverlayType == NoOverlay \in Overlays /\ Notice \in Overlays /\ NoEdit \in Edits
  BY LocalIsId DEF NoOverlay, Notice, Overlays, NoEdit, Edits

-------------------------------------------------------------------------------
(* The types. *)

\* A step that only opens or closes a modal.
LEMMA ModalType ==
  ASSUME TypeOK, NEW s \in Sessions, pc[s] = "view", NEW o \in Overlays,
         overlay' = [overlay EXCEPT ![s] = o],
         o.kind = "confirm" => o.id \in Ids,
         o.kind = "edit" => o.id \in Ids /\ mem[s][o.id] # None,
         UNCHANGED <<conf, tmp, pc, readOnly, mem, op, doc, fd, alone, synced, overlapped, counters>>
  PROVE  TypeOK'
<1>1. \A q \in Sessions : overlay'[q] = IF q = s THEN o ELSE overlay[q]
  BY DEF TypeOK
<1>2. overlay' \in [Sessions -> Overlays]
  BY DEF TypeOK
<1> QED
  BY <1>1, <1>2 DEF TypeOK, counters

\* Opening and closing a modal of the grid keeps the types.
LEMMA KeysType ==
  ASSUME TypeOK, NEW s \in Sessions,
         OpenAdd(s) \/ OpenEdit(s) \/ OpenDelete(s) \/ Dismiss(s)
  PROVE  TypeOK'
<1>1. ASSUME NEW k \in {"add", "edit", "confirm", "notice"}, NEW i \in Ids \cup {None},
             k \in {"edit", "confirm"} => i \in Ids,
             k = "edit" => mem[s][i] # None, pc[s] = "view", Modal(s, k, i)
      PROVE  TypeOK'
  <2> DEFINE o == IF readOnly[s] THEN Notice ELSE [kind |-> k, id |-> i]
  <2>1. o \in Overlays /\ (readOnly[s] => o.kind = "notice")
        /\ (~readOnly[s] => o.kind = k /\ o.id = i)
    BY NoOverlayType DEF Overlays, Notice
  <2> HIDE DEF o
  <2>2. overlay' = [overlay EXCEPT ![s] = o]
    BY <1>1 DEF Modal, o
  <2>3. UNCHANGED <<conf, tmp, pc, readOnly, mem, op, doc, fd, alone, synced, overlapped,
                    counters>>
    BY <1>1 DEF Modal
  <2> QED
    BY <1>1, <2>1, <2>2, <2>3, ModalType, Zenon
<1>2. \A i \in Shown(s) : i \in Ids
  BY LocalIsId DEF Shown
<1>3. CASE OpenAdd(s)
  BY <1>1, <1>3 DEF OpenAdd, AtTable
<1>4. CASE OpenEdit(s)
  <2>1. PICK i \in Shown(s) : IF mem[s][i] = None THEN Modal(s, "notice", None)
                                                 ELSE Modal(s, "edit", i)
    BY <1>4 DEF OpenEdit
  <2>2. pc[s] = "view"
    BY <1>4 DEF OpenEdit, AtTable
  <2>3. CASE mem[s][i] = None
    BY <1>1, <2>1, <2>2, <2>3
  <2>4. CASE mem[s][i] # None
    BY <1>1, <1>2, <2>1, <2>2, <2>4
  <2> QED
    BY <2>3, <2>4
<1>5. CASE OpenDelete(s)
  BY <1>1, <1>2, <1>5 DEF OpenDelete, AtTable
<1>6. CASE Dismiss(s)
  BY <1>6, ModalType, NoOverlayType DEF Dismiss, NoOverlay
<1> QED
  BY <1>3, <1>4, <1>5, <1>6

\* A session that starts has no form open.
LEMMA ComeAndGoType ==
  ASSUME TypeOK, OffIsClean, NEW s \in Sessions,
         Start(s) \/ DrillIn(s) \/ Quit(s) \/ Kill(s)
  PROVE  TypeOK'
<1>1. CASE Start(s)
  <2>1. /\ mem' \in [Sessions -> Hosts] /\ overlay[s] = NoOverlay
        /\ \A q \in Sessions : q # s => mem'[q] = mem[q]
    BY <1>1, ReadType DEF Start, TypeOK, OffIsClean
  <2> QED
    BY <1>1, <2>1 DEF Start, TypeOK, NoOverlay, counters
<1>2. CASE DrillIn(s)
  BY <1>2 DEF DrillIn, AtTable, TypeOK, counters
<1>3. CASE Quit(s)
  BY <1>3, EmptyType DEF Quit, AtTable, TypeOK, NoOverlay, counters
<1>4. CASE Kill(s)
  BY <1>4, EmptyType, NoOverlayType, BoundsAreNat DEF Kill, Forget, TypeOK, NoOverlay
<1> QED
  BY <1>1, <1>2, <1>3, <1>4

\* So does the start of a save of a document.
LEMMA BeginType ==
  ASSUME TypeOK, NEW s \in Sessions, saves < MaxSaves,
         NEW e \in Edits, NEW d \in Document, BeginSave(s, e, d)
  PROVE  TypeOK'
  BY BoundsAreNat DEF BeginSave, TypeOK

\* So does every way of submitting a form or a deletion.
LEMMA SubmitType ==
  ASSUME TypeOK, NEW s \in Sessions, SubmitAdd(s) \/ SubmitEdit(s) \/ ConfirmDelete(s)
  PROVE  TypeOK'
<1>1. CASE SubmitAdd(s)
  <2>1. PICK i \in Ids, a \in Addresses :
           LET h == [addr |-> a, policy |-> None] IN
           BeginSave(s, [kind |-> "save", id |-> i, host |-> h], With(ReadFile, i, h))
    BY <1>1 DEF SubmitAdd
  <2> DEFINE h == [addr |-> a, policy |-> None]
  <2>2. h \in Host
    BY DEF Host
  <2>3. [kind |-> "save", id |-> i, host |-> h] \in Edits
    BY <2>2 DEF Edits
  <2>4. With(ReadFile, i, h) \in Document
    BY <1>1, <2>2, ReadType, WithType DEF SubmitAdd, Editable, With
  <2> HIDE DEF h
  <2> QED
    BY <1>1, <2>1, <2>3, <2>4, BeginType DEF SubmitAdd, h
<1>2. CASE SubmitEdit(s)
  <2> DEFINE i == overlay[s].id
  <2>1. PICK a \in Addresses :
           LET h == [addr |-> a, policy |-> KeptPolicy(s, i)] IN
           BeginSave(s, [kind |-> "save", id |-> i, host |-> h], With(ReadFile, i, h))
    BY <1>2 DEF SubmitEdit
  <2> DEFINE h == [addr |-> a, policy |-> KeptPolicy(s, i)]
  <2>2. i \in Ids /\ mem[s][i] \in Host
    BY <1>2 DEF SubmitEdit, TypeOK, Hosts
  <2>3. h \in Host
    BY <2>2 DEF Host, KeptPolicy
  <2>4. [kind |-> "save", id |-> i, host |-> h] \in Edits
    BY <2>2, <2>3 DEF Edits
  <2>5. With(ReadFile, i, h) \in Document
    BY <1>2, <2>2, <2>3, ReadType, WithType DEF SubmitEdit, Editable, With
  <2> HIDE DEF h, i
  <2> QED
    BY <1>2, <2>1, <2>4, <2>5, BeginType DEF SubmitEdit, h, i
<1>3. CASE ConfirmDelete(s)
  <2> DEFINE i == overlay[s].id
  <2>1. i \in Ids /\ pc[s] = "view" /\ saves < MaxSaves
    BY <1>3 DEF ConfirmDelete, TypeOK
  <2>2. CASE Readable /\ BeginSave(s, [kind |-> "remove", id |-> i, host |-> None],
                                 With(ReadFile, i, None))
    <3>1. [kind |-> "remove", id |-> i, host |-> None] \in Edits
      BY <2>1 DEF Edits
    <3>2. With(ReadFile, i, None) \in Document
      BY <2>1, <2>2, ReadType, WithType DEF With
    <3> QED
      BY <2>1, <2>2, <3>1, <3>2, BeginType
  <2>3. CASE /\ mem' = [mem EXCEPT ![s][i] = None]
             /\ overlay' = [overlay EXCEPT ![s] = NoOverlay]
             /\ UNCHANGED <<conf, tmp, pc, readOnly, op, doc, fd, alone, synced, overlapped,
                            counters>>
    <3>1. mem' \in [Sessions -> Hosts] /\ \A q \in Sessions : q # s => mem'[q] = mem[q]
      BY <2>1, <2>3 DEF TypeOK, Hosts
    <3>2. overlay' \in [Sessions -> Overlays] /\ overlay'[s].kind = "none"
          /\ \A q \in Sessions : q # s => overlay'[q] = overlay[q]
      BY <2>3, NoOverlayType DEF TypeOK, NoOverlay
    <3> QED
      BY <2>3, <3>1, <3>2 DEF TypeOK, counters
  <2>4. CASE /\ overlay' = [overlay EXCEPT ![s] = Notice]
             /\ UNCHANGED <<conf, tmp, pc, readOnly, mem, op, doc, fd, alone, synced,
                            overlapped, counters>>
    BY <2>1, <2>4, ModalType, NoOverlayType DEF Notice
  <2> QED
    BY <1>3, <2>2, <2>3, <2>4 DEF ConfirmDelete, Editable
<1> QED
  BY <1>1, <1>2, <1>3

\* The end of a save, good or bad, keeps the types of what it touches.
LEMMA FailedType ==
  ASSUME TypeOK, NEW s \in Sessions, Failed(s)
  PROVE  /\ pc' \in [Sessions -> {"off", "view", "host", "open", "write", "rename"}]
         /\ overlay' \in [Sessions -> Overlays]
         /\ \A q \in Sessions : overlay'[q] = overlay[q] \/ overlay'[q] = Notice
         /\ op' \in [Sessions -> Edits] /\ doc' \in [Sessions -> Document] /\ mem' = mem
  BY EmptyType, NoOverlayType DEF Failed, Forget, TypeOK

\* Whatever a session does, the flags it takes from the others stay flags.
LEMMA OnlyKnownType ==
  ASSUME NEW s \in Sessions, NEW flag \in [Sessions -> BOOLEAN]
  PROVE  OnlyKnownTo(s, flag) \in [Sessions -> BOOLEAN]
  BY DEF OnlyKnownTo

\* Opening the temporary file keeps the types: it is truncated, or nothing happens.
LEMMA OpenType == ASSUME TypeOK, NEW s \in Sessions, OpenTmp(s) PROVE TypeOK'
<1>1. tmp' \in File /\ fd' \in [Sessions -> {"none", "tmp", "conf", "gone"}]
      /\ overlapped' \in BOOLEAN
  BY EmptyType DEF OpenTmp, TypeOK, File
<1>2. CASE Failed(s)
  BY <1>1, <1>2, FailedType DEF OpenTmp, TypeOK, Notice, counters
<1>3. CASE pc' = [pc EXCEPT ![s] = "write"] /\ UNCHANGED <<mem, overlay, op, doc>>
  BY <1>1, <1>3 DEF OpenTmp, TypeOK, counters
<1> QED
  BY <1>2, <1>3 DEF OpenTmp

\* Writing keeps the types, also where the file was renamed or deleted meanwhile.
LEMMA WriteType == ASSUME TypeOK, NEW s \in Sessions, WriteTmp(s) PROVE TypeOK'
<1>1. Old(s) \in File
  BY EmptyType DEF Old, TypeOK, File
<1>2. Written(Old(s), doc[s]) \subseteq File /\ CutShort(Old(s)) \subseteq File
  BY <1>1, EmptyType DEF Written, CutShort, File, TypeOK
<1>3. PICK c \in File : Put(s, c)
  BY <1>2 DEF WriteTmp
<1>4. /\ conf' \in File /\ tmp' \in File /\ alone' \in [Sessions -> BOOLEAN]
      /\ synced' \in [Sessions -> BOOLEAN]
  <2>1. CASE fd[s] = "conf"
    BY <1>3, <2>1, OnlyKnownType DEF Put, TypeOK
  <2>2. CASE fd[s] = "tmp"
    BY <1>3, <2>2 DEF Put, TypeOK
  <2>3. CASE fd[s] \notin {"tmp", "conf"}
    BY <1>3, <2>3 DEF Put, TypeOK
  <2> QED
    BY <2>1, <2>2, <2>3
<1>5. fd' \in [Sessions -> {"none", "tmp", "conf", "gone"}]
  BY DEF WriteTmp, TypeOK
<1>6. CASE Failed(s)
  BY <1>4, <1>5, <1>6, FailedType DEF WriteTmp, TypeOK, Notice, counters
<1>7. CASE pc' = [pc EXCEPT ![s] = "rename"] /\ UNCHANGED <<mem, overlay, op, doc>>
  BY <1>4, <1>5, <1>7 DEF WriteTmp, TypeOK, counters
<1> QED
  BY <1>6, <1>7 DEF WriteTmp

\* Renaming keeps the types: what becomes config.toml was a file.
LEMMA RenameType == ASSUME TypeOK, NEW s \in Sessions, Rename(s) PROVE TypeOK'
<1>1. CASE Failed(s) /\ UNCHANGED <<conf, tmp, fd, alone, synced>>
  BY <1>1, FailedType DEF Rename, TypeOK, Notice, counters
<1>2. CASE Replace(s)
  <2>1. conf' \in File /\ tmp' \in File
    BY <1>2 DEF Replace, TypeOK, File
  <2>2. fd' \in [Sessions -> {"none", "tmp", "conf", "gone"}]
    BY <1>2 DEF Replace, TypeOK
  <2>3. alone' \in [Sessions -> BOOLEAN] /\ synced' \in [Sessions -> BOOLEAN]
    BY <1>2, OnlyKnownType DEF Replace, TypeOK
  <2>4. op[s].id \in Ids /\ op[s].host \in Host \cup {None} /\ mem[s] \in Hosts
    BY DEF TypeOK, Edits
  <2>5. [mem[s] EXCEPT ![op[s].id] = op[s].host] \in Hosts
    BY <2>4, HostsWith
  <2>6. mem' \in [Sessions -> Hosts] /\ \A q \in Sessions : q # s => mem'[q] = mem[q]
    BY <1>2, <2>5 DEF Replace, TypeOK
  <2>7. /\ overlay' \in [Sessions -> Overlays] /\ overlay'[s].kind = "none"
        /\ \A q \in Sessions : q # s => overlay'[q] = overlay[q]
    BY <1>2, NoOverlayType DEF Replace, TypeOK, NoOverlay
  <2>8. op' \in [Sessions -> Edits] /\ doc' \in [Sessions -> Document]
    BY <1>2, EmptyType, NoOverlayType DEF Replace, Forget, TypeOK
  <2>9. pc' \in [Sessions -> {"off", "view", "host", "open", "write", "rename"}]
    BY <1>2 DEF Replace, TypeOK
  <2> QED
    BY <2>1, <2>2, <2>3, <2>6, <2>7, <2>8, <2>9 DEF Rename, TypeOK, counters
<1> QED
  BY <1>1, <1>2 DEF Rename

\* A person writes documents.
LEMMA ByHandType == ASSUME TypeOK, EditByHand PROVE TypeOK'
<1>1. conf' \in Document
  <2>1. ASSUME NEW i \in Ids, NEW h \in Host \cup {None}, conf' = [conf EXCEPT !.hosts[i] = h]
        PROVE  conf' \in Document
    BY <2>1, WithType DEF EditByHand
  <2>2. ASSUME NEW r \in Rests, conf' = [conf EXCEPT !.rest = r] PROVE conf' \in Document
    BY <2>2 DEF EditByHand, Document
  <2> QED
    BY <2>1, <2>2 DEF EditByHand
<1>2. fd' \in [Sessions -> {"none", "tmp", "conf", "gone"}]
  BY DEF EditByHand, TypeOK
<1> QED
  BY <1>1, <1>2, BoundsAreNat DEF EditByHand, TypeOK, File

\* Every step keeps the types.
LEMMA StepType == ASSUME TypeOK, OffIsClean, Next PROVE TypeOK'
<1>1. CASE EditByHand
  BY <1>1, ByHandType
<1>2. ASSUME NEW s \in Sessions, SessionStep(s) PROVE TypeOK'
  BY <1>2, KeysType, ComeAndGoType, SubmitType, OpenType, WriteType, RenameType DEF SessionStep
<1> QED
  BY <1>1, <1>2 DEF Next

\* Only a session at the table goes off, or one that is killed, which closes its form;
\* a session that is off opens none.
LEMMA StepOff == ASSUME TypeOK, OffIsClean, Next PROVE OffIsClean'
<1> USE DEF OffIsClean, TypeOK
<1>1. CASE EditByHand
  BY <1>1 DEF EditByHand
<1>2. ASSUME NEW s \in Sessions, SessionStep(s), NEW q \in Sessions, pc'[q] = "off"
      PROVE  overlay'[q] = NoOverlay
  <2>1. CASE q # s
    <3>1. pc'[q] = pc[q] /\ overlay'[q] = overlay[q]
      BY <1>2, <2>1
         DEF SessionStep, Start, OpenAdd, OpenEdit, OpenDelete, Modal, Dismiss, DrillIn, Quit,
             SubmitAdd, SubmitEdit, ConfirmDelete, BeginSave, OpenTmp, WriteTmp, Rename,
             Replace, Failed, Kill
    <3> QED
      BY <1>2, <3>1
  <2>2. CASE q = s
    <3>1. Quit(s) \/ Kill(s)
      BY <1>2, <2>2
         DEF SessionStep, Start, OpenAdd, OpenEdit, OpenDelete, Modal, AtTable, Dismiss, DrillIn,
             SubmitAdd, SubmitEdit, ConfirmDelete, BeginSave, OpenTmp, WriteTmp, Rename,
             Replace, Failed
    <3> QED
      BY <2>2, <3>1 DEF Quit, AtTable, Kill
  <2> QED
    BY <2>1, <2>2
<1> QED
  BY <1>1, <1>2 DEF Next

-------------------------------------------------------------------------------
(* What holds while no two saves overlapped. *)

\* The keys of the table and its modals, coming and going change no file and no save.
LEMMA QuietGood ==
  ASSUME TypeOK, Good, NEW s \in Sessions,
         Start(s) \/ OpenAdd(s) \/ OpenEdit(s) \/ OpenDelete(s) \/ Dismiss(s) \/ DrillIn(s)
                  \/ Quit(s) \/ Kill(s)
  PROVE  Good'
<1> USE DEF Good
<1>1. UNCHANGED <<conf, tmp>> /\ ReadFile' = ReadFile
  BY DEF Start, OpenAdd, OpenEdit, OpenDelete, Modal, Dismiss, DrillIn, Quit, Kill, ReadFile
<1>2. \A q \in Sessions : q # s => /\ pc'[q] = pc[q] /\ op'[q] = op[q] /\ doc'[q] = doc[q]
                                    /\ fd'[q] = fd[q] /\ alone'[q] = alone[q]
                                    /\ synced'[q] = synced[q] /\ mem'[q] = mem[q]
  BY DEF Start, OpenAdd, OpenEdit, OpenDelete, Modal, Dismiss, DrillIn, Quit, Kill, Forget, TypeOK
<1>3. \/ UNCHANGED <<pc, op, doc, fd, alone, synced, mem>>
      \/ /\ pc'[s] \in {"off", "view", "host"} /\ fd'[s] = "none"
         /\ synced'[s] => mem'[s] = ReadFile.hosts \/ (InStep(s) /\ mem'[s] = mem[s])
  BY DEF Start, OpenAdd, OpenEdit, OpenDelete, Modal, AtTable, Dismiss, DrillIn, Quit, Kill,
         TypeOK, OneWriter, Loaded
<1>4. OneWriter'
  BY <1>1, <1>2, <1>3 DEF OneWriter, Saving
<1>5. Edited'
  BY <1>1, <1>2, <1>3 DEF Edited, InSave
<1>6. Loaded'
  BY <1>1, <1>2, <1>3 DEF Loaded, InStep
<1> QED
  BY <1>1, <1>4, <1>5, <1>6

\* A save starts from the file as it is.
LEMMA BeginGood ==
  ASSUME TypeOK, Good, NEW s \in Sessions, SubmitAdd(s) \/ SubmitEdit(s) \/ ConfirmDelete(s)
  PROVE  Good'
<1> USE DEF Good
<1>1. ReadFile' = ReadFile /\ UNCHANGED <<conf, tmp>>
  BY DEF SubmitAdd, SubmitEdit, ConfirmDelete, BeginSave, ReadFile
<1>2. ASSUME NEW e, e \in Edits, BeginSave(s, e, With(ReadFile, e.id, e.host)), pc[s] = "view"
      PROVE  Good'
  <2>1. OneWriter'
    BY <1>1, <1>2 DEF BeginSave, OneWriter, Saving, TypeOK
  <2>2. Edited'
    BY <1>1, <1>2 DEF BeginSave, Edited, InSave, TypeOK, With
  <2>3. Loaded'
    BY <1>1, <1>2 DEF BeginSave, Loaded, InStep
  <2> QED
    BY <1>1, <2>1, <2>2, <2>3
<1>3. CASE SubmitAdd(s)
  <2>1. PICK i \in Ids, a \in Addresses :
           LET h == [addr |-> a, policy |-> None] IN
           BeginSave(s, [kind |-> "save", id |-> i, host |-> h], With(ReadFile, i, h))
    BY <1>3 DEF SubmitAdd
  <2> DEFINE e == [kind |-> "save", id |-> i, host |-> [addr |-> a, policy |-> None]]
  <2>2. e \in Edits
    BY DEF Edits, Host
  <2> QED
    BY <1>2, <1>3, <2>1, <2>2 DEF SubmitAdd
<1>4. CASE SubmitEdit(s)
  <2>1. PICK a \in Addresses :
           LET h == [addr |-> a, policy |-> KeptPolicy(s, overlay[s].id)] IN
           BeginSave(s, [kind |-> "save", id |-> overlay[s].id, host |-> h],
                     With(ReadFile, overlay[s].id, h))
    BY <1>4 DEF SubmitEdit
  <2> DEFINE e == [kind |-> "save", id |-> overlay[s].id,
                   host |-> [addr |-> a, policy |-> KeptPolicy(s, overlay[s].id)]]
  <2>2. overlay[s].id \in Ids /\ mem[s][overlay[s].id] \in Host
    BY <1>4 DEF SubmitEdit, TypeOK, Hosts
  <2>3. e \in Edits
    BY <2>2 DEF Edits, Host, KeptPolicy
  <2> QED
    BY <1>2, <1>4, <2>1, <2>3 DEF SubmitEdit
<1>5. CASE ConfirmDelete(s)
  <2> DEFINE i == overlay[s].id
             e == [kind |-> "remove", id |-> i, host |-> None]
  <2>1. i \in Ids /\ pc[s] = "view" /\ e \in Edits
    BY <1>5 DEF ConfirmDelete, TypeOK, Edits
  <2>2. CASE BeginSave(s, e, With(ReadFile, i, None))
    BY <1>2, <2>1, <2>2
  <2>3. CASE /\ Readable /\ (ReadFile.hosts[i] = None \/ ~Editable)
             /\ mem' = [mem EXCEPT ![s][i] = None]
             /\ UNCHANGED <<pc, op, doc, fd, alone, synced>>
    <3>1. ReadFile.hosts \in Hosts
      BY <2>3, ReadType
    <3>2. Loaded'
      BY <1>1, <2>1, <2>3, <3>1 DEF Loaded, InStep, Editable, TypeOK, Hosts
    <3> QED
      BY <1>1, <2>3, <3>2 DEF OneWriter, Edited, InSave, Saving
  <2>4. CASE UNCHANGED <<pc, mem, op, doc, fd, alone, synced>>
    BY <1>1, <2>4 DEF OneWriter, Edited, Loaded, InStep, InSave, Saving
  <2> QED
    BY <1>5, <2>2, <2>3, <2>4 DEF ConfirmDelete
<1> QED
  BY <1>3, <1>4, <1>5

\* A save that fails leaves the file and the loaded inventory alone.
LEMMA FailedGood ==
  ASSUME TypeOK, Good, NEW s \in Sessions, Failed(s), UNCHANGED <<conf, alone, synced>>,
         fd' = [fd EXCEPT ![s] = "none"], tmp' = tmp \/ Saving(s)
  PROVE  Good'
<1> USE DEF Good
<1>1. ReadFile' = ReadFile /\ conf' # Torn
  BY DEF ReadFile
<1>2. OneWriter'
  BY DEF OneWriter, Saving, Failed, Forget, TypeOK
<1>3. Edited'
  BY <1>1 DEF Edited, InSave, Failed, Forget, TypeOK
<1>4. Loaded'
  BY <1>1 DEF Loaded, InStep, Failed
<1> QED
  BY <1>1, <1>2, <1>3, <1>4

\* Opening keeps one writer where it overlaps no other save.
LEMMA OpenGood ==
  ASSUME TypeOK, Good, NEW s \in Sessions, OpenTmp(s), ~overlapped'
  PROVE  Good'
<1> USE DEF Good
<1>1. CASE Failed(s) /\ UNCHANGED <<tmp, fd>>
  <2>1. fd' = [fd EXCEPT ![s] = "none"] /\ UNCHANGED <<conf, alone, synced>>
    BY <1>1 DEF OpenTmp, OneWriter, TypeOK
  <2> QED
    BY <1>1, <2>1, FailedGood
<1>2. CASE pc' = [pc EXCEPT ![s] = "write"]
  <2>1. /\ fd' = [fd EXCEPT ![s] = "tmp"] /\ tmp' = Empty
        /\ UNCHANGED <<conf, mem, op, doc, alone, synced>> /\ ReadFile' = ReadFile
        /\ \A q \in Sessions \ {s} : ~Saving(q)
    <3>1. ~Failed(s)
      BY <1>2 DEF Failed, TypeOK
    <3> QED
      BY <1>2, <3>1 DEF OpenTmp, ReadFile
  <2>2. OneWriter'
    BY <1>2, <2>1 DEF OneWriter, Saving, TypeOK
  <2>3. Edited'
    BY <1>2, <2>1 DEF Edited, InSave, OpenTmp, TypeOK
  <2>4. Loaded'
    BY <2>1 DEF Loaded, InStep
  <2> QED
    BY <2>1, <2>2, <2>3, <2>4
<1> QED
  BY <1>1, <1>2 DEF OpenTmp

\* The one writer writes its document to the temporary file.
LEMMA WriteGood == ASSUME TypeOK, Good, NEW s \in Sessions, WriteTmp(s) PROVE Good'
<1> USE DEF Good
<1>1. fd[s] = "tmp" /\ tmp = Empty /\ pc[s] = "write" /\ Saving(s)
  BY DEF WriteTmp, OneWriter, Saving
<1>2. /\ UNCHANGED <<conf, alone, synced>> /\ ReadFile' = ReadFile
      /\ fd' = [fd EXCEPT ![s] = "none"]
  BY <1>1 DEF WriteTmp, Put, ReadFile
<1>3. CASE Failed(s)
  BY <1>1, <1>2, <1>3, FailedGood
<1>4. CASE pc' = [pc EXCEPT ![s] = "rename"] /\ ~Failed(s)
  <2>1. tmp' = doc[s] /\ UNCHANGED <<mem, op, doc>>
    BY <1>1, <1>4 DEF WriteTmp, Written, Old, Put
  <2>2. OneWriter'
    BY <1>1, <1>2, <1>4, <2>1 DEF OneWriter, Saving, TypeOK
  <2>3. Edited'
    BY <1>1, <1>2, <1>4, <2>1 DEF Edited, InSave, TypeOK
  <2>4. Loaded'
    BY <1>2, <2>1 DEF Loaded, InStep
  <2> QED
    BY <1>2, <2>2, <2>3, <2>4
<1> QED
  BY <1>3, <1>4 DEF WriteTmp

\* What an undisturbed save renames is the file it read with its edit.
LEMMA ReplaceInstalls ==
  ASSUME TypeOK, Good, NEW s \in Sessions, pc[s] = "rename", Replace(s), alone[s]
  PROVE  /\ conf' = [ReadFile EXCEPT !.hosts[op[s].id] = op[s].host]
         /\ ReadFile' = conf' /\ ReadFile'.hosts = [ReadFile.hosts EXCEPT ![op[s].id] = op[s].host]
<1>1. conf' = doc[s] /\ doc[s] = [ReadFile EXCEPT !.hosts[op[s].id] = op[s].host]
  BY DEF Replace, Good, OneWriter, Edited, InSave
<1>2. doc[s] \in Document /\ op[s].id \in Ids /\ op[s].host \in Host \cup {None}
  BY DEF TypeOK, Edits
<1>3. ReadFile \in Document
  BY ReadType DEF Good, Readable
<1>4. doc[s] # Missing
  BY <1>2, MarksDiffer
<1> QED
  BY <1>1, <1>2, <1>3, <1>4, WithType DEF ReadFile

\* What it renames is that document, so whoever was in step with the file learns of it.
LEMMA RenameGood == ASSUME TypeOK, Good, NEW s \in Sessions, Rename(s) PROVE Good'
<1> USE DEF Good
<1>1. pc[s] = "rename" /\ tmp = doc[s] /\ fd[s] = "none" /\ Saving(s)
  BY DEF Rename, OneWriter, Saving
<1>2. CASE Failed(s) /\ UNCHANGED <<conf, tmp, fd, alone, synced>>
  <2>1. fd' = [fd EXCEPT ![s] = "none"]
    BY <1>1, <1>2 DEF TypeOK
  <2> QED
    BY <1>2, <2>1, FailedGood
<1>3. CASE Replace(s)
  <2>1. conf' # Torn
    BY <1>1, <1>3, MarksDiffer DEF Replace, TypeOK
  <2>2. \A q \in Sessions : fd[q] = "none"
    BY <1>1 DEF OneWriter, Saving
  <2>3. OneWriter'
    BY <1>1, <1>3, <2>2 DEF Replace, OneWriter, Saving, Forget, TypeOK
  <2>4. Edited'
    BY <1>3 DEF Replace, Edited, InSave, OnlyKnownTo, TypeOK
  <2>5. Loaded'
    <3>1. ASSUME synced'[s] PROVE InStep(s)'
      <4>1. synced[s] /\ alone[s] /\ InStep(s)
        BY <1>1, <1>3, <3>1 DEF Replace, OnlyKnownTo, Edited, InSave, Loaded
      <4>2. mem'[s] = [mem[s] EXCEPT ![op[s].id] = op[s].host]
        BY <1>3 DEF Replace, TypeOK
      <4>3. ReadFile'.rest = ReadFile.rest /\ ReadFile.hosts \in Hosts
        BY <1>1, <1>3, <4>1, ReplaceInstalls, ReadType DEF Document, Readable
      <4>4. /\ ReadFile'.hosts = [ReadFile.hosts EXCEPT ![op[s].id] = op[s].host]
            /\ mem[s] \in Hosts /\ op[s].id \in Ids
        BY <1>1, <1>3, <4>1, ReplaceInstalls DEF TypeOK, Edits
      <4> QED
        BY <4>1, <4>2, <4>3, <4>4 DEF InStep, Hosts
    <3> QED
      BY <1>3, <3>1 DEF Loaded, Replace, OnlyKnownTo
  <2> QED
    BY <2>1, <2>3, <2>4, <2>5
<1> QED
  BY <1>2, <1>3 DEF Rename

\* After an edit by hand nobody is taken to be in step with the file.
LEMMA ByHandGood == ASSUME TypeOK, Good, EditByHand PROVE Good'
<1>1. conf' # Torn
  <2>1. conf' \in Document
    <3>1. ASSUME NEW i \in Ids, NEW h \in Host \cup {None},
                 conf' = [conf EXCEPT !.hosts[i] = h]
          PROVE  conf' \in Document
      BY <3>1, WithType DEF EditByHand
    <3>2. ASSUME NEW r \in Rests, conf' = [conf EXCEPT !.rest = r] PROVE conf' \in Document
      BY <3>2 DEF EditByHand, Document
    <3> QED
      BY <3>1, <3>2 DEF EditByHand
  <2> QED
    BY <2>1, MarksDiffer
<1> QED
  BY <1>1 DEF Good, EditByHand, OneWriter, Edited, Loaded, InSave, Saving

\* Every step keeps Settled, or makes saves overlap.
LEMMA StepSettled == ASSUME TypeOK, Settled, Next PROVE Settled'
<1> SUFFICES ASSUME ~overlapped' PROVE Good'
  BY DEF Settled
<1>1. Good
  <2>1. ~overlapped
    BY DEF Next, EditByHand, SessionStep, Start, OpenAdd, OpenEdit, OpenDelete, Modal, Dismiss,
           DrillIn, Quit, SubmitAdd, SubmitEdit, ConfirmDelete, BeginSave, OpenTmp, WriteTmp,
           Rename, Kill
  <2> QED
    BY <2>1 DEF Settled
<1>2. CASE EditByHand
  BY <1>1, <1>2, ByHandGood
<1>3. ASSUME NEW s \in Sessions, SessionStep(s) PROVE Good'
  BY <1>1, <1>3, QuietGood, BeginGood, OpenGood, WriteGood, RenameGood DEF SessionStep
<1> QED
  BY <1>2, <1>3 DEF Next

\* The keys that open a form or a question show a notice instead.
LEMMA StepBarred == ASSUME TypeOK, OffIsClean, Barred, Next PROVE Barred'
<1> USE DEF Barred
<1>1. CASE EditByHand
  BY <1>1 DEF EditByHand
<1>2. ASSUME NEW s \in Sessions, SessionStep(s), NEW q \in Sessions, readOnly'[q]
      PROVE  pc'[q] \in {"off", "view", "host"} /\ overlay'[q].kind \in {"none", "notice"}
  <2>1. CASE q # s
    <3>1. pc'[q] = pc[q] /\ overlay'[q] = overlay[q] /\ readOnly'[q] = readOnly[q]
      BY <1>2, <2>1
         DEF SessionStep, Start, OpenAdd, OpenEdit, OpenDelete, Modal, Dismiss, DrillIn, Quit,
             SubmitAdd, SubmitEdit, ConfirmDelete, BeginSave, OpenTmp, WriteTmp, Rename,
             Replace, Failed, Kill, TypeOK
    <3> QED
      BY <1>2, <3>1
  <2>2. CASE q = s
    <3>1. CASE Start(s) \/ Quit(s) \/ Kill(s) \/ DrillIn(s) \/ Dismiss(s)
      <4>1. CASE Start(s)
        BY <2>2, <4>1 DEF Start, OffIsClean, NoOverlay, TypeOK
      <4>2. CASE Quit(s) \/ Kill(s)
        BY <1>2, <2>2, <4>2 DEF Quit, Kill, TypeOK
      <4>3. CASE DrillIn(s)
        BY <1>2, <2>2, <4>3 DEF DrillIn, AtTable, NoOverlay, TypeOK
      <4>4. CASE Dismiss(s)
        BY <1>2, <2>2, <4>4 DEF Dismiss, NoOverlay, TypeOK
      <4> QED
        BY <3>1, <4>1, <4>2, <4>3, <4>4
    <3>2. CASE OpenAdd(s) \/ OpenEdit(s) \/ OpenDelete(s)
      BY <1>2, <2>2, <3>2 DEF OpenAdd, OpenEdit, OpenDelete, Modal, AtTable, Notice, TypeOK
    <3>3. CASE /\ UNCHANGED readOnly
               /\ overlay[s].kind \notin {"none", "notice"} \/ pc[s] \notin {"off", "view", "host"}
      BY <1>2, <2>2, <3>3
    <3> QED
      BY <1>2, <3>1, <3>2, <3>3
         DEF SessionStep, SubmitAdd, SubmitEdit, ConfirmDelete, BeginSave, OpenTmp, WriteTmp,
             Rename
  <2> QED
    BY <2>1, <2>2
<1> QED
  BY <1>1, <1>2 DEF Next

-------------------------------------------------------------------------------
(* The theorems. *)

\* The invariant holds while every session is off.
LEMMA InitInvariant == Init => IInv
<1> SUFFICES ASSUME Init PROVE IInv
  OBVIOUS
<1>1. TypeOK
  <2>1. conf \in File /\ tmp \in File
    BY InventoriesAreFiles DEF Init, File
  <2>2. mem \in [Sessions -> Hosts] /\ doc \in [Sessions -> Document]
    BY EmptyType DEF Init
  <2>3. overlay \in [Sessions -> Overlays]
    BY NoOverlayType DEF Init
  <2>4. op \in [Sessions -> Edits]
    BY NoOverlayType DEF Init
  <2>5. \A s \in Sessions : overlay[s].kind = "none"
    BY DEF Init, NoOverlay
  <2>6. saves \in 0..MaxSaves /\ byHand \in 0..MaxByHand /\ kills \in 0..MaxKills
    BY BoundsAreNat DEF Init
  <2>7. /\ readOnly \in [Sessions -> BOOLEAN] /\ alone \in [Sessions -> BOOLEAN]
        /\ synced \in [Sessions -> BOOLEAN] /\ overlapped \in BOOLEAN
        /\ pc \in [Sessions -> {"off", "view", "host", "open", "write", "rename"}]
        /\ fd \in [Sessions -> {"none", "tmp", "conf", "gone"}]
    BY DEF Init
  <2> QED
    BY <2>1, <2>2, <2>3, <2>4, <2>5, <2>6, <2>7 DEF TypeOK
<1>2. conf # Torn
  BY InventoriesAreFiles, MarksDiffer DEF Init
<1>3. OffIsClean /\ Barred
  BY DEF Init, OffIsClean, Barred
<1>4. OneWriter /\ Edited /\ Loaded
  BY DEF Init, OneWriter, Edited, Loaded, Saving, InSave
<1> QED
  BY <1>1, <1>2, <1>3, <1>4 DEF IInv, Settled, Good

\* Every step keeps it.
LEMMA StepInvariant == IInv /\ [Next]_vars => IInv'
<1> SUFFICES ASSUME IInv, [Next]_vars PROVE IInv'
  OBVIOUS
<1>1. CASE Next
  BY <1>1, StepType, StepOff, StepBarred, StepSettled DEF IInv
<1>2. CASE UNCHANGED vars
  <2>1. UNCHANGED <<conf, tmp, pc, readOnly, mem, overlay, op, doc, fd, alone, synced,
                    overlapped, saves, byHand, kills>>
    BY <1>2 DEF vars, counters
  <2>2. TypeOK'
    BY <2>1 DEF IInv, TypeOK
  <2>3. OffIsClean' /\ Barred'
    BY <2>1 DEF IInv, OffIsClean, Barred
  <2>4. Settled'
    BY <2>1 DEF IInv, Settled, Good, OneWriter, Edited, Loaded, InStep, Saving, InSave, ReadFile
  <2> QED
    BY <2>2, <2>3, <2>4 DEF IInv
<1> QED
  BY <1>1, <1>2

\* The inductive invariant of the sessions that share config.toml.
THEOREM Invariant == Spec => []IInv
  BY InitInvariant, StepInvariant, PTL DEF Spec

\* Every variable keeps its type, whatever fails, is killed or edited by hand.
THEOREM TypeCorrect == Spec => []TypeOK
<1>1. IInv => TypeOK
  BY DEF IInv
<1> QED
  BY <1>1, Invariant, PTL

\* Without overlapping saves config.toml always parses (write_document).
THEOREM WholeCorrect == Spec => []WholeUnlessOverlapped
<1>1. IInv => WholeUnlessOverlapped
  BY DEF IInv, Settled, Good, WholeUnlessOverlapped
<1> QED
  BY <1>1, Invariant, PTL

\* The grid of a session whose file nobody else touched shows the file, but for hosts of
\* an inline table that Delete took off it.
THEOREM GridCorrect == Spec => []GridShowsFile
<1>1. IInv => GridShowsFile
  BY DEF IInv, Settled, Good, Loaded, Readable, GridShowsFile
<1> QED
  BY <1>1, Invariant, PTL

\* A session started read-only never comes to save.
THEOREM ViewersCorrect == Spec => []ViewersDoNotSave
<1>1. IInv => ViewersDoNotSave
  BY DEF IInv, Barred, ViewersDoNotSave
<1> QED
  BY <1>1, Invariant, PTL

\* An undisturbed save changes its host in the file and nothing else.
THEOREM SavesCorrect == Spec => SaveChangesItsHost
<1>1. ASSUME IInv, [Next]_vars, NEW s \in Sessions, pc[s] = "rename", tmp # Missing,
             tmp' = Missing, alone[s], ~overlapped
      PROVE  conf' = [ReadFile EXCEPT !.hosts[op[s].id] = op[s].host]
  <2>1. Good /\ TypeOK
    BY <1>1 DEF IInv, Settled
  <2>2. \A q \in Sessions : Saving(q) => q = s
    BY <1>1, <2>1 DEF Good, OneWriter, Saving
  <2>3. CASE \E q \in Sessions : Rename(q)
    <3>1. PICK q \in Sessions : Rename(q)
      BY <2>3
    <3>2. q = s
      BY <2>2, <3>1 DEF Rename, Saving
    <3>3. Replace(s)
      BY <1>1, <3>1, <3>2 DEF Rename
    <3> QED
      BY <1>1, <2>1, <3>3, ReplaceInstalls
  <2>4. CASE \E q \in Sessions : OpenTmp(q)
    BY <1>1, <2>4, EmptyType, MarksDiffer DEF OpenTmp
  <2>5. CASE \E q \in Sessions : WriteTmp(q)
    BY <1>1, <2>2, <2>5 DEF WriteTmp, Saving
  <2>6. CASE UNCHANGED tmp
    BY <1>1, <2>6
  <2> QED
    BY <1>1, <2>3, <2>4, <2>5, <2>6
       DEF Next, SessionStep, EditByHand, Start, OpenAdd, OpenEdit, OpenDelete, Modal, Dismiss,
           DrillIn, Quit, SubmitAdd, SubmitEdit, ConfirmDelete, BeginSave, Kill, vars
<1>2. IInv /\ [Next]_vars
        => [\A s \in Sessions :
              (pc[s] = "rename" /\ tmp # Missing /\ tmp' = Missing /\ alone[s] /\ ~overlapped)
                  => conf' = [ReadFile EXCEPT !.hosts[op[s].id] = op[s].host]]_vars
  BY <1>1
<1> QED
  BY <1>2, Invariant, PTL DEF Spec, SaveChangesItsHost

\* A session comes to save from its grid by one of three actions of its own.
LEMMA OpensBySubmit ==
  ASSUME TypeOK, [Next]_vars, NEW s \in Sessions, pc[s] = "view", pc'[s] = "open",
         overlay[s].kind \in {"add", "edit"}
  PROVE  /\ overlay[s].kind = "add" => SubmitAdd(s)
         /\ overlay[s].kind = "edit" => SubmitEdit(s)
<1>1. PICK q \in Sessions : SessionStep(q)
  BY DEF Next, EditByHand, vars
<1>2. q = s
  BY <1>1 DEF SessionStep, Start, OpenAdd, OpenEdit, OpenDelete, Modal, Dismiss, DrillIn, Quit,
              SubmitAdd, SubmitEdit, ConfirmDelete, BeginSave, OpenTmp, WriteTmp, Rename,
              Replace, Failed, Kill, TypeOK
<1>3. SubmitAdd(s) \/ SubmitEdit(s) \/ ConfirmDelete(s)
  BY <1>1, <1>2 DEF SessionStep, Start, OpenAdd, OpenEdit, OpenDelete, Modal, Dismiss, DrillIn,
                    Quit, OpenTmp, WriteTmp, Rename, Replace, Failed, Kill, TypeOK
<1> QED
  BY <1>3 DEF SubmitAdd, SubmitEdit, ConfirmDelete

\* Add with an up-to-date inventory never replaces a host of the file.
THEOREM AddCorrect == Spec => AddReplacesNothing
<1>1. ASSUME IInv, [Next]_vars, NEW s \in Sessions, pc[s] = "view", pc'[s] = "open",
             overlay[s].kind = "add", synced[s], ~overlapped
      PROVE  ReadFile.hosts[op'[s].id] = None
  <2>1. InStep(s) /\ TypeOK
    BY <1>1 DEF IInv, Settled, Good, Loaded
  <2>2. SubmitAdd(s)
    BY <1>1, <2>1, OpensBySubmit
  <2>3. PICK i \in Ids : MayAdd(s, i) /\ op'[s].id = i
    BY <2>1, <2>2 DEF SubmitAdd, BeginSave, TypeOK
  <2> QED
    BY <2>1, <2>2, <2>3 DEF MayAdd, InStep, SubmitAdd, Editable
<1>2. IInv /\ [Next]_vars
        => [\A s \in Sessions :
              (pc[s] = "view" /\ pc'[s] = "open" /\ overlay[s].kind = "add" /\ synced[s]
               /\ ~overlapped)
                  => ReadFile.hosts[op'[s].id] = None]_vars
  BY <1>1
<1> QED
  BY <1>2, Invariant, PTL DEF Spec, AddReplacesNothing

\* Edit with an up-to-date inventory keeps the policy of the file.
THEOREM EditCorrect == Spec => EditKeepsPolicy
<1>1. ASSUME IInv, [Next]_vars, NEW s \in Sessions, pc[s] = "view", pc'[s] = "open",
             overlay[s].kind = "edit", synced[s], ~overlapped
      PROVE  doc'[s].hosts[op'[s].id].policy = ReadFile.hosts[op'[s].id].policy
  <2>1. InStep(s) /\ TypeOK
    BY <1>1 DEF IInv, Settled, Good, Loaded
  <2>2. SubmitEdit(s)
    BY <1>1, <2>1, OpensBySubmit
  <2> DEFINE i == overlay[s].id
  <2>3. i \in Ids
    BY <1>1, <2>1 DEF TypeOK
  <2>4. PICK a \in Addresses :
           /\ op'[s].id = i
           /\ doc'[s] = With(ReadFile, i, [addr |-> a, policy |-> KeptPolicy(s, i)])
    BY <2>1, <2>2 DEF SubmitEdit, BeginSave, TypeOK
  <2>5. ReadFile \in Document
    BY <2>1, <2>2, ReadType DEF SubmitEdit, Editable
  <2>6. doc'[s].hosts[i] = [addr |-> a, policy |-> KeptPolicy(s, i)]
    BY <2>3, <2>4, <2>5 DEF With, Document, Hosts
  <2> QED
    BY <2>1, <2>2, <2>3, <2>4, <2>6 DEF KeptPolicy, InStep, SubmitEdit, Editable
<1>2. IInv /\ [Next]_vars
        => [\A s \in Sessions :
              (pc[s] = "view" /\ pc'[s] = "open" /\ overlay[s].kind = "edit" /\ synced[s]
               /\ ~overlapped)
                  => doc'[s].hosts[op'[s].id].policy = ReadFile.hosts[op'[s].id].policy]_vars
  BY <1>1
<1> QED
  BY <1>2, Invariant, PTL DEF Spec, EditKeepsPolicy

===============================================================================
