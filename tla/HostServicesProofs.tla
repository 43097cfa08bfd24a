------------------------ MODULE HostServicesProofs ------------------------
(***************************************************************************)
(* The inductive invariants of the services of the Host, each of one part  *)
(* by itself: the files it changes, the catalogs of an MCP connection, the *)
(* connection, the panel that shows both, and the deletion of Sessions.    *)
(* ServicesProofs says what follows for the services together.             *)
(***************************************************************************)
EXTENDS HostServices, SequenceTheorems, TLAPS

-----------------------------------------------------------------------------
(* FileChanges: what is written to the workspace.                          *)

FileTexts == Changes!FileTexts
Disks == [Files -> [saved : FileTexts, text : FileTexts, version : Nat]]
Contents == [saved : FileTexts, text : FileTexts]
Kinds == {"edit", "create", "delete", "rename"}
ChangeRecords ==
    [kind : Kinds \cup {"none"}, files : Seq(Files), byVersion : BOOLEAN,
     text : Seq(FileTexts), version : Seq(Nat),
     step : {"idle", "capture", "confirm", "approval", "look", "record", "relook", "submitted"},
     at : Nat, loose : SUBSET Files, aborted : BOOLEAN]
Entry == [file : Files, before : FileTexts, after : FileTexts]
RestoreRecords ==
    [of : Nat, checkpoint : Seq(Entry), version : Seq(Nat),
     step : {"none", "load", "first", "second", "submitted", "verify"} \cup Changes!Results,
     at : Nat, loose : SUBSET Files, aborted : BOOLEAN]

\* One file, or two different ones.
OneOrTwo(n) == n = 1 \/ n = 2
\* A checkpoint is of one file or of two; that of a renaming moves one text.
Recorded(cp) ==
    /\ cp \in Seq(Entry) /\ OneOrTwo(Len(cp))
    /\ Len(cp) = 2 => cp[1].file # cp[2].file
    /\ Changes!UndoKind(cp) = "rename" => cp[2].after = cp[1].before

FilesTyped ==
    /\ disk \in Disks
    /\ change \in ChangeRecords
    /\ plans \in Nat
    /\ restores \in [1 .. MaxRestores -> RestoreRecords]
    /\ \A n \in DOMAIN checkpoints : Recorded(checkpoints[n])

Planned(c) ==
    /\ c.kind \in Kinds /\ OneOrTwo(Len(c.files)) /\ c.at \in 1 .. Len(c.files)
    /\ Len(c.files) = 2 => c.files[1] # c.files[2]
    /\ c.kind = "rename" => Len(c.files) = 2
    /\ c.kind \in {"create", "delete"} => Len(c.files) = 1
    /\ c.byVersion => c.kind = "edit"

\* As many files are captured as the step says.
CapturedSoFar(c) ==
    /\ Len(c.version) = Len(c.text)
    /\ Len(c.text) = CASE c.step = "capture" -> c.at - 1
                       [] c.step = "confirm" /\ c.kind = "edit" -> c.at
                       [] OTHER -> Len(c.files)
\* A file to edit that has the version it was captured with has the text, too.
VersionsTell(c, d) ==
    c.kind = "edit" => \A i \in 1 .. Len(c.text) :
        /\ c.version[i] <= d[c.files[i]].version
        /\ c.version[i] = d[c.files[i]].version => c.text[i] = d[c.files[i]].text
AsPlanned(c, d, i) == c.files[i] \in c.loose \/ Changes!Reads(c.kind, d[c.files[i]]) = c.text[i]

\* What the step of the plan says about the files.
ChangeFits(c, d) ==
    /\ Planned(c)
    /\ CapturedSoFar(c)
    /\ c.step # "submitted" => VersionsTell(c, d)
    /\ c.step = "record" => c.at = 1
    /\ c.step = "relook" => \A i \in 1 .. c.at - 1 : AsPlanned(c, d, i)
    /\ c.step = "submitted" => \A i \in 1 .. Len(c.files) : AsPlanned(c, d, i)

\* The plan has its checkpoint before the files are looked at for the last time.
CheckpointFits ==
    change.step \in {"relook", "submitted"} =>
        plans \in DOMAIN checkpoints /\ checkpoints[plans] = Changes!Checkpoint

Stays(x, d, i) ==
    x.checkpoint[i].file \in x.loose \/ d[x.checkpoint[i].file].text = x.checkpoint[i].after
RestoreFits(x, d) ==
    /\ x.step \in {"first", "second", "submitted", "verify"} =>
           Recorded(x.checkpoint) /\ x.at \in 1 .. Len(x.checkpoint)
    /\ x.step \in {"none", "load"} => x.at = 1
    /\ x.step = "second" => \A i \in 1 .. x.at - 1 : Stays(x, d, i)
    /\ x.step = "submitted" => \A i \in 1 .. Len(x.checkpoint) : Stays(x, d, i)

FilesInv ==
    /\ FilesTyped
    /\ change.step # "idle" => ChangeFits(change, disk)
    /\ CheckpointFits
    /\ \A r \in 1 .. MaxRestores : RestoreFits(restores[r], disk)

LEMMA NothingProposed == Changes!NoChange \in ChangeRecords /\ Changes!NoChange.step = "idle"
  BY DEF ChangeRecords, Changes!NoChange

LEMMA NothingAsked ==
    /\ Changes!NoRestore \in RestoreRecords
    /\ \A d : RestoreFits(Changes!NoRestore, d)
    /\ \A t \in Changes!Results : [Changes!NoRestore EXCEPT !.step = t] \in RestoreRecords
    /\ \A d, t : t \in Changes!Results => RestoreFits([Changes!NoRestore EXCEPT !.step = t], d)
  <1>1. Changes!NoRestore \in RestoreRecords /\ Changes!NoRestore.step = "none" /\ Changes!NoRestore.at = 1
    BY DEF RestoreRecords, Changes!NoRestore
  <1>2. ASSUME NEW t \in Changes!Results
        PROVE  LET x == [Changes!NoRestore EXCEPT !.step = t] IN x \in RestoreRecords /\ x.step = t
    BY <1>1, <1>2 DEF RestoreRecords
  <1> QED BY <1>1, <1>2 DEF Changes!Results, RestoreFits

LEMMA FilesInit == Changes!Init => FilesInv
  <1> SUFFICES ASSUME Changes!Init PROVE FilesInv
    OBVIOUS
  <1>1. FilesTyped
    BY NothingProposed, NothingAsked DEF Changes!Init, FilesTyped, Disks, FileTexts, Changes!FileTexts, Changes!Absent
  <1> QED BY <1>1, NothingProposed, NothingAsked DEF Changes!Init, FilesInv, CheckpointFits, Changes!NoChange

-----------------------------------------------------------------------------
(* The files change.                                                       *)

\* The files that are written are as written, the others as before; a file
\* whose text changes has a later version.
Written(d, e, written) ==
    /\ e \in Disks
    /\ \A f \in Files : /\ d[f].version <= e[f].version
                        /\ d[f].version = e[f].version => d[f].text = e[f].text
                        /\ f \notin DOMAIN written => e[f] = d[f]
                        /\ f \in DOMAIN written => e[f].saved = written[f].saved /\ e[f].text = written[f].text
\* The files in which what is looked at for a change of this kind changed.
ChangedIn(kind, d, e) == {f \in Files : Changes!Reads(kind, e[f]) # Changes!Reads(kind, d[f])}

LEMMA RewriteWrites ==
    ASSUME disk \in Disks, NEW written, \A f \in DOMAIN written : written[f] \in Contents,
           Changes!Rewrite(written)
    PROVE  Written(disk, disk', written)
  BY DEF Changes!Rewrite, Written, Disks, Contents

\* Who holds the files that changed loosely goes on as before.
LEMMA LooseChangeFits ==
    ASSUME NEW c \in ChangeRecords, NEW d \in Disks, NEW e, NEW written, Written(d, e, written),
           NEW gs, gs = ChangedIn(c.kind, d, e), c.step # "idle", ChangeFits(c, d)
    PROVE  LET l == [c EXCEPT !.loose = @ \cup gs] IN l \in ChangeRecords /\ ChangeFits(l, e)
  <1> DEFINE l == [c EXCEPT !.loose = @ \cup gs]
  <1>0. gs \in SUBSET Files
    BY DEF ChangedIn
  <1>1. l \in ChangeRecords
    BY <1>0 DEF ChangeRecords
  <1>2. /\ l.kind = c.kind /\ l.files = c.files /\ l.at = c.at /\ l.text = c.text /\ l.version = c.version
        /\ l.step = c.step /\ l.loose = c.loose \cup gs /\ l.byVersion = c.byVersion
    BY DEF ChangeRecords
  <1> HIDE DEF l
  <1>3. c.files \in Seq(Files) /\ Len(c.text) <= Len(c.files) /\ c.version \in Seq(Nat) /\ c.text \in Seq(FileTexts)
        /\ Len(c.version) = Len(c.text)
    BY DEF ChangeRecords, ChangeFits, CapturedSoFar, Planned
  <1>4. Planned(l) /\ CapturedSoFar(l)
    BY <1>2 DEF ChangeFits, Planned, CapturedSoFar
  <1>5. VersionsTell(c, d) => VersionsTell(l, e)
    <2> SUFFICES ASSUME c.kind = "edit", VersionsTell(c, d), NEW i \in 1 .. Len(c.text)
                 PROVE  /\ c.version[i] <= e[c.files[i]].version
                        /\ c.version[i] = e[c.files[i]].version => c.text[i] = e[c.files[i]].text
      BY <1>2 DEF VersionsTell
    <2>1. c.files[i] \in Files /\ c.version[i] \in Nat
      BY <1>3
    <2> DEFINE f == c.files[i]
    <2>2. d[f].version \in Nat /\ e[f].version \in Nat
      BY <2>1 DEF Written, Disks
    <2>3. d[f].version <= e[f].version /\ (d[f].version = e[f].version => d[f].text = e[f].text)
      BY <2>1 DEF Written
    <2>4. c.version[i] <= d[f].version /\ (c.version[i] = d[f].version => c.text[i] = d[f].text)
      BY DEF VersionsTell
    <2> HIDE DEF f
    <2>5. c.version[i] <= e[f].version /\ (c.version[i] = e[f].version => c.text[i] = e[f].text)
      BY <2>1, <2>2, <2>3, <2>4
    <2> QED BY <2>5 DEF f
  <1>6. ASSUME NEW i \in 1 .. Len(c.files), AsPlanned(c, d, i) PROVE AsPlanned(l, e, i)
    <2>1. c.files[i] \in Files
      BY <1>3
    <2> QED BY <1>2, <1>6, <2>1 DEF AsPlanned, ChangedIn
  <1>7. l.step = "relook" => \A i \in 1 .. l.at - 1 : AsPlanned(l, e, i)
    <2> SUFFICES ASSUME c.step = "relook", NEW i \in 1 .. c.at - 1 PROVE AsPlanned(l, e, i)
      BY <1>2
    <2>1. i \in 1 .. Len(c.files) /\ AsPlanned(c, d, i)
      BY <1>3 DEF ChangeFits, Planned
    <2> QED BY <1>6, <2>1
  <1>8. l.step = "submitted" => \A i \in 1 .. Len(l.files) : AsPlanned(l, e, i)
    BY <1>2, <1>6 DEF ChangeFits
  <1>9. ChangeFits(l, e)
    BY <1>2, <1>4, <1>5, <1>7, <1>8 DEF ChangeFits
  <1> QED BY <1>1, <1>9 DEF l

LEMMA LooseRestoreFits ==
    ASSUME NEW x \in RestoreRecords, NEW d \in Disks, NEW e, NEW written, Written(d, e, written),
           NEW gs, gs = ChangedIn("edit", d, e), RestoreFits(x, d)
    PROVE  LET l == [x EXCEPT !.loose = @ \cup gs] IN l \in RestoreRecords /\ RestoreFits(l, e)
  <1> DEFINE l == [x EXCEPT !.loose = @ \cup gs]
  <1>0. gs \in SUBSET Files
    BY DEF ChangedIn
  <1>1. l \in RestoreRecords
    BY <1>0 DEF RestoreRecords
  <1>2. l.checkpoint = x.checkpoint /\ l.at = x.at /\ l.step = x.step /\ l.loose = x.loose \cup gs
    BY DEF RestoreRecords
  <1> HIDE DEF l
  <1>3. ASSUME NEW i \in 1 .. Len(x.checkpoint), Stays(x, d, i) PROVE Stays(l, e, i)
    <2>1. x.checkpoint \in Seq(Entry)
      BY DEF RestoreRecords
    <2>2. x.checkpoint[i] \in Entry
      BY <2>1
    <2>3. x.checkpoint[i].file \in Files
      BY <2>2 DEF Entry
    <2> QED BY <1>2, <1>3, <2>3 DEF Stays, ChangedIn, Changes!Reads
  <1>4. l.step = "second" => \A i \in 1 .. l.at - 1 : Stays(l, e, i)
    <2> SUFFICES ASSUME x.step = "second", NEW i \in 1 .. x.at - 1 PROVE Stays(l, e, i)
      BY <1>2
    <2>1. i \in 1 .. Len(x.checkpoint) /\ Stays(x, d, i)
      BY DEF RestoreFits, RestoreRecords
    <2> QED BY <1>3, <2>1
  <1>5. l.step = "submitted" => \A i \in 1 .. Len(l.checkpoint) : Stays(l, e, i)
    BY <1>2, <1>3 DEF RestoreFits
  <1>6. RestoreFits(l, e)
    BY <1>2, <1>4, <1>5 DEF RestoreFits
  <1> QED BY <1>1, <1>6 DEF l

\* One at rest holds nothing.
LEMMA RestingRestoreFits ==
    ASSUME NEW x \in RestoreRecords, NEW d, NEW e, x.step \in {"none"} \cup Changes!Results,
           RestoreFits(x, d)
    PROVE  RestoreFits(x, e)
  BY DEF RestoreFits, Changes!Results

-----------------------------------------------------------------------------
(* The plan goes on.                                                       *)

LEMMA ChangeGoesOn ==
    ASSUME FilesInv, UNCHANGED <<disk, restores, checkpoints>>, plans' \in Nat,
           change' \in ChangeRecords, change'.step # "idle" => ChangeFits(change', disk), CheckpointFits'
    PROVE  FilesInv'
  BY DEF FilesInv, FilesTyped

LEMMA ChangeEnds ==
    ASSUME FilesInv, Changes!EndChange, UNCHANGED <<disk, restores, checkpoints, plans>>
    PROVE  FilesInv'
  <1>1. change' = Changes!NoChange
    BY DEF Changes!EndChange
  <1>2. CheckpointFits' /\ plans \in Nat
    BY <1>1, NothingProposed DEF CheckpointFits, FilesInv, FilesTyped
  <1> QED BY <1>1, <1>2, NothingProposed, ChangeGoesOn

LEMMA ProposeKeeps ==
    ASSUME FilesInv, NEW shape \in Changes!Shapes, NEW byVersion \in BOOLEAN, Changes!Propose(shape, byVersion)
    PROVE  FilesInv'
  <1> DEFINE c == [Changes!NoChange EXCEPT !.kind = shape[1], !.files = shape[2],
                       !.byVersion = byVersion, !.step = "capture"]
  <1>1. change' = c /\ UNCHANGED <<disk, restores, checkpoints>> /\ plans' = plans + 1
    BY DEF Changes!Propose
  <1>2. /\ shape[1] \in Kinds /\ shape[2] \in Seq(Files) /\ OneOrTwo(Len(shape[2]))
        /\ Len(shape[2]) = 2 => shape[2][1] # shape[2][2]
        /\ shape[1] = "rename" => Len(shape[2]) = 2
        /\ shape[1] \in {"create", "delete"} => Len(shape[2]) = 1
    <2>1. \A s \in Changes!Singles : s \in Seq(Files) /\ Len(s) = 1
      <3> SUFFICES ASSUME NEW f \in Files PROVE <<f>> \in Seq(Files) /\ Len(<<f>>) = 1
        BY DEF Changes!Singles
      <3> QED OBVIOUS
    <2>2. \A s \in Changes!Pairs : s \in Seq(Files) /\ Len(s) = 2 /\ s[1] # s[2]
      <3> SUFFICES ASSUME NEW s \in Changes!Pairs PROVE s \in Seq(Files) /\ Len(s) = 2 /\ s[1] # s[2]
        OBVIOUS
      <3>1. PICK f \in Files, g \in Files : s = <<f, g>>
        BY DEF Changes!Pairs
      <3>2. s[1] # s[2]
        BY DEF Changes!Pairs
      <3> QED BY <3>1, <3>2
    <2>3. \/ shape[1] \in {"edit", "create", "delete"} /\ shape[2] \in Changes!Singles
          \/ shape[1] \in {"edit", "rename"} /\ shape[2] \in Changes!Pairs
      BY DEF Changes!Shapes, Changes!TextEditPlans, Changes!WorkspaceEditPlans, Changes!FileCreatePlans,
             Changes!DeleteAndRenamePlans
    <2> QED BY <2>1, <2>2, <2>3 DEF Kinds, OneOrTwo
  <1>3. /\ c \in ChangeRecords /\ c.step = "capture" /\ c.kind = shape[1] /\ c.files = shape[2] /\ c.at = 1
        /\ c.text = <<>> /\ c.version = <<>> /\ c.byVersion = byVersion
    <2>1. Changes!NoChange \in ChangeRecords /\ shape[1] \in Kinds \cup {"none"} /\ shape[2] \in Seq(Files)
      BY <1>2, NothingProposed
    <2>2. Changes!NoChange.at = 1 /\ Changes!NoChange.text = <<>> /\ Changes!NoChange.version = <<>>
      BY DEF Changes!NoChange
    <2> QED BY <2>1, <2>2 DEF ChangeRecords
  <1> HIDE DEF c
  <1>4. ChangeFits(c, disk)
    <2>1. byVersion => shape[1] = "edit"
      BY DEF Changes!Propose
    <2>2. Planned(c)
      BY <1>2, <1>3, <2>1 DEF Planned, OneOrTwo
    <2>3. CapturedSoFar(c) /\ VersionsTell(c, disk)
      BY <1>3 DEF CapturedSoFar, VersionsTell
    <2> QED BY <1>3, <2>2, <2>3 DEF ChangeFits
  <1>5. CheckpointFits' /\ plans' \in Nat
    BY <1>1, <1>3 DEF CheckpointFits, FilesInv, FilesTyped
  <1> QED BY <1>1, <1>3, <1>4, <1>5, ChangeGoesOn

\* What is known of a plan that is under way.
LEMMA PlanFacts ==
    ASSUME FilesInv, change.step # "idle"
    PROVE  /\ change \in ChangeRecords /\ Planned(change) /\ CapturedSoFar(change)
           /\ change.files \in Seq(Files) /\ change.text \in Seq(FileTexts) /\ change.version \in Seq(Nat)
           /\ change.at \in 1 .. Len(change.files) /\ Changes!File = change.files[change.at]
           /\ Changes!File \in Files
           /\ Changes!Last <=> change.at = Len(change.files)
           /\ Changes!Reads(change.kind, disk[Changes!File]) \in FileTexts
           /\ disk[Changes!File].version \in Nat
           /\ Changes!VersionsOf(change.files) \in Seq(Nat)
           /\ Len(Changes!VersionsOf(change.files)) = Len(change.files)
           /\ plans \in Nat
  <1>1. /\ change \in ChangeRecords /\ Planned(change) /\ CapturedSoFar(change)
        /\ change.files \in Seq(Files) /\ change.text \in Seq(FileTexts) /\ change.version \in Seq(Nat)
        /\ disk \in Disks /\ plans \in Nat
    BY DEF FilesInv, FilesTyped, ChangeFits, ChangeRecords
  <1>2. change.at \in 1 .. Len(change.files)
    BY <1>1 DEF Planned
  <1>3. Changes!File = change.files[change.at] /\ Changes!File \in Files
    BY <1>1, <1>2 DEF Changes!File
  <1>4. Changes!Reads(change.kind, disk[Changes!File]) \in FileTexts /\ disk[Changes!File].version \in Nat
    BY <1>1, <1>3 DEF Disks, Changes!Reads
  <1>5. Changes!VersionsOf(change.files) = [i \in 1 .. Len(change.files) |-> disk[change.files[i]].version]
    BY <1>1 DEF Changes!VersionsOf, Changes!Positions
  <1>6. \A i \in 1 .. Len(change.files) : disk[change.files[i]].version \in Nat
    BY <1>1 DEF Disks
  <1>7. Changes!VersionsOf(change.files) \in Seq(Nat) /\ Len(Changes!VersionsOf(change.files)) = Len(change.files)
    BY <1>1, <1>5, <1>6
  <1> QED BY <1>1, <1>2, <1>3, <1>4, <1>7 DEF Changes!Last

LEMMA CaptureKeeps ==
    ASSUME FilesInv, Changes!Capture
    PROVE  FilesInv'
  <1> DEFINE c == Changes!Captured
  <1>1. change.step = "capture" /\ UNCHANGED <<disk, restores, checkpoints, plans>>
    BY DEF Changes!Capture, Changes!MayGo, Changes!OnlyTheChange
  <1>2. CASE change' = c
    <2> DEFINE read == Changes!Reads(change.kind, disk[Changes!File])
               text == Append(change.text, read)
               version == Append(change.version, disk[Changes!File].version)
    <2>1. change \in ChangeRecords /\ Planned(change) /\ change.at \in Nat
          /\ Changes!File = change.files[change.at] /\ change.at \in 1 .. Len(change.files)
          /\ change.files \in Seq(Files)
      BY <1>1, PlanFacts
    <2>2. /\ text \in Seq(FileTexts) /\ version \in Seq(Nat) /\ Len(text) = change.at /\ Len(version) = change.at
          /\ \A i \in 1 .. change.at - 1 : text[i] = change.text[i] /\ version[i] = change.version[i]
          /\ text[change.at] = read /\ version[change.at] = disk[Changes!File].version
      <3>1. Len(change.text) = change.at - 1 /\ Len(change.version) = change.at - 1
        BY <1>1, PlanFacts DEF CapturedSoFar
      <3>2. change.text \in Seq(FileTexts) /\ change.version \in Seq(Nat)
            /\ read \in FileTexts /\ disk[Changes!File].version \in Nat
        BY <1>1, PlanFacts
      <3> HIDE DEF read
      <3>3. text \in Seq(FileTexts) /\ Len(text) = change.at /\ text[change.at] = read
            /\ \A i \in 1 .. change.at - 1 : text[i] = change.text[i]
        BY <2>1, <3>1, <3>2
      <3>4. version \in Seq(Nat) /\ Len(version) = change.at /\ version[change.at] = disk[Changes!File].version
            /\ \A i \in 1 .. change.at - 1 : version[i] = change.version[i]
        BY <2>1, <3>1, <3>2
      <3> HIDE DEF text, version
      <3> QED BY <3>3, <3>4
    <2> HIDE DEF text, version
    <2>3. /\ c.kind = change.kind /\ c.files = change.files
          /\ c.text = text /\ c.version = version
          /\ c.step = IF change.kind = "rename" /\ ~Changes!Last THEN "capture" ELSE "confirm"
          /\ c.at = IF change.kind = "rename" /\ ~Changes!Last THEN 2
                    ELSE IF change.kind = "rename" THEN 1 ELSE change.at
          /\ c.byVersion = change.byVersion
      BY <2>1 DEF Changes!Captured, ChangeRecords, text, version
    <2>4. c \in ChangeRecords
      BY <2>1, <2>2 DEF Changes!Captured, ChangeRecords, text, version
    <2> HIDE DEF c
    <2>5. Changes!Last <=> change.at = Len(change.files)
      BY <1>1, PlanFacts
    <2>6. Planned(c)
      BY <2>1, <2>3, <2>5 DEF Planned, OneOrTwo
    <2>7. CapturedSoFar(c)
      <3>0. Len(c.version) = Len(c.text) /\ Len(c.text) = change.at
        BY <2>2, <2>3
      <3>1. CASE change.kind = "edit"
        BY <2>3, <3>0, <3>1 DEF CapturedSoFar
      <3>2. CASE change.kind \in {"create", "delete"}
        BY <2>1, <2>3, <3>0, <3>2 DEF CapturedSoFar, Planned
      <3>3. CASE change.kind = "rename" /\ Changes!Last
        BY <2>3, <2>5, <3>0, <3>3 DEF CapturedSoFar
      <3>4. CASE change.kind = "rename" /\ ~Changes!Last
        <4>1. Len(change.files) = 2 /\ change.at = 1
          <5>1. change.at # Len(change.files) /\ Len(change.files) = 2
            BY <2>1, <2>5, <3>4 DEF Planned
          <5> QED BY <2>1, <5>1
        <4>2. c.at = 2 /\ c.step = "capture"
          BY <2>3, <3>4
        <4> QED BY <3>0, <4>1, <4>2 DEF CapturedSoFar
      <3> QED BY <2>1, <3>1, <3>2, <3>3, <3>4 DEF Planned, Kinds
    <2>8. VersionsTell(c, disk)
      <3> SUFFICES ASSUME change.kind = "edit", NEW i \in 1 .. change.at
                   PROVE  /\ version[i] <= disk[change.files[i]].version
                          /\ version[i] = disk[change.files[i]].version => text[i] = disk[change.files[i]].text
        BY <2>2, <2>3 DEF VersionsTell
      <3>1. CASE i = change.at
        <4>1. disk[Changes!File].version \in Nat
          BY <1>1, PlanFacts
        <4>2. version[i] = disk[change.files[i]].version /\ text[i] = disk[change.files[i]].text
          BY <2>1, <2>2, <3>1 DEF Changes!Reads
        <4>3. disk[change.files[i]].version \in Nat
          BY <2>1, <3>1, <4>1
        <4> QED BY <4>2, <4>3
      <3>2. CASE i \in 1 .. change.at - 1
        <4>1. VersionsTell(change, disk) /\ Len(change.text) = change.at - 1
          BY <1>1, PlanFacts DEF FilesInv, ChangeFits, CapturedSoFar
        <4> QED BY <2>2, <3>2, <4>1 DEF VersionsTell
      <3> QED BY <2>1, <3>1, <3>2
    <2>9. ChangeFits(c, disk) /\ c.step \notin {"relook", "submitted"}
      BY <2>3, <2>6, <2>7, <2>8 DEF ChangeFits
    <2> QED BY <1>1, <1>2, <2>4, <2>9, PlanFacts, ChangeGoesOn DEF CheckpointFits
  <1>3. CASE Changes!EndChange
    BY <1>1, <1>3, ChangeEnds
  <1> QED BY <1>2, <1>3 DEF Changes!Capture

\* A step that leaves the plan and what is captured as they are.
LEMMA PlanStays ==
    ASSUME FilesInv, change.step # "idle", UNCHANGED <<disk, restores, checkpoints, plans>>,
           change' \in ChangeRecords,
           change'.kind = change.kind, change'.files = change.files, change'.text = change.text,
           change'.byVersion = change.byVersion, Len(change'.version) = Len(change.version),
           change'.at \in 1 .. Len(change.files),
           CapturedSoFar(change'),
           change'.step # "submitted" => change.step # "submitted" /\ change'.version = change.version,
           change'.step = "relook" => \A i \in 1 .. change'.at - 1 : AsPlanned(change', disk, i),
           change'.step = "submitted" => \A i \in 1 .. Len(change.files) : AsPlanned(change', disk, i),
           change'.step \in {"relook", "submitted"} => change.step \in {"relook", "submitted"},
           change'.step = "record" => change'.at = 1
    PROVE  FilesInv'
  <1>1. Planned(change')
    BY PlanFacts DEF Planned
  <1>2. change'.step # "submitted" => VersionsTell(change', disk)
    BY DEF FilesInv, ChangeFits, VersionsTell
  <1>3. ChangeFits(change', disk)
    BY <1>1, <1>2 DEF ChangeFits
  <1>4. CheckpointFits'
    BY DEF CheckpointFits, FilesInv, Changes!Checkpoint, Changes!Wanted, Changes!Positions
  <1> QED BY <1>3, <1>4, PlanFacts, ChangeGoesOn
LEMMA ConfirmKeeps ==
    ASSUME FilesInv, Changes!Confirm
    PROVE  FilesInv'
  <1>1. change.step = "confirm" /\ UNCHANGED <<disk, restores, checkpoints, plans>>
    BY DEF Changes!Confirm, Changes!MayGo, Changes!OnlyTheChange
  <1>2. CASE change' = Changes!Confirmed
    <2>1. change \in ChangeRecords /\ Planned(change) /\ CapturedSoFar(change)
          /\ change.at \in 1 .. Len(change.files) /\ (Changes!Last <=> change.at = Len(change.files))
      BY <1>1, PlanFacts
    <2>2. /\ change' \in ChangeRecords
          /\ change'.kind = change.kind /\ change'.files = change.files /\ change'.text = change.text
          /\ change'.byVersion = change.byVersion
          /\ change'.version = change.version
          /\ change'.step = CASE Changes!Last -> "approval"
                              [] ~Changes!Last /\ change.kind = "edit" -> "capture"
                              [] OTHER -> "confirm"
          /\ change'.at = IF Changes!Last THEN 1 ELSE change.at + 1
      <3> DEFINE step == CASE Changes!Last -> "approval"
                           [] ~Changes!Last /\ change.kind = "edit" -> "capture"
                           [] OTHER -> "confirm"
                 at == IF Changes!Last THEN 1 ELSE change.at + 1
      <3>1. step \in {"approval", "capture", "confirm"} /\ at \in Nat
        BY <2>1
      <3>2. change' = [change EXCEPT !.step = step, !.at = at]
        BY <1>2 DEF Changes!Confirmed
      <3> HIDE DEF step, at
      <3>3. /\ change' \in ChangeRecords
            /\ change'.kind = change.kind /\ change'.files = change.files /\ change'.text = change.text
            /\ change'.byVersion = change.byVersion
            /\ change'.version = change.version /\ change'.step = step /\ change'.at = at
        BY <2>1, <3>1, <3>2 DEF ChangeRecords
      <3> QED BY <3>3 DEF step, at
    <2>3. change'.at \in 1 .. Len(change.files)
      BY <2>1, <2>2
    <2>4. CapturedSoFar(change')
      <3>1. CASE Changes!Last
        BY <1>1, <2>1, <2>2, <3>1 DEF CapturedSoFar
      <3>2. CASE ~Changes!Last /\ change.kind = "edit"
        BY <1>1, <2>1, <2>2, <3>2 DEF CapturedSoFar
      <3>3. CASE ~Changes!Last /\ change.kind # "edit"
        BY <1>1, <2>1, <2>2, <3>3 DEF CapturedSoFar
      <3> QED BY <3>1, <3>2, <3>3
    <2>5. change'.step \notin {"relook", "submitted"}
      BY <2>2
    <2> QED BY <1>1, <2>2, <2>3, <2>4, <2>5, PlanStays
  <1>3. CASE Changes!EndChange
    BY <1>1, <1>3, ChangeEnds
  <1> QED BY <1>2, <1>3 DEF Changes!Confirm

\* A step that only moves the plan on: approved, recorded, aborted.
LEMMA ApproveKeeps ==
    ASSUME FilesInv, Changes!Approve
    PROVE  FilesInv'
  <1>1. change.step = "approval" /\ change' = [change EXCEPT !.step = "look"]
        /\ UNCHANGED <<disk, restores, checkpoints, plans>>
    BY DEF Changes!Approve, Changes!MayGo, Changes!OnlyTheChange
  <1>2. /\ change' \in ChangeRecords
        /\ change'.kind = change.kind /\ change'.files = change.files /\ change'.text = change.text
        /\ change'.byVersion = change.byVersion
        /\ change'.version = change.version /\ change'.at = change.at /\ change'.step = "look"
    BY <1>1, PlanFacts DEF ChangeRecords
  <1>3. CapturedSoFar(change') /\ change'.at \in 1 .. Len(change.files)
    BY <1>1, <1>2, PlanFacts DEF CapturedSoFar
  <1> QED BY <1>1, <1>2, <1>3, PlanStays

LEMMA AbortKeeps ==
    ASSUME FilesInv, Changes!AbortChange
    PROVE  FilesInv'
  <1>1. change.step # "idle" /\ change' = [change EXCEPT !.aborted = TRUE]
        /\ UNCHANGED <<disk, restores, checkpoints, plans>>
    BY DEF Changes!AbortChange, Changes!OnlyTheChange, Changes!ChangeBusy
  <1>2. /\ change' \in ChangeRecords
        /\ change'.kind = change.kind /\ change'.files = change.files /\ change'.text = change.text
        /\ change'.byVersion = change.byVersion
        /\ change'.version = change.version /\ change'.at = change.at /\ change'.step = change.step
        /\ change'.loose = change.loose
    BY <1>1, PlanFacts DEF ChangeRecords
  <1>3. CapturedSoFar(change') /\ change'.at \in 1 .. Len(change.files)
    BY <1>1, <1>2, PlanFacts DEF CapturedSoFar
  <1>6. change'.step = "record" => change'.at = 1
    BY <1>1, <1>2 DEF FilesInv, ChangeFits
  <1>4. change'.step = "relook" => \A i \in 1 .. change'.at - 1 : AsPlanned(change', disk, i)
    BY <1>1, <1>2 DEF FilesInv, ChangeFits, AsPlanned
  <1>5. change'.step = "submitted" => \A i \in 1 .. Len(change.files) : AsPlanned(change', disk, i)
    BY <1>1, <1>2 DEF FilesInv, ChangeFits, AsPlanned
  <1> QED BY <1>1, <1>2, <1>3, <1>4, <1>5, <1>6, PlanStays

\* The looks before the checkpoint and those after it.
LEMMA ExamineKeeps ==
    ASSUME FilesInv, Changes!Examine
    PROVE  FilesInv'
  <1>0. UNCHANGED <<disk, restores, checkpoints, plans>> /\ change.step \in {"look", "relook"}
    BY DEF Changes!Examine, Changes!OnlyTheChange, Changes!MayGo
  <1>1. /\ change \in ChangeRecords /\ Planned(change) /\ CapturedSoFar(change)
        /\ change.at \in 1 .. Len(change.files) /\ (Changes!Last <=> change.at = Len(change.files))
        /\ Changes!File = change.files[change.at] /\ change.files \in Seq(Files)
        /\ Changes!VersionsOf(change.files) \in Seq(Nat)
        /\ Len(Changes!VersionsOf(change.files)) = Len(change.files)
    BY <1>0, PlanFacts
  <1>9. Len(change.text) = Len(change.files) /\ Len(change.version) = Len(change.files)
    BY <1>0, <1>1 DEF CapturedSoFar
  <1>2. CASE change.step = "look" /\ change' = Changes!Looked("look", "record")
    <2>1. /\ change' \in ChangeRecords
          /\ change'.kind = change.kind /\ change'.files = change.files /\ change'.text = change.text
          /\ change'.byVersion = change.byVersion
          /\ change'.version = change.version
          /\ change'.step \in {"look", "record"} /\ (change'.step = "record" => Changes!Last)
          /\ change'.at = IF Changes!Last THEN 1 ELSE change.at + 1
      <3> DEFINE step == IF Changes!Last THEN "record" ELSE "look"
                 at == IF Changes!Last THEN 1 ELSE change.at + 1
                 version == change.version
      <3>1. step \in {"record", "look"} /\ at \in Nat /\ version \in Seq(Nat)
        BY <1>1 DEF ChangeRecords
      <3>2. change' = [change EXCEPT !.step = step, !.at = at, !.loose = @ \ {Changes!File}, !.version = version]
        BY <1>1, <1>2 DEF Changes!Looked
      <3> HIDE DEF step, at, version
      <3>3. /\ change' \in ChangeRecords
            /\ change'.kind = change.kind /\ change'.files = change.files /\ change'.text = change.text
            /\ change'.byVersion = change.byVersion
            /\ change'.loose = change.loose \ {Changes!File}
            /\ change'.version = version /\ change'.step = step /\ change'.at = at
        BY <1>1, <3>1, <3>2 DEF ChangeRecords
      <3> QED BY <3>1, <3>3 DEF step, at, version
    <2>2. CapturedSoFar(change') /\ change'.at \in 1 .. Len(change.files)
      BY <1>1, <1>9, <2>1 DEF CapturedSoFar
    <2> QED BY <1>0, <1>2, <2>1, <2>2, PlanStays
  <1>3. CASE change.step = "relook" /\ Changes!Current /\ change' = Changes!Looked("relook", "submitted")
    <2>1. /\ change' \in ChangeRecords
          /\ change'.kind = change.kind /\ change'.files = change.files /\ change'.text = change.text
          /\ change'.byVersion = change.byVersion
          /\ change'.loose = change.loose \ {Changes!File}
          /\ change'.step = IF Changes!Last THEN "submitted" ELSE "relook"
          /\ change'.at = IF Changes!Last THEN 1 ELSE change.at + 1
          /\ change'.version = IF Changes!Last THEN Changes!VersionsOf(change.files) ELSE change.version
      <3> DEFINE step == IF Changes!Last THEN "submitted" ELSE "relook"
                 at == IF Changes!Last THEN 1 ELSE change.at + 1
                 version == (IF Changes!Last THEN Changes!VersionsOf(change.files) ELSE change.version)
      <3>1. step \in {"submitted", "relook"} /\ at \in Nat /\ version \in Seq(Nat)
        BY <1>1 DEF ChangeRecords
      <3>2. change' = [change EXCEPT !.step = step, !.at = at, !.loose = @ \ {Changes!File}, !.version = version]
        BY <1>1, <1>3 DEF Changes!Looked
      <3> HIDE DEF step, at, version
      <3>3. /\ change' \in ChangeRecords
            /\ change'.kind = change.kind /\ change'.files = change.files /\ change'.text = change.text
            /\ change'.byVersion = change.byVersion
            /\ change'.loose = change.loose \ {Changes!File}
            /\ change'.version = version /\ change'.step = step /\ change'.at = at
        BY <1>1, <3>1, <3>2 DEF ChangeRecords
      <3> QED BY <3>1, <3>3 DEF step, at, version
    <2>2. CapturedSoFar(change') /\ change'.at \in 1 .. Len(change.files)
          /\ Len(change'.version) = Len(change.version)
      BY <1>1, <1>9, <2>1 DEF CapturedSoFar
    <2>3. Changes!Reads(change.kind, disk[Changes!File]) = change.text[change.at]
      <3>1. CASE change.byVersion
        <4>1. change.kind = "edit" /\ VersionsTell(change, disk)
          BY <1>1, <1>3, <3>1 DEF FilesInv, ChangeFits, Planned
        <4> QED BY <1>1, <1>3, <1>9, <3>1, <4>1 DEF VersionsTell, Changes!Current, Changes!Reads
      <3> QED BY <1>3, <3>1 DEF Changes!Current
    <2>4. \A i \in 1 .. change.at : AsPlanned(change', disk, i)
      <3> SUFFICES ASSUME NEW i \in 1 .. change.at PROVE AsPlanned(change', disk, i)
        OBVIOUS
      <3>1. CASE i = change.at
        BY <1>1, <2>1, <2>3, <3>1 DEF AsPlanned
      <3>2. CASE i \in 1 .. change.at - 1
        <4>1. AsPlanned(change, disk, i)
          BY <1>3, <3>2 DEF FilesInv, ChangeFits
        <4>2. change.files[i] # Changes!File
          <5>1. Len(change.files) = 2 /\ change.at = 2 /\ i = 1
            <6>1. Len(change.files) = 1 \/ Len(change.files) = 2
              BY <1>1 DEF Planned, OneOrTwo
            <6>2. change.at \in 1 .. Len(change.files) /\ i \in 1 .. change.at - 1
              BY <1>1, <3>2
            <6>3. CASE Len(change.files) = 1
              BY <6>2, <6>3
            <6>4. CASE Len(change.files) = 2
              BY <6>2, <6>4
            <6> QED BY <6>1, <6>3, <6>4
          <5> QED BY <1>1, <5>1 DEF Planned
        <4> QED BY <2>1, <4>1, <4>2 DEF AsPlanned
      <3> QED BY <1>1, <3>1, <3>2
    <2>5. CASE Changes!Last
      BY <1>0, <1>1, <1>3, <2>1, <2>2, <2>4, <2>5, PlanStays
    <2>6. CASE ~Changes!Last
      <3>1. change'.step = "relook" /\ change'.at - 1 = change.at
        BY <1>1, <2>1, <2>6
      <3> QED BY <1>0, <1>1, <1>3, <2>1, <2>2, <2>4, <2>6, <3>1, PlanStays
    <2> QED BY <2>5, <2>6
  <1>4. CASE Changes!EndChange
    BY <1>0, <1>4, ChangeEnds
  <1> QED BY <1>2, <1>3, <1>4 DEF Changes!Examine, Changes!Look, Changes!MayGo

\* The checkpoint of a plan moves one text if the plan renames a file.
LEMMA PlanIsRecorded ==
    ASSUME FilesInv, change.step \in {"record", "relook", "submitted"}
    PROVE  Recorded(Changes!Checkpoint)
  <1> DEFINE cp == Changes!Checkpoint
  <1>1. /\ Planned(change) /\ change.files \in Seq(Files) /\ change.text \in Seq(FileTexts)
        /\ Len(change.text) = Len(change.files)
    BY PlanFacts DEF CapturedSoFar
  <1>2. cp = [i \in 1 .. Len(change.files) |->
                 [file |-> change.files[i], before |-> change.text[i], after |-> Changes!Wanted(i)]]
    BY <1>1 DEF Changes!Checkpoint, Changes!Positions
  <1>3. ASSUME NEW i \in 1 .. Len(change.files)
        PROVE  Changes!Wanted(i) \in FileTexts /\ change.files[i] \in Files /\ change.text[i] \in FileTexts
    <2>1. change.files[i] \in Files /\ change.text[i] \in FileTexts
      BY <1>1
    <2>2. change.kind = "rename" => change.text[1] \in FileTexts
      BY <1>1 DEF Planned
    <2> QED BY <2>1, <2>2 DEF Changes!Wanted, FileTexts, Changes!FileTexts, Changes!Absent
  <1>4. cp \in Seq(Entry) /\ Len(cp) = Len(change.files)
    <2>1. \A i \in 1 .. Len(change.files) :
             [file |-> change.files[i], before |-> change.text[i], after |-> Changes!Wanted(i)] \in Entry
      BY <1>3 DEF Entry
    <2> QED BY <1>1, <1>2, <2>1
  <1>5. Len(cp) = 2 => cp[1].file # cp[2].file
    BY <1>1, <1>2, <1>4 DEF Planned
  <1>6. ASSUME Changes!UndoKind(cp) = "rename"
        PROVE  cp[2].after = cp[1].before
    <2>1. Len(cp) = 2 /\ cp[1].after = Changes!Absent
      BY <1>6 DEF Changes!UndoKind
    <2>2. cp[1].after = Changes!Wanted(1) /\ cp[2].after = Changes!Wanted(2) /\ cp[1].before = change.text[1]
      BY <1>2, <1>4, <2>1
    <2>3. change.kind = "rename"
      BY <1>1, <1>4, <2>1, <2>2 DEF Planned, Kinds, Changes!Wanted, Changes!Absent
    <2> QED BY <2>2, <2>3 DEF Changes!Wanted
  <1> HIDE DEF cp
  <1>7. OneOrTwo(Len(cp))
    BY <1>1, <1>4 DEF Planned
  <1> QED BY <1>4, <1>5, <1>6, <1>7 DEF Recorded, cp

LEMMA CommittedRecords ==
    ASSUME FilesInv, change.step = "record", Changes!Committed
    PROVE  /\ \A n \in DOMAIN checkpoints' : Recorded(checkpoints'[n])
           /\ plans \in DOMAIN checkpoints' /\ checkpoints'[plans] = Changes!Checkpoint
  BY PlanIsRecorded DEF Changes!Committed, FilesInv, FilesTyped

LEMMA RecordKeeps ==
    ASSUME FilesInv, Changes!Record
    PROVE  FilesInv'
  <1>1. /\ change.step = "record" /\ Changes!Committed /\ change' = [change EXCEPT !.step = "relook"]
        /\ UNCHANGED <<disk, plans, restores>>
    BY DEF Changes!Record, Changes!MayGo
  <1>2. /\ change' \in ChangeRecords
        /\ change'.kind = change.kind /\ change'.files = change.files /\ change'.text = change.text
        /\ change'.version = change.version /\ change'.at = change.at /\ change'.step = "relook"
        /\ change'.byVersion = change.byVersion
    BY <1>1, PlanFacts DEF ChangeRecords
  <1>3. /\ \A n \in DOMAIN checkpoints' : Recorded(checkpoints'[n])
        /\ plans \in DOMAIN checkpoints' /\ checkpoints'[plans] = Changes!Checkpoint
    BY <1>1, CommittedRecords
  <1>4. Changes!Checkpoint' = Changes!Checkpoint
    BY <1>2 DEF Changes!Checkpoint, Changes!Wanted, Changes!Positions
  <1>5. CheckpointFits'
    BY <1>1, <1>3, <1>4 DEF CheckpointFits
  <1>6. ChangeFits(change', disk)
    <2>1. change.at = 1
      BY <1>1 DEF FilesInv, ChangeFits
    <2> QED BY <1>1, <1>2, <2>1 DEF FilesInv, ChangeFits, Planned, CapturedSoFar, VersionsTell
  <1> QED BY <1>1, <1>2, <1>3, <1>5, <1>6 DEF FilesInv, FilesTyped

LEMMA AbortedChangeKeeps ==
    ASSUME FilesInv, Changes!AbortedChangeEnds
    PROVE  FilesInv'
  <1>1. change' = Changes!NoChange /\ UNCHANGED <<disk, plans, restores>>
    BY DEF Changes!AbortedChangeEnds, Changes!EndChange
  <1>2. CASE UNCHANGED checkpoints
    BY <1>1, <1>2, ChangeEnds DEF Changes!EndChange
  <1>3. CASE change.step = "record" /\ Changes!Committed
    <2>1. \A n \in DOMAIN checkpoints' : Recorded(checkpoints'[n])
      BY <1>3, CommittedRecords
    <2> QED BY <1>1, <2>1, NothingProposed DEF FilesInv, FilesTyped, CheckpointFits
  <1> QED BY <1>2, <1>3 DEF Changes!AbortedChangeEnds

-----------------------------------------------------------------------------
(* The files change under those at work.                                   *)

LEMMA LoosenedRestoreFits ==
    ASSUME NEW x \in RestoreRecords, NEW d \in Disks, NEW e, NEW written, Written(d, e, written),
           NEW gs, gs = ChangedIn("edit", d, e), RestoreFits(x, d)
    PROVE  LET l == Changes!Loosened(x, x.step \notin {"none"} \cup Changes!Results, gs)
           IN  l \in RestoreRecords /\ RestoreFits(l, e)
  <1>1. CASE x.step \in {"none"} \cup Changes!Results
    BY <1>1, RestingRestoreFits DEF Changes!Loosened
  <1>2. CASE x.step \notin {"none"} \cup Changes!Results
    BY <1>2, LooseRestoreFits DEF Changes!Loosened
  <1> QED BY <1>1, <1>2

LEMMA RestoresLoosened ==
    ASSUME FilesInv, NEW written, Written(disk, disk', written), Changes!LoosenRestores
    PROVE  /\ restores' \in [1 .. MaxRestores -> RestoreRecords]
           /\ \A r \in 1 .. MaxRestores : RestoreFits(restores'[r], disk')
  <1>1. disk \in Disks /\ restores \in [1 .. MaxRestores -> RestoreRecords]
        /\ \A r \in 1 .. MaxRestores : RestoreFits(restores[r], disk)
    BY DEF FilesInv, FilesTyped
  <1> DEFINE gs == Changes!Changed("edit")
  <1>0. gs = ChangedIn("edit", disk, disk')
    BY DEF ChangedIn, Changes!Changed
  <1>2. restores' = [r \in 1 .. MaxRestores |->
                        Changes!Loosened(restores[r], restores[r].step \notin {"none"} \cup Changes!Results, gs)]
    BY <1>1 DEF Changes!LoosenRestores, Changes!RestoreBusy
  <1> HIDE DEF gs
  <1>3. ASSUME NEW r \in 1 .. MaxRestores
        PROVE  restores'[r] \in RestoreRecords /\ RestoreFits(restores'[r], disk')
    <2>1. restores'[r] = Changes!Loosened(restores[r], restores[r].step \notin {"none"} \cup Changes!Results, gs)
      BY <1>2
    <2>2. restores[r] \in RestoreRecords /\ RestoreFits(restores[r], disk)
      BY <1>1
    <2> QED BY <1>0, <1>1, <2>1, <2>2, LoosenedRestoreFits
  <1> QED BY <1>2, <1>3

LEMMA ChangeLoosened ==
    ASSUME FilesInv, NEW written, Written(disk, disk', written), Changes!LoosenChange,
           UNCHANGED <<plans, checkpoints>>
    PROVE  /\ change' \in ChangeRecords
           /\ change'.step = change.step
           /\ change'.step # "idle" => ChangeFits(change', disk')
           /\ CheckpointFits'
  <1>1. disk \in Disks /\ change \in ChangeRecords
    BY DEF FilesInv, FilesTyped
  <1>2. CASE change.step = "idle"
    BY <1>1, <1>2 DEF Changes!LoosenChange, Changes!Loosened, Changes!ChangeBusy, CheckpointFits
  <1>3. CASE change.step # "idle"
    <2> DEFINE gs == Changes!Changed(change.kind)
    <2>0. gs = ChangedIn(change.kind, disk, disk')
      BY DEF ChangedIn, Changes!Changed
    <2>1. change' = [change EXCEPT !.loose = @ \cup gs]
      BY <1>3 DEF Changes!LoosenChange, Changes!Loosened, Changes!ChangeBusy
    <2> HIDE DEF gs
    <2>2. change' \in ChangeRecords /\ ChangeFits(change', disk')
      BY <1>1, <1>3, <2>0, <2>1, LooseChangeFits DEF FilesInv
    <2>3. change'.files = change.files /\ change'.text = change.text /\ change'.kind = change.kind
          /\ change'.step = change.step
      BY <1>1, <2>1 DEF ChangeRecords
    <2>4. CheckpointFits'
      BY <2>3 DEF CheckpointFits, FilesInv, Changes!Checkpoint, Changes!Wanted, Changes!Positions
    <2> QED BY <2>2, <2>3, <2>4
  <1> QED BY <1>2, <1>3

\* The user types, saves or removes a file, or another program writes it.
LEMMA TouchKeeps ==
    ASSUME FilesInv, NEW f \in Files, NEW content \in Contents, Changes!Touch(f, content)
    PROVE  FilesInv'
  <1> DEFINE written == [g \in {f} |-> content]
  <1>1. disk \in Disks /\ plans \in Nat /\ \A n \in DOMAIN checkpoints : Recorded(checkpoints[n])
    BY DEF FilesInv, FilesTyped
  <1>2. Changes!Rewrite(written) /\ Changes!LoosenChange /\ Changes!LoosenRestores
        /\ UNCHANGED <<plans, checkpoints>>
    BY DEF Changes!Touch
  <1>3. \A g \in DOMAIN written : written[g] \in Contents
    OBVIOUS
  <1> HIDE DEF written
  <1>5. Written(disk, disk', written)
    BY <1>1, <1>2, <1>3, RewriteWrites
  <1>6. disk' \in Disks
    BY <1>5 DEF Written
  <1>7. /\ restores' \in [1 .. MaxRestores -> RestoreRecords]
        /\ \A r \in 1 .. MaxRestores : RestoreFits(restores'[r], disk')
    BY <1>2, <1>5, RestoresLoosened
  <1>8. change' \in ChangeRecords /\ (change'.step # "idle" => ChangeFits(change', disk')) /\ CheckpointFits'
    BY <1>2, <1>5, ChangeLoosened
  <1> QED BY <1>1, <1>2, <1>6, <1>7, <1>8 DEF FilesInv, FilesTyped

LEMMA TouchesAre ==
    ASSUME FilesInv, NEW f \in Files,
           Changes!Type(f) \/ Changes!Save(f) \/ Changes!Remove(f) \/ Changes!WrittenOutside(f)
    PROVE  \E content \in Contents : Changes!Touch(f, content)
  <1>1. disk[f].saved \in FileTexts /\ disk[f].text \in FileTexts
    BY DEF FilesInv, FilesTyped, Disks
  <1>2. "typed" \in FileTexts /\ Changes!Absent \in FileTexts
    BY DEF FileTexts, Changes!FileTexts
  <1>3. CASE Changes!Type(f)
    BY <1>1, <1>2, <1>3 DEF Changes!Type, Contents
  <1>4. CASE Changes!Save(f)
    BY <1>1, <1>4 DEF Changes!Save, Changes!Clean, Contents
  <1>5. CASE Changes!Remove(f)
    BY <1>2, <1>5 DEF Changes!Remove, Changes!Clean, Contents
  <1>6. CASE Changes!WrittenOutside(f)
    <2> DEFINE text == IF Changes!Unsaved(f) THEN disk[f].text ELSE "typed"
    <2>1. text \in FileTexts
      BY <1>1, <1>2
    <2>2. Changes!Touch(f, [saved |-> "typed", text |-> text])
      BY <1>6 DEF Changes!WrittenOutside
    <2> HIDE DEF text
    <2> QED BY <1>2, <2>1, <2>2 DEF Contents
  <1> QED BY <1>3, <1>4, <1>5, <1>6

\* The editor writes every file of an edit once.
EditWritten(kind, files, expected, wanted) ==
    \E written : \E carried \in BOOLEAN :
        /\ Written(disk, disk', written)
        /\ \A i \in 1 .. Len(files) :
              LET made == Changes!Makes(kind, files, expected, wanted, carried, i)
              IN  disk'[files[i]].saved = made.saved /\ disk'[files[i]].text = made.text

LEMMA ApplyWrites ==
    ASSUME disk \in Disks, NEW kind \in Kinds, NEW files \in Seq(Files), NEW expected, NEW wanted,
           OneOrTwo(Len(files)), Len(files) = 2 => files[1] # files[2],
           kind = "rename" => Len(files) = 2,
           \A i \in 1 .. Len(files) : wanted[i] \in FileTexts,
           Changes!Apply(kind, files, expected, wanted)
    PROVE  EditWritten(kind, files, expected, wanted)
  <1> DEFINE At(f) == CHOOSE i \in Changes!Positions(files) : files[i] = f
             Made(c) == [f \in {files[i] : i \in Changes!Positions(files)} |->
                            Changes!Makes(kind, files, expected, wanted, c, At(f))]
  <1>0. \E c \in BOOLEAN : Changes!Rewrite(Made(c))
    BY Zenon DEF Changes!Apply
  <1> HIDE DEF Made
  <1>9. PICK carried \in BOOLEAN : Changes!Rewrite(Made(carried))
    BY <1>0
  <1> USE DEF Made
  <1> DEFINE written == Made(carried)
  <1>1. Changes!Rewrite(written)
    BY <1>9
  <1>2. Changes!Positions(files) = 1 .. Len(files)
    BY DEF Changes!Positions
  <1>3. ASSUME NEW i \in 1 .. Len(files)
        PROVE  At(files[i]) = i
    <2>1. At(files[i]) \in 1 .. Len(files) /\ files[At(files[i])] = files[i]
      BY <1>2
    <2> HIDE DEF At
    <2>2. CASE Len(files) = 1
      BY <2>1, <2>2
    <2>3. CASE Len(files) = 2
      <3>1. i \in {1, 2} /\ At(files[i]) \in {1, 2}
        BY <2>1, <2>3
      <3> QED BY <2>1, <2>3, <3>1
    <2> QED BY <2>2, <2>3 DEF OneOrTwo
  <1>4. DOMAIN written = {files[i] : i \in 1 .. Len(files)}
        /\ \A i \in 1 .. Len(files) : written[files[i]] = Changes!Makes(kind, files, expected, wanted, carried, i)
    <2> HIDE DEF At
    <2> QED BY <1>2, <1>3
  <1>5. ASSUME NEW i \in 1 .. Len(files)
        PROVE  Changes!Makes(kind, files, expected, wanted, carried, i) \in Contents
    <2> DEFINE file == disk[files[i]]
               source == disk[files[1]]
    <2>1. /\ file.saved \in FileTexts /\ wanted[i] \in FileTexts
          /\ kind = "rename" => source.saved \in FileTexts /\ source.text \in FileTexts
      BY DEF Disks
    <2>2. "mixed" \in FileTexts /\ "empty" \in FileTexts
      BY DEF FileTexts, Changes!FileTexts
    <2> HIDE DEF file, source
    <2>3. CASE kind = "edit"
      BY <2>1, <2>2, <2>3 DEF Changes!Makes, Contents, file
    <2>4. CASE kind = "create"
      BY <2>1, <2>2, <2>4 DEF Changes!Makes, Contents
    <2>5. CASE kind = "rename" /\ i = 2
      BY <2>1, <2>5 DEF Changes!Makes, Contents, source
    <2>6. CASE kind = "delete" \/ (kind = "rename" /\ i # 2)
      BY <2>1, <2>6 DEF Changes!Makes, Changes!Clean, Contents
    <2> QED BY <2>3, <2>4, <2>5, <2>6 DEF Kinds
  <1> HIDE DEF written
  <1>6. \A f \in DOMAIN written : written[f] \in Contents
    BY <1>4, <1>5
  <1>7. Written(disk, disk', written)
    BY <1>1, <1>6, RewriteWrites
  <1>8. \A i \in 1 .. Len(files) : /\ disk'[files[i]].saved = written[files[i]].saved
                                  /\ disk'[files[i]].text = written[files[i]].text
    BY <1>4, <1>7 DEF Written
  <1> QED BY <1>4, <1>7, <1>8 DEF EditWritten

\* What the editor makes of the files of a plan.
LEMMA PlanWrites ==
    ASSUME FilesInv, Changes!EditorApplies
    PROVE  EditWritten(change.kind, change.files, change.text,
                       [j \in Changes!Positions(change.files) |-> Changes!Wanted(j)])
  <1> DEFINE wanted == [j \in Changes!Positions(change.files) |-> Changes!Wanted(j)]
  <1>1. change.step = "submitted" /\ Changes!Apply(change.kind, change.files, change.text, wanted)
    BY DEF Changes!EditorApplies
  <1>2. Planned(change) /\ change.files \in Seq(Files) /\ disk \in Disks
    BY <1>1, PlanFacts DEF FilesInv, FilesTyped
  <1>3. \A i \in 1 .. Len(change.files) : wanted[i] \in FileTexts
    <2> SUFFICES ASSUME NEW i \in 1 .. Len(change.files) PROVE Changes!Wanted(i) \in FileTexts
      BY <1>2 DEF Changes!Positions
    <2>1. change.text \in Seq(FileTexts) /\ Len(change.text) = Len(change.files)
      BY <1>1, PlanFacts DEF CapturedSoFar
    <2>2. change.kind = "rename" => change.text[1] \in FileTexts
      BY <1>2, <2>1 DEF Planned
    <2> QED BY <2>2 DEF Changes!Wanted, FileTexts, Changes!FileTexts
  <1> HIDE DEF wanted
  <1>5. change.kind \in Kinds /\ OneOrTwo(Len(change.files))
        /\ (Len(change.files) = 2 => change.files[1] # change.files[2])
        /\ (change.kind = "rename" => Len(change.files) = 2)
    BY <1>2 DEF Planned
  <1>6. EditWritten(change.kind, change.files, change.text, wanted)
    BY <1>1, <1>2, <1>3, <1>5, ApplyWrites
  <1> QED BY <1>6 DEF wanted

LEMMA EditorKeeps ==
    ASSUME FilesInv, Changes!EditorApplies
    PROVE  FilesInv'
  <1>1. PICK written : Written(disk, disk', written)
    BY PlanWrites DEF EditWritten
  <1>2. /\ change.step = "submitted" /\ change' = Changes!NoChange /\ Changes!LoosenRestores
        /\ UNCHANGED <<plans, checkpoints>>
    BY DEF Changes!EditorApplies, Changes!EndChange
  <1>4. /\ restores' \in [1 .. MaxRestores -> RestoreRecords]
        /\ \A r \in 1 .. MaxRestores : RestoreFits(restores'[r], disk')
    BY <1>1, <1>2, RestoresLoosened
  <1>5. disk' \in Disks
    BY <1>1 DEF Written
  <1> QED BY <1>2, <1>4, <1>5, NothingProposed DEF FilesInv, FilesTyped, CheckpointFits

\* The change that takes a checkpoint back.
LEMMA UndoFacts ==
    ASSUME NEW cp, Recorded(cp)
    PROVE  /\ cp \in Seq(Entry) /\ Changes!UndoKind(cp) \in Kinds
           /\ Changes!UndoOrder(cp) \in Seq(Entry) /\ Len(Changes!UndoOrder(cp)) = Len(cp)
           /\ Changes!UndoFiles(cp) \in Seq(Files) /\ Len(Changes!UndoFiles(cp)) = Len(cp)
           /\ \A i \in 1 .. Len(cp) : Changes!UndoFiles(cp)[i] = Changes!UndoOrder(cp)[i].file
           /\ OneOrTwo(Len(cp))
           /\ Len(cp) = 2 => Changes!UndoFiles(cp)[1] # Changes!UndoFiles(cp)[2]
           /\ Changes!UndoKind(cp) = "rename" => Len(cp) = 2 /\ Changes!UndoOrder(cp) = <<cp[2], cp[1]>>
           /\ Changes!UndoKind(cp) # "rename" => Changes!UndoOrder(cp) = cp
  <1> DEFINE undo == Changes!UndoOrder(cp)
  <1>1. cp \in Seq(Entry) /\ OneOrTwo(Len(cp)) /\ (Len(cp) = 2 => cp[1].file # cp[2].file)
    BY DEF Recorded
  <1>2. Changes!UndoKind(cp) \in Kinds
    BY DEF Changes!UndoKind, Kinds
  <1>3. Changes!UndoKind(cp) = "rename" => Len(cp) = 2 /\ undo = <<cp[2], cp[1]>>
    BY DEF Changes!UndoKind, Changes!UndoOrder
  <1>4. Changes!UndoKind(cp) # "rename" => undo = cp
    BY DEF Changes!UndoOrder
  <1>5. /\ undo \in Seq(Entry) /\ Len(undo) = Len(cp)
        /\ Len(cp) = 2 => undo[1].file # undo[2].file
    <2>1. CASE Changes!UndoKind(cp) = "rename"
      <3>1. Len(cp) = 2 /\ cp[1] \in Entry /\ cp[2] \in Entry
        BY <1>1, <1>3, <2>1
      <3> DEFINE a == cp[2]
                 b == cp[1]
      <3>2. undo = <<a, b>>
        BY <1>3, <2>1
      <3>3. a \in Entry /\ b \in Entry /\ a.file # b.file
        BY <1>1, <3>1
      <3> HIDE DEF undo, a, b
      <3>4. undo \in Seq(Entry) /\ Len(undo) = 2 /\ undo[1] = a /\ undo[2] = b
        BY <3>2, <3>3
      <3> QED BY <3>1, <3>3, <3>4
    <2> QED BY <1>1, <1>4, <2>1
  <1>6. Changes!UndoFiles(cp) = [i \in 1 .. Len(cp) |-> undo[i].file]
    BY <1>1 DEF Changes!UndoFiles, Changes!Positions
  <1> HIDE DEF undo
  <1>7. \A i \in 1 .. Len(cp) : undo[i].file \in Files
    <2> SUFFICES ASSUME NEW i \in 1 .. Len(cp) PROVE undo[i].file \in Files
      OBVIOUS
    <2>1. undo[i] \in Entry
      BY <1>5
    <2> QED BY <2>1 DEF Entry
  <1>8. Changes!UndoFiles(cp) \in Seq(Files) /\ Len(Changes!UndoFiles(cp)) = Len(cp)
    BY <1>1, <1>6, <1>7
  <1>9. Len(cp) = 2 => Changes!UndoFiles(cp)[1] # Changes!UndoFiles(cp)[2]
    BY <1>5, <1>6
  <1> QED BY <1>1, <1>2, <1>3, <1>4, <1>5, <1>6, <1>8, <1>9 DEF undo

-----------------------------------------------------------------------------
(* A restore goes on.                                                      *)

LEMMA RestoreGoesOn ==
    ASSUME FilesInv, NEW r \in 1 .. MaxRestores, NEW x \in RestoreRecords, RestoreFits(x, disk),
           Changes!Put(r, x), Changes!OnlyRestores
    PROVE  FilesInv'
  <1>1. restores' = [restores EXCEPT ![r] = x] /\ UNCHANGED <<disk, change, plans, checkpoints>>
    BY DEF Changes!Put, Changes!OnlyRestores
  <1>2. restores' \in [1 .. MaxRestores -> RestoreRecords]
        /\ \A q \in 1 .. MaxRestores : RestoreFits(restores'[q], disk)
    BY <1>1 DEF FilesInv, FilesTyped
  <1>3. CheckpointFits'
    BY <1>1 DEF FilesInv, CheckpointFits, Changes!Checkpoint, Changes!Wanted, Changes!Positions
  <1> QED BY <1>1, <1>2, <1>3 DEF FilesInv, FilesTyped

LEMMA AnswerKeeps ==
    ASSUME FilesInv, NEW r \in 1 .. MaxRestores, NEW result \in Changes!Results,
           Changes!Answer(r, result), Changes!OnlyRestores
    PROVE  FilesInv'
  BY NothingAsked, RestoreGoesOn DEF Changes!Answer

LEMMA AskKeeps ==
    ASSUME FilesInv, NEW r \in 1 .. MaxRestores, NEW n \in 1 .. plans, Changes!AskRestore(r, n)
    PROVE  FilesInv'
  <1> DEFINE x == [Changes!NoRestore EXCEPT !.step = "load", !.of = n]
  <1>1. n \in Nat
    BY DEF FilesInv, FilesTyped
  <1>2. x \in RestoreRecords /\ x.step = "load" /\ x.at = Changes!NoRestore.at
    BY <1>1, NothingAsked DEF RestoreRecords
  <1>3. RestoreFits(x, disk)
    BY <1>2 DEF RestoreFits, Changes!NoRestore
  <1> QED BY <1>2, <1>3, RestoreGoesOn DEF Changes!AskRestore

LEMMA LoadKeeps ==
    ASSUME FilesInv, NEW r \in 1 .. MaxRestores, Changes!Load(r)
    PROVE  FilesInv'
  <1>1. restores[r] \in RestoreRecords /\ restores[r].step = "load"
    BY DEF FilesInv, FilesTyped, Changes!Load, Changes!May
  <1>2. CASE restores[r].of \in DOMAIN checkpoints
    <2> DEFINE cp == checkpoints[restores[r].of]
               y == [restores[r] EXCEPT !.step = "first", !.checkpoint = cp]
    <2>1. Recorded(cp)
      BY <1>2 DEF FilesInv, FilesTyped
    <2> HIDE DEF cp
    <2>2. y \in RestoreRecords /\ y.step = "first" /\ y.checkpoint = cp /\ y.at = restores[r].at
      BY <1>1, <2>1 DEF RestoreRecords, Recorded
    <2>3. restores[r].at = 1
      BY <1>1 DEF FilesInv, RestoreFits
    <2>4. RestoreFits(y, disk)
      <3>1. 1 \in 1 .. Len(cp)
        BY <2>1 DEF Recorded, OneOrTwo
      <3> QED BY <2>1, <2>2, <2>3, <3>1 DEF RestoreFits
    <2>5. Changes!Put(r, y) /\ Changes!OnlyRestores
      BY <1>2 DEF Changes!Load, cp
    <2> HIDE DEF y
    <2> QED BY <2>2, <2>4, <2>5, RestoreGoesOn
  <1>3. CASE restores[r].of \notin DOMAIN checkpoints
    BY <1>3, AnswerKeeps DEF Changes!Load, Changes!Results
  <1> QED BY <1>2, <1>3

\* A look at one file of the checkpoint.
LEMMA SeenKeeps ==
    ASSUME FilesInv, NEW r \in 1 .. MaxRestores, NEW step, NEW next, Changes!Seen(r, step, next),
           restores[r].step = step, Changes!OnlyRestores,
           \/ step = "first" /\ next = "second"
           \/ step = "second" /\ next = "submitted" /\ Changes!Matches(r, "after")
           \/ step = "verify" /\ next = "restored"
    PROVE  FilesInv'
  <1> DEFINE x == restores[r]
             cp == x.checkpoint
             f == Changes!Entries(r)[x.at].file
             to == IF Changes!AtEnd(r) THEN next ELSE step
             at == IF Changes!AtEnd(r) THEN 1 ELSE x.at + 1
             version == IF Changes!AtEnd(r) /\ next = "submitted"
                        THEN Changes!VersionsOf(Changes!UndoFiles(Changes!Entries(r))) ELSE x.version
             y == [x EXCEPT !.step = to, !.at = at, !.loose = @ \ {f}, !.version = version]
  <1>1. x \in RestoreRecords /\ RestoreFits(x, disk) /\ x.step = step
        /\ disk \in Disks
    BY DEF FilesInv, FilesTyped
  <1>2. Recorded(cp) /\ x.at \in 1 .. Len(cp) /\ Changes!Entries(r) = cp /\ cp \in Seq(Entry)
        /\ (Changes!AtEnd(r) <=> x.at = Len(cp)) /\ OneOrTwo(Len(cp)) /\ x.at \in Nat
    BY <1>1 DEF RestoreFits, Changes!Entries, Changes!AtEnd, Recorded, RestoreRecords
  <1>3. version \in Seq(Nat)
    <2> DEFINE fs == Changes!UndoFiles(cp)
    <2>1. fs \in Seq(Files)
      BY <1>2, UndoFacts
    <2> HIDE DEF fs
    <2>2. Changes!VersionsOf(fs) \in Seq(Nat)
      <3>1. Changes!VersionsOf(fs) = [i \in 1 .. Len(fs) |-> disk[fs[i]].version]
        BY <2>1 DEF Changes!VersionsOf, Changes!Positions
      <3>2. \A i \in 1 .. Len(fs) : disk[fs[i]].version \in Nat
        BY <1>1, <2>1 DEF Disks
      <3> QED BY <2>1, <3>1, <3>2
    <2>3. x.version \in Seq(Nat)
      BY <1>1 DEF RestoreRecords
    <2> QED BY <1>2, <2>2, <2>3 DEF fs
  <1>4. to \in {"second", "submitted", "restored", "first", "verify"} /\ at \in Nat
    BY <1>2
  <1>5. Changes!Put(r, y)
    BY DEF Changes!Seen
  <1> HIDE DEF to, at, version, f
  <1>6. /\ y \in RestoreRecords /\ y.step = to /\ y.at = at /\ y.checkpoint = cp /\ y.loose = x.loose \ {f}
    BY <1>1, <1>3, <1>4 DEF RestoreRecords, Changes!Results
  <1> HIDE DEF y
  <1>7. at \in 1 .. Len(cp)
    BY <1>2 DEF at, OneOrTwo
  <1>8. f = cp[x.at].file
    BY <1>2 DEF f
  <1>9. CASE step = "second"
    <2>1. \A i \in 1 .. x.at : Stays(y, disk, i)
      <3> SUFFICES ASSUME NEW i \in 1 .. x.at PROVE Stays(y, disk, i)
        OBVIOUS
      <3>1. CASE i = x.at
        BY <1>2, <1>6, <1>8, <1>9, <3>1 DEF Stays, Changes!Matches
      <3>2. CASE i \in 1 .. x.at - 1
        <4>1. Stays(x, disk, i)
          BY <1>1, <1>9, <3>2 DEF RestoreFits
        <4>2. cp[i].file # f
          <5>1. Len(cp) = 1 \/ Len(cp) = 2
            BY <1>2 DEF OneOrTwo
          <5>2. CASE Len(cp) = 1
            BY <1>2, <3>2, <5>2
          <5>3. CASE Len(cp) = 2
            <6>1. x.at = 2 /\ i = 1
              BY <1>2, <3>2, <5>3
            <6> QED BY <1>2, <1>8, <5>3, <6>1 DEF Recorded
          <5> QED BY <5>1, <5>2, <5>3
        <4> QED BY <1>6, <4>1, <4>2 DEF Stays
      <3> QED BY <1>2, <3>1, <3>2
    <2>2. CASE Changes!AtEnd(r)
      <3>1. to = "submitted" /\ \A i \in 1 .. Len(cp) : Stays(y, disk, i)
        BY <1>2, <1>9, <2>1, <2>2 DEF to
      <3>2. RestoreFits(y, disk)
        BY <1>2, <1>6, <1>7, <3>1 DEF RestoreFits
      <3> QED BY <1>5, <1>6, <3>2, RestoreGoesOn
    <2>3. CASE ~Changes!AtEnd(r)
      <3>1. to = "second" /\ at - 1 = x.at
        BY <1>2, <1>9, <2>3 DEF to, at
      <3>2. RestoreFits(y, disk)
        BY <1>2, <1>6, <1>7, <2>1, <3>1 DEF RestoreFits
      <3> QED BY <1>5, <1>6, <3>2, RestoreGoesOn
    <2> QED BY <2>2, <2>3
  <1>10. CASE step # "second"
    <2>1. /\ to \in {"first", "second", "restored", "verify"}
          /\ to = "second" => at = 1
      BY <1>10 DEF to, at
    <2>2. RestoreFits(y, disk)
      BY <1>2, <1>6, <1>7, <2>1 DEF RestoreFits
    <2> QED BY <1>5, <1>6, <2>2, RestoreGoesOn
  <1> QED BY <1>9, <1>10

LEMMA CompareKeeps ==
    ASSUME FilesInv, NEW r \in 1 .. MaxRestores, Changes!Compare(r)
    PROVE  FilesInv'
  <1>1. CASE restores[r].step = "first" /\ Changes!Matches(r, "after") /\ Changes!Seen(r, "first", "second")
    BY <1>1, SeenKeeps DEF Changes!Compare
  <1>2. CASE restores[r].step = "second" /\ Changes!Matches(r, "after") /\ Changes!Seen(r, "second", "submitted")
    BY <1>2, SeenKeeps DEF Changes!Compare
  <1>3. CASE Changes!Answer(r, "conflict")
    BY <1>3, AnswerKeeps DEF Changes!Compare, Changes!Results
  <1> QED BY <1>1, <1>2, <1>3 DEF Changes!Compare, Changes!Validate, Changes!May

LEMMA VerifyKeeps ==
    ASSUME FilesInv, NEW r \in 1 .. MaxRestores, Changes!Verify(r)
    PROVE  FilesInv'
  <1>1. CASE Changes!Seen(r, "verify", "restored")
    BY <1>1, SeenKeeps DEF Changes!Verify, Changes!May
  <1>2. CASE Changes!Answer(r, "unavailable")
    BY <1>2, AnswerKeeps DEF Changes!Verify, Changes!Results
  <1> QED BY <1>1, <1>2 DEF Changes!Verify

LEMMA DeletionKeeps ==
    ASSUME FilesInv, Changes!SessionDeleted
    PROVE  FilesInv'
  <1>1. restores \in [1 .. MaxRestores -> RestoreRecords] /\ UNCHANGED <<disk, change, plans, checkpoints>>
        /\ \A r \in 1 .. MaxRestores : RestoreFits(restores[r], disk)
    BY DEF FilesInv, FilesTyped, Changes!SessionDeleted
  <1>2. ASSUME NEW r \in 1 .. MaxRestores
        PROVE  restores'[r] \in RestoreRecords /\ RestoreFits(restores'[r], disk)
    <2>1. restores'[r] = restores[r] \/ restores'[r] = [restores[r] EXCEPT !.aborted = TRUE]
      BY <1>1 DEF Changes!SessionDeleted
    <2> DEFINE y == [restores[r] EXCEPT !.aborted = TRUE]
    <2>2. restores[r] \in RestoreRecords /\ RestoreFits(restores[r], disk)
      BY <1>1
    <2>3. /\ y \in RestoreRecords /\ y.step = restores[r].step /\ y.at = restores[r].at
          /\ y.checkpoint = restores[r].checkpoint /\ y.loose = restores[r].loose
      BY <2>2 DEF RestoreRecords
    <2> HIDE DEF y
    <2>4. RestoreFits(y, disk)
      BY <2>2, <2>3 DEF RestoreFits, Stays
    <2> QED BY <2>1, <2>2, <2>3, <2>4 DEF y
  <1>3. DOMAIN restores' = 1 .. MaxRestores
        /\ restores' = [r \in DOMAIN restores' |-> restores'[r]]
    BY <1>1 DEF Changes!SessionDeleted
  <1>4. restores' \in [1 .. MaxRestores -> RestoreRecords]
    BY <1>2, <1>3
  <1>5. CheckpointFits'
    BY <1>1 DEF FilesInv, CheckpointFits, Changes!Checkpoint, Changes!Wanted, Changes!Positions
  <1> QED BY <1>1, <1>2, <1>4, <1>5 DEF FilesInv, FilesTyped

LEMMA CheckpointDeletionKeeps ==
    ASSUME FilesInv, NEW n \in DOMAIN checkpoints, Changes!CheckpointDeleted(n)
    PROVE  FilesInv'
  <1>1. change.step = "idle" /\ UNCHANGED <<disk, change, plans, restores>>
        /\ checkpoints' = [m \in DOMAIN checkpoints \ {n} |-> checkpoints[m]]
    BY DEF Changes!CheckpointDeleted, Changes!ChangeBusy
  <1> QED BY <1>1 DEF FilesInv, FilesTyped, CheckpointFits

-----------------------------------------------------------------------------
(* The editor takes a change back.                                         *)

LEMMA UndoWrites ==
    ASSUME FilesInv, NEW r \in 1 .. MaxRestores, Changes!UndoApplies(r)
    PROVE  LET cp == restores[r].checkpoint
               undo == Changes!UndoOrder(cp)
           IN  /\ Recorded(cp)
               /\ EditWritten(Changes!UndoKind(cp), Changes!UndoFiles(cp),
                              [i \in Changes!Positions(undo) |-> undo[i].after],
                              [i \in Changes!Positions(undo) |-> undo[i].before])
  <1> DEFINE cp == restores[r].checkpoint
             undo == Changes!UndoOrder(cp)
             wanted == [i \in Changes!Positions(undo) |-> undo[i].before]
             expected == [i \in Changes!Positions(undo) |-> undo[i].after]
  <1>1. restores[r].step = "submitted"
        /\ Changes!Apply(Changes!UndoKind(cp), Changes!UndoFiles(cp), expected, wanted)
    BY DEF Changes!UndoApplies, Changes!Entries
  <1>2. Recorded(cp) /\ disk \in Disks
    BY <1>1 DEF FilesInv, FilesTyped, RestoreFits
  <1>3. \A i \in 1 .. Len(cp) : wanted[i] \in FileTexts
    <2> SUFFICES ASSUME NEW i \in 1 .. Len(cp) PROVE wanted[i] \in FileTexts
      OBVIOUS
    <2>1. undo \in Seq(Entry) /\ Len(undo) = Len(cp)
      BY <1>2, UndoFacts
    <2> HIDE DEF undo
    <2>2. undo[i] \in Entry /\ wanted[i] = undo[i].before
      BY <2>1 DEF Changes!Positions
    <2> QED BY <2>2 DEF Entry
  <1> HIDE DEF wanted, expected, undo, cp
  <1>4. EditWritten(Changes!UndoKind(cp), Changes!UndoFiles(cp), expected, wanted)
    <2> DEFINE kind == Changes!UndoKind(cp)
               files == Changes!UndoFiles(cp)
    <2>1. /\ kind \in Kinds /\ files \in Seq(Files) /\ Len(files) = Len(cp) /\ OneOrTwo(Len(files))
          /\ Len(files) = 2 => files[1] # files[2]
          /\ kind = "rename" => Len(files) = 2
      BY <1>2, UndoFacts
    <2>2. Changes!Apply(kind, files, expected, wanted)
      BY <1>1
    <2>3. \A i \in 1 .. Len(files) : wanted[i] \in FileTexts
      BY <1>3, <2>1
    <2> HIDE DEF kind, files
    <2>4. EditWritten(kind, files, expected, wanted)
      BY <1>2, <2>1, <2>2, <2>3, ApplyWrites
    <2> QED BY <2>4 DEF kind, files
  <1> QED BY <1>2, <1>4 DEF cp, undo, wanted, expected

LEMMA UndoKeeps ==
    ASSUME FilesInv, NEW r \in 1 .. MaxRestores, Changes!UndoApplies(r)
    PROVE  FilesInv'
  <1> DEFINE cp == restores[r].checkpoint
             gs == Changes!Changed("edit")
             verify == [restores[r] EXCEPT !.step = "verify"]
  <1>1. /\ restores[r].step = "submitted" /\ Changes!LoosenChange /\ UNCHANGED <<plans, checkpoints>>
        /\ restores' = [q \in DOMAIN restores |->
              IF q = r THEN verify ELSE Changes!Loosened(restores[q], Changes!RestoreBusy(q), gs)]
    BY DEF Changes!UndoApplies
  <1>4. gs = ChangedIn("edit", disk, disk')
    BY DEF ChangedIn, Changes!Changed
  <1> HIDE DEF gs
  <1>5. PICK written : Written(disk, disk', written)
    BY UndoWrites DEF EditWritten
  <1>6. disk \in Disks /\ restores \in [1 .. MaxRestores -> RestoreRecords] /\ plans \in Nat
        /\ \A q \in 1 .. MaxRestores : RestoreFits(restores[q], disk)
    BY DEF FilesInv, FilesTyped
  <1>7. ASSUME NEW q \in 1 .. MaxRestores
        PROVE  restores'[q] \in RestoreRecords /\ RestoreFits(restores'[q], disk')
    <2>1. CASE q = r
      <3>1. restores'[q] = verify /\ restores[r] \in RestoreRecords /\ RestoreFits(restores[r], disk)
        BY <1>1, <1>6, <2>1
      <3>2. verify \in RestoreRecords /\ verify.step = "verify" /\ verify.checkpoint = cp
            /\ verify.at = restores[r].at
        BY <3>1 DEF RestoreRecords
      <3> HIDE DEF verify
      <3>3. RestoreFits(verify, disk')
        BY <1>1, <3>1, <3>2 DEF RestoreFits
      <3> QED BY <3>1, <3>2, <3>3
    <2>2. CASE q # r
      <3>1. restores'[q] = Changes!Loosened(restores[q], restores[q].step \notin {"none"} \cup Changes!Results, gs)
        BY <1>1, <1>6, <2>2 DEF Changes!RestoreBusy
      <3>2. restores[q] \in RestoreRecords /\ RestoreFits(restores[q], disk)
        BY <1>6
      <3> QED BY <1>4, <1>5, <1>6, <3>1, <3>2, LoosenedRestoreFits
    <2> QED BY <2>1, <2>2
  <1>8. restores' \in [1 .. MaxRestores -> RestoreRecords]
    <2>1. DOMAIN restores' = 1 .. MaxRestores /\ restores' = [q \in DOMAIN restores' |-> restores'[q]]
      BY <1>1, <1>6
    <2> QED BY <1>7, <2>1
  <1>9. change' \in ChangeRecords /\ (change'.step # "idle" => ChangeFits(change', disk')) /\ CheckpointFits'
    BY <1>1, <1>5, ChangeLoosened
  <1>10. disk' \in Disks
    BY <1>5 DEF Written
  <1>11. \A n \in DOMAIN checkpoints' : Recorded(checkpoints'[n])
    BY <1>1 DEF FilesInv, FilesTyped
  <1> QED BY <1>1, <1>6, <1>7, <1>8, <1>9, <1>10, <1>11 DEF FilesInv, FilesTyped

-----------------------------------------------------------------------------
(* Every step keeps the invariant.                                         *)

LEMMA ChangeStepKeeps ==
    ASSUME FilesInv,
           \/ \E shape \in Changes!Shapes, byVersion \in BOOLEAN : Changes!Propose(shape, byVersion)
           \/ Changes!Capture \/ Changes!Confirm \/ Changes!Approve \/ Changes!Reject
           \/ Changes!Examine \/ Changes!NotTrusted
           \/ Changes!Record \/ Changes!RecordFails \/ Changes!EditorApplies \/ Changes!EditorRefuses
           \/ Changes!AbortChange \/ Changes!AbortedChangeEnds
    PROVE  FilesInv'
  <1>1. CASE Changes!Reject \/ Changes!NotTrusted \/ Changes!RecordFails \/ Changes!EditorRefuses
    BY <1>1, ChangeEnds DEF Changes!Reject, Changes!NotTrusted, Changes!RecordFails, Changes!EditorRefuses,
                            Changes!OnlyTheChange
  <1> QED BY <1>1, ProposeKeeps, CaptureKeeps, ConfirmKeeps, ApproveKeeps, ExamineKeeps, RecordKeeps,
             EditorKeeps, AbortKeeps, AbortedChangeKeeps

LEMMA RestoreStepKeeps ==
    ASSUME FilesInv, NEW r \in 1 .. MaxRestores,
           \/ \E n \in 1 .. plans : Changes!AskRestore(r, n)
           \/ Changes!Load(r) \/ Changes!StoreFails(r) \/ Changes!Compare(r)
           \/ Changes!UndoApplies(r) \/ Changes!UndoRefused(r) \/ Changes!Verify(r)
           \/ Changes!AbortedRestoreEnds(r)
    PROVE  FilesInv'
  <1>1. CASE Changes!StoreFails(r) \/ Changes!UndoRefused(r) \/ Changes!AbortedRestoreEnds(r)
    BY <1>1, AnswerKeeps DEF Changes!StoreFails, Changes!UndoRefused, Changes!AbortedRestoreEnds, Changes!Results
  <1> QED BY <1>1, AskKeeps, LoadKeeps, CompareKeeps, UndoKeeps, VerifyKeeps

LEMMA FilesNext == FilesInv /\ [Changes!Next]_changesVars => FilesInv'
  <1> SUFFICES ASSUME FilesInv, [Changes!Next]_changesVars PROVE FilesInv'
    OBVIOUS
  <1>1. DOMAIN restores = 1 .. MaxRestores
    BY DEF FilesInv, FilesTyped
  <1>2. CASE \E f \in Files :
                Changes!Type(f) \/ Changes!Save(f) \/ Changes!Remove(f) \/ Changes!WrittenOutside(f)
    BY <1>2, TouchesAre, TouchKeeps
  <1>3. CASE \E r \in DOMAIN restores :
                \/ \E n \in 1 .. plans : Changes!AskRestore(r, n)
                \/ Changes!Load(r) \/ Changes!StoreFails(r) \/ Changes!Compare(r)
                \/ Changes!UndoApplies(r) \/ Changes!UndoRefused(r) \/ Changes!Verify(r)
                \/ Changes!AbortedRestoreEnds(r)
    BY <1>1, <1>3, RestoreStepKeeps
  <1>4. CASE Changes!SessionDeleted \/ \E n \in DOMAIN checkpoints : Changes!CheckpointDeleted(n)
    BY <1>4, DeletionKeeps, CheckpointDeletionKeeps
  <1>5. CASE UNCHANGED changesVars
    BY <1>5 DEF changesVars, FilesInv, FilesTyped, CheckpointFits, Changes!Checkpoint, Changes!Wanted,
                Changes!Positions
  <1> QED BY <1>2, <1>3, <1>4, <1>5, ChangeStepKeeps DEF Changes!Next

-----------------------------------------------------------------------------
(* What a plan destroys.                                                   *)

\* Only the editor ends a plan while the files change.
LEMMA EditorEndsPlan ==
    ASSUME FilesInv, Changes!Next, change.step = "submitted", change'.step = "idle", disk' # disk
    PROVE  Changes!EditorApplies
  <1>1. change \in ChangeRecords /\ DOMAIN restores = 1 .. MaxRestores
    BY DEF FilesInv, FilesTyped
  <1>2. ASSUME Changes!LoosenChange PROVE FALSE
    BY <1>1, <1>2 DEF Changes!LoosenChange, Changes!Loosened, ChangeRecords
  <1>3. ~ \E f \in Files :
             Changes!Type(f) \/ Changes!Save(f) \/ Changes!Remove(f) \/ Changes!WrittenOutside(f)
    BY <1>2 DEF Changes!Type, Changes!Save, Changes!Remove, Changes!WrittenOutside, Changes!Touch
  <1>4. ~ \E r \in DOMAIN restores :
                \/ \E n \in 1 .. plans : Changes!AskRestore(r, n)
                \/ Changes!Load(r) \/ Changes!StoreFails(r) \/ Changes!Compare(r)
                \/ Changes!UndoApplies(r) \/ Changes!UndoRefused(r) \/ Changes!Verify(r)
                \/ Changes!AbortedRestoreEnds(r)
    <2>1. ASSUME NEW r \in DOMAIN restores, Changes!UndoApplies(r) PROVE FALSE
      BY <1>2, <2>1 DEF Changes!UndoApplies
    <2> QED BY <2>1 DEF Changes!AskRestore, Changes!Load, Changes!StoreFails, Changes!Compare,
               Changes!UndoRefused, Changes!Verify, Changes!AbortedRestoreEnds, Changes!OnlyRestores
  <1>5. ~ \E shape \in Changes!Shapes, byVersion \in BOOLEAN : Changes!Propose(shape, byVersion)
    BY DEF Changes!Propose
  <1>6. ~ \/ Changes!Capture \/ Changes!Confirm \/ Changes!Approve \/ Changes!Reject \/ Changes!Examine
          \/ Changes!NotTrusted \/ Changes!Record \/ Changes!RecordFails \/ Changes!EditorRefuses
          \/ Changes!AbortChange \/ Changes!AbortedChangeEnds
    BY DEF Changes!Capture, Changes!Confirm, Changes!Approve, Changes!Reject, Changes!Examine, Changes!NotTrusted,
           Changes!Record, Changes!RecordFails, Changes!EditorRefuses, Changes!AbortChange,
           Changes!AbortedChangeEnds, Changes!OnlyTheChange
  <1>7. ~ (Changes!SessionDeleted \/ \E n \in DOMAIN checkpoints : Changes!CheckpointDeleted(n))
    BY DEF Changes!SessionDeleted, Changes!CheckpointDeleted
  <1> QED BY <1>3, <1>4, <1>5, <1>6, <1>7 DEF Changes!Next

\* What a plan destroys, in a step.
PlanRecorded ==
    change.step = "submitted" /\ ~Changes!ChangeBusy' /\ disk' # disk =>
         \E cp \in {checkpoints[n] : n \in DOMAIN checkpoints \cap {plans}} :
             \A i \in Changes!Positions(change.files) :
                 LET f == change.files[i] IN
                 /\ cp[i].file = f
                 /\ \/ f \in change.loose
                    \/ cp[i].before = disk[f].text
                    \/ Changes!OnlySavedIsKept(f) /\ cp[i].before = disk[f].saved
                 /\ Changes!Targets \cap change.loose # {} \/ cp[i].after = Changes!Reads(change.kind, disk'[f])

LEMMA CheckpointStep == FilesInv /\ [Changes!Next]_changesVars => [PlanRecorded]_(Changes!vars)
  <1> SUFFICES ASSUME FilesInv, Changes!Next, change.step = "submitted", ~Changes!ChangeBusy', disk' # disk
               PROVE  \E cp \in {checkpoints[n] : n \in DOMAIN checkpoints \cap {plans}} :
                         \A i \in Changes!Positions(change.files) :
                             LET f == change.files[i] IN
                             /\ cp[i].file = f
                             /\ \/ f \in change.loose
                                \/ cp[i].before = disk[f].text
                                \/ Changes!OnlySavedIsKept(f) /\ cp[i].before = disk[f].saved
                             /\ \/ Changes!Targets \cap change.loose # {}
                                \/ cp[i].after = Changes!Reads(change.kind, disk'[f])
    BY DEF PlanRecorded, changesVars, Changes!vars
  <1> DEFINE cp == checkpoints[plans]
             wanted == [j \in Changes!Positions(change.files) |-> Changes!Wanted(j)]
  <1>1. Changes!EditorApplies
    BY EditorEndsPlan DEF Changes!ChangeBusy
  <1>2. /\ Planned(change) /\ change.files \in Seq(Files)
        /\ \A i \in 1 .. Len(change.files) : AsPlanned(change, disk, i)
        /\ plans \in DOMAIN checkpoints /\ cp = Changes!Checkpoint
    BY PlanFacts DEF FilesInv, ChangeFits, CheckpointFits
  <1>3. Changes!Positions(change.files) = 1 .. Len(change.files)
    BY <1>2 DEF Changes!Positions
  <1>4. \A i \in 1 .. Len(change.files) :
           cp[i].file = change.files[i] /\ cp[i].before = change.text[i] /\ cp[i].after = Changes!Wanted(i)
    BY <1>2, <1>3 DEF Changes!Checkpoint
  <1>5. \A i \in 1 .. Len(change.files) : wanted[i] = Changes!Wanted(i)
    BY <1>3
  <1>9. EditWritten(change.kind, change.files, change.text, wanted)
    BY <1>1, PlanWrites
  <1> HIDE DEF cp, wanted
  <1>10. PICK carried \in BOOLEAN :
           \A i \in 1 .. Len(change.files) :
              LET made == Changes!Makes(change.kind, change.files, change.text, wanted, carried, i)
              IN  disk'[change.files[i]].saved = made.saved /\ disk'[change.files[i]].text = made.text
    BY <1>9 DEF EditWritten
  <1>6. ASSUME NEW i \in 1 .. Len(change.files), Changes!Targets \cap change.loose = {}
        PROVE  Changes!Reads(change.kind, disk'[change.files[i]]) = Changes!Wanted(i)
    <2>1. \A j \in 1 .. Len(change.files) : Changes!Reads(change.kind, disk[change.files[j]]) = change.text[j]
      BY <1>2, <1>3, <1>6 DEF AsPlanned, Changes!Targets
    <2>2. CASE change.kind = "edit"
      <3>1. disk[change.files[i]].text = change.text[i]
        BY <2>1, <2>2 DEF Changes!Reads
      <3> QED BY <1>5, <1>10, <2>2, <3>1 DEF Changes!Makes, Changes!Reads
    <2>3. CASE change.kind = "rename" /\ i = 2
      <3>1. Changes!Wanted(2) = change.text[1] /\ 1 \in 1 .. Len(change.files)
        BY <1>2, <2>3 DEF Changes!Wanted, Planned
      <3>2. disk[change.files[1]].saved = change.text[1]
        BY <2>1, <2>3, <3>1 DEF Changes!Reads
      <3> QED BY <1>10, <2>3, <3>1, <3>2 DEF Changes!Makes, Changes!Reads
    <2>4. CASE change.kind = "create"
      BY <1>5, <1>10, <2>4 DEF Changes!Makes, Changes!Reads
    <2>5. CASE change.kind = "delete" \/ (change.kind = "rename" /\ i # 2)
      BY <1>5, <1>10, <2>5 DEF Changes!Makes, Changes!Clean, Changes!Reads
    <2> QED BY <1>2, <2>2, <2>3, <2>4, <2>5 DEF Planned, Kinds
  <1>11. ASSUME NEW i \in 1 .. Len(change.files), change.files[i] \notin change.loose
         PROVE  \/ cp[i].before = disk[change.files[i]].text
                \/ Changes!OnlySavedIsKept(change.files[i]) /\ cp[i].before = disk[change.files[i]].saved
    <2>1. cp[i].before = Changes!Reads(change.kind, disk[change.files[i]])
      BY <1>2, <1>4, <1>11 DEF AsPlanned
    <2> QED BY <1>2, <2>1 DEF Changes!Reads, Changes!OnlySavedIsKept, Changes!Unsaved, Planned, Kinds
  <1>7. \A i \in 1 .. Len(change.files) :
           LET f == change.files[i] IN
           /\ cp[i].file = f
           /\ \/ f \in change.loose
              \/ cp[i].before = disk[f].text
              \/ Changes!OnlySavedIsKept(f) /\ cp[i].before = disk[f].saved
           /\ \/ Changes!Targets \cap change.loose # {}
              \/ cp[i].after = Changes!Reads(change.kind, disk'[f])
    BY <1>4, <1>6, <1>11
  <1>8. cp \in {checkpoints[n] : n \in DOMAIN checkpoints \cap {plans}}
    BY <1>2 DEF cp
  <1> QED BY <1>3, <1>7, <1>8

-----------------------------------------------------------------------------
(* What a restore takes back.                                              *)

\* Only the editor takes a submitted restore further.
LEMMA EditorUndoes ==
    ASSUME FilesInv, Changes!Next, NEW r \in 1 .. MaxRestores,
           restores[r].step = "submitted", restores'[r].step = "verify"
    PROVE  Changes!UndoApplies(r)
  <1>1. restores \in [1 .. MaxRestores -> RestoreRecords] /\ restores[r] \in RestoreRecords
        /\ restores'[r].step # restores[r].step
    BY DEF FilesInv, FilesTyped
  <1>2. ASSUME NEW busy, NEW gs, restores'[r] = Changes!Loosened(restores[r], busy, gs) PROVE FALSE
    BY <1>1, <1>2 DEF Changes!Loosened, RestoreRecords
  <1>3. ASSUME Changes!LoosenRestores PROVE FALSE
    <2>1. restores'[r] = Changes!Loosened(restores[r], Changes!RestoreBusy(r), Changes!Changed("edit"))
      BY <1>1, <1>3 DEF Changes!LoosenRestores
    <2> QED BY <1>2, <2>1
  <1>4. ~ \E f \in Files :
             Changes!Type(f) \/ Changes!Save(f) \/ Changes!Remove(f) \/ Changes!WrittenOutside(f)
    BY <1>3 DEF Changes!Type, Changes!Save, Changes!Remove, Changes!WrittenOutside, Changes!Touch
  <1>5. ~ \/ \E shape \in Changes!Shapes, byVersion \in BOOLEAN : Changes!Propose(shape, byVersion)
          \/ Changes!Capture \/ Changes!Confirm \/ Changes!Approve \/ Changes!Reject
          \/ Changes!Examine \/ Changes!NotTrusted
          \/ Changes!Record \/ Changes!RecordFails \/ Changes!EditorApplies \/ Changes!EditorRefuses
          \/ Changes!AbortChange \/ Changes!AbortedChangeEnds
    <2>1. ~Changes!EditorApplies
      BY <1>3 DEF Changes!EditorApplies
    <2> QED BY <1>1, <2>1 DEF Changes!Propose, Changes!Capture, Changes!Confirm, Changes!Approve, Changes!Reject,
           Changes!Examine, Changes!NotTrusted, Changes!Record, Changes!RecordFails, Changes!EditorRefuses,
           Changes!AbortChange, Changes!AbortedChangeEnds, Changes!OnlyTheChange
  <1>6. ~Changes!SessionDeleted
    <2> SUFFICES ASSUME Changes!SessionDeleted PROVE FALSE
      OBVIOUS
    <2>1. restores'[r] = restores[r] \/ restores'[r] = [restores[r] EXCEPT !.aborted = TRUE]
      BY <1>1 DEF Changes!SessionDeleted
    <2> QED BY <1>1, <2>1 DEF RestoreRecords
  <1>7. ~ \E n \in DOMAIN checkpoints : Changes!CheckpointDeleted(n)
    BY <1>1 DEF Changes!CheckpointDeleted
  <1>8. ASSUME NEW q \in DOMAIN restores,
               \/ \E n \in 1 .. plans : Changes!AskRestore(q, n)
               \/ Changes!Load(q) \/ Changes!StoreFails(q) \/ Changes!Compare(q)
               \/ Changes!UndoRefused(q) \/ Changes!Verify(q) \/ Changes!AbortedRestoreEnds(q)
        PROVE  FALSE
    <2>1. \E x : Changes!Put(q, x)
      BY <1>8 DEF Changes!AskRestore, Changes!Load, Changes!StoreFails, Changes!Compare, Changes!Validate,
                  Changes!Seen, Changes!UndoRefused, Changes!Verify, Changes!AbortedRestoreEnds, Changes!Answer
    <2>2. q = r
      BY <1>1, <2>1 DEF Changes!Put
    <2>3. ~(\E n \in 1 .. plans : Changes!AskRestore(q, n))
      <3>1. Changes!NoRestore.step = "none"
        BY DEF Changes!NoRestore
      <3> QED BY <2>2, <3>1 DEF Changes!AskRestore
    <2>4. ~Changes!Load(q) /\ ~Changes!StoreFails(q) /\ ~Changes!Compare(q) /\ ~Changes!Verify(q)
          /\ ~Changes!AbortedRestoreEnds(q)
      BY <2>2 DEF Changes!Load, Changes!StoreFails, Changes!Compare, Changes!Verify, Changes!AbortedRestoreEnds,
                  Changes!May
    <2>5. Changes!Answer(r, "unavailable")
      BY <1>8, <2>2, <2>3, <2>4 DEF Changes!UndoRefused
    <2>6. restores'[r].step = "unavailable"
      BY <1>1, <2>5, NothingAsked DEF Changes!Answer, Changes!Put, RestoreRecords
    <2> QED BY <2>6
  <1>9. ASSUME NEW q \in DOMAIN restores, Changes!UndoApplies(q), q # r PROVE FALSE
    <2>1. restores'[r] = Changes!Loosened(restores[r], Changes!RestoreBusy(r), Changes!Changed("edit"))
      BY <1>1, <1>9 DEF Changes!UndoApplies
    <2> QED BY <1>2, <2>1
  <1> QED BY <1>1, <1>4, <1>5, <1>6, <1>7, <1>8, <1>9 DEF Changes!Next

\* What a restore takes back, in a step.
RestoreExact ==
    \A r \in DOMAIN restores :
         restores[r].step = "submitted" /\ restores'[r].step = "verify" =>
             LET cp == Changes!Entries(r) IN
             \A i \in Changes!Positions(cp) :
                 /\ cp[i].file \in restores[r].loose \/ disk[cp[i].file].text = cp[i].after
                 /\ \/ restores[r].loose # {}
                    \/ Changes!UndoKind(cp) = "rename"
                       /\ \E j \in Changes!Positions(cp) : Changes!Unsaved(cp[j].file)
                    \/ disk'[cp[i].file].text = cp[i].before

LEMMA RestoreStep == FilesInv /\ [Changes!Next]_changesVars => [RestoreExact]_(Changes!vars)
  <1> SUFFICES ASSUME FilesInv, Changes!Next, NEW r \in 1 .. MaxRestores,
                      restores[r].step = "submitted", restores'[r].step = "verify"
               PROVE  LET cp == Changes!Entries(r) IN
                      \A i \in Changes!Positions(cp) :
                         /\ cp[i].file \in restores[r].loose \/ disk[cp[i].file].text = cp[i].after
                         /\ \/ restores[r].loose # {}
                            \/ Changes!UndoKind(cp) = "rename"
                               /\ \E j \in Changes!Positions(cp) : Changes!Unsaved(cp[j].file)
                            \/ disk'[cp[i].file].text = cp[i].before
    BY DEF RestoreExact, changesVars, Changes!vars, FilesInv, FilesTyped
  <1> DEFINE cp == restores[r].checkpoint
             undo == Changes!UndoOrder(cp)
             kind == Changes!UndoKind(cp)
             files == Changes!UndoFiles(cp)
             expected == [i \in Changes!Positions(undo) |-> undo[i].after]
             wanted == [i \in Changes!Positions(undo) |-> undo[i].before]
  <1>1. Recorded(cp) /\ EditWritten(kind, files, expected, wanted)
    BY EditorUndoes, UndoWrites
  <1>2. \A i \in 1 .. Len(cp) : Stays(restores[r], disk, i)
    BY DEF FilesInv, RestoreFits
  <1>3. /\ cp \in Seq(Entry) /\ undo \in Seq(Entry) /\ Len(undo) = Len(cp) /\ Len(files) = Len(cp)
        /\ \A i \in 1 .. Len(cp) : files[i] = undo[i].file
        /\ kind = "rename" => Len(cp) = 2 /\ undo = <<cp[2], cp[1]>>
        /\ kind # "rename" => undo = cp
    BY <1>1, UndoFacts
  <1>4. kind = "rename" => cp[2].after = cp[1].before
    BY <1>1 DEF Recorded
  <1> HIDE DEF files, undo, kind
  <1>5. \A i \in 1 .. Len(cp) : expected[i] = undo[i].after /\ wanted[i] = undo[i].before
    BY <1>3 DEF Changes!Positions
  <1> HIDE DEF expected, wanted
  <1>6. PICK carried \in BOOLEAN :
           \A i \in 1 .. Len(cp) :
              LET made == Changes!Makes(kind, files, expected, wanted, carried, i)
              IN  disk'[undo[i].file].saved = made.saved /\ disk'[undo[i].file].text = made.text
    BY <1>1, <1>3 DEF EditWritten
  <1> HIDE DEF cp
  <1>7. ASSUME restores[r].loose = {}, NEW i \in 1 .. Len(cp),
               kind = "rename" => \A j \in 1 .. Len(cp) : ~Changes!Unsaved(cp[j].file)
        PROVE  disk'[cp[i].file].text = cp[i].before
    <2>1. \A j \in 1 .. Len(cp) : disk[cp[j].file].text = cp[j].after
      BY <1>2, <1>7 DEF Stays, cp
    <2>2. CASE kind = "edit"
      <3>1. /\ undo[i] = cp[i] /\ files[i] = cp[i].file
            /\ expected[i] = cp[i].after /\ wanted[i] = cp[i].before
        BY <1>3, <1>5, <2>2
      <3>2. Changes!Makes(kind, files, expected, wanted, carried, i).text =
                IF disk[files[i]].text = expected[i] THEN wanted[i] ELSE "mixed"
        BY <2>2 DEF Changes!Makes
      <3>3. disk'[undo[i].file].text = Changes!Makes(kind, files, expected, wanted, carried, i).text
        BY <1>6
      <3> QED BY <2>1, <3>1, <3>2, <3>3
    <2>3. CASE kind = "rename"
      <3>1. Len(cp) = 2 /\ undo[1] = cp[2] /\ undo[2] = cp[1]
        BY <1>3, <2>3
      <3>0. disk[files[1]].saved = disk[files[1]].text
        BY <1>3, <1>7, <2>3, <3>1 DEF Changes!Unsaved
      <3>2. disk'[undo[1].file].text = wanted[1] /\ disk'[undo[2].file].text = disk[files[1]].text
        BY <1>6, <2>3, <3>0, <3>1 DEF Changes!Makes, Changes!Clean
      <3>3. wanted[1] = cp[2].before
        BY <1>5, <3>1
      <3>4. files[1] = cp[2].file
        BY <1>3, <3>1
      <3>5. disk[files[1]].text = cp[1].before
        BY <1>4, <2>1, <2>3, <3>1, <3>4
      <3>6. i = 1 \/ i = 2
        BY <3>1
      <3> QED BY <3>1, <3>2, <3>3, <3>5, <3>6
    <2>4. CASE kind \notin {"edit", "rename"}
      BY <1>3, <1>5, <1>6, <2>4 DEF Changes!Makes, Changes!Clean
    <2> QED BY <2>2, <2>3, <2>4
  <1>8. Changes!Positions(cp) = 1 .. Len(cp) /\ Changes!Entries(r) = cp
    BY <1>3 DEF Changes!Positions, Changes!Entries, cp
  <1>9. \A i \in 1 .. Len(cp) : cp[i].file \in restores[r].loose \/ disk[cp[i].file].text = cp[i].after
    BY <1>2 DEF Stays, cp
  <1> QED BY <1>7, <1>8, <1>9 DEF kind, cp

-----------------------------------------------------------------------------
(* McpCatalog.                                                             *)

Catalogs == [context : BOOLEAN, value : Nat, requested : BOOLEAN, seen : Seq(Nat),
             running : BOOLEAN, failed : BOOLEAN]
Messages == [kind : {"page", "list_changed"}, version : Nat]
CatalogTyped ==
    /\ server \in [version : Nat, owes : BOOLEAN]
    /\ wire \in Seq(Messages)
    /\ link \in [up : BOOLEAN, number : Nat]
    /\ catalog \in Catalogs
    /\ contents \in Seq(Seq(Nat)) /\ catalog.value \in 0 .. Len(contents)
    /\ calls \in [Callers -> [step : {"none", "held", "sent", "accepted", "unavailable"},
                              kind : {"tool", "read"}, of : Nat, link : Nat]]

\* No catalog is active but the one on offer, and without a connection there is none.
OnOffer ==
    /\ active \subseteq {catalog.value}
    /\ ~link.up => wire = <<>> /\ ~server.owes /\ active = {} /\ catalog = Catalog!Fresh
    /\ ~catalog.context => catalog = Catalog!Fresh

Page(i) == wire[i].kind = "page"
Announced == \E i \in DOMAIN wire : wire[i].kind = "list_changed"
AnnouncedAfter(i) == \E j \in DOMAIN wire : j > i /\ wire[j].kind = "list_changed"
\* A read of the list is under way exactly while one page of it is owed or on its way.
OneAnswer ==
    /\ \A i, j \in DOMAIN wire : Page(i) /\ Page(j) => i = j
    /\ \A i \in DOMAIN wire : Page(i) => ~server.owes /\ catalog.running
    /\ server.owes => catalog.running
    /\ catalog.running => server.owes \/ \E i \in DOMAIN wire : Page(i)
    /\ Len(catalog.seen) < Catalog!Pages

\* A page that is not of the Server's present list is followed by the word that it changed.
UpToDate ==
    /\ \A i \in DOMAIN wire : Page(i) => wire[i].version = server.version \/ AnnouncedAfter(i)
    /\ catalog.running => \A i \in DOMAIN catalog.seen :
           catalog.seen[i] = server.version \/ catalog.requested \/ Announced
    /\ catalog.context /\ ~catalog.running /\ ~catalog.failed =>
           /\ catalog.value # Catalog!NoValue
           /\ \A i \in 1 .. Catalog!Pages :
                 contents[catalog.value][i] = server.version \/ Announced

CatalogInv == CatalogTyped /\ OnOffer /\ OneAnswer /\ UpToDate

LEMMA CatalogInit == Catalog!Init => CatalogInv
  BY DEF Catalog!Init, CatalogInv, CatalogTyped, OnOffer, OneAnswer, UpToDate, Messages, Catalogs,
         Page, Catalog!Fresh, Catalog!NoValue, Catalog!NoCall, Catalog!Pages

\* The catalog's calls are apart from what they are made from.
LEMMA CallsKeepCatalog ==
    ASSUME CatalogInv, NEW c \in Callers,
           (\E kind \in {"tool", "read"} : Catalog!Hold(c, kind)) \/ Catalog!Call(c) \/ Catalog!Answer(c)
    PROVE  CatalogInv'
  <1>1. calls' \in [Callers -> [step : {"none", "held", "sent", "accepted", "unavailable"},
                                kind : {"tool", "read"}, of : Nat, link : Nat]]
    <2>1. calls \in [Callers -> [step : {"none", "held", "sent", "accepted", "unavailable"},
                                 kind : {"tool", "read"}, of : Nat, link : Nat]]
          /\ catalog.value \in Nat /\ link.number \in Nat
      BY DEF CatalogInv, CatalogTyped
    <2>2. CASE \E kind \in {"tool", "read"} : Catalog!Hold(c, kind)
      BY <2>1, <2>2 DEF Catalog!Hold
    <2>3. CASE Catalog!Call(c) \/ Catalog!Answer(c)
      BY <2>1, <2>3 DEF Catalog!Call, Catalog!Answer
    <2> QED BY <2>2, <2>3
  <1>2. UNCHANGED <<server, wire, link, catalog, active, contents>>
    BY DEF Catalog!Hold, Catalog!Call, Catalog!Answer
  <1> QED BY <1>1, <1>2
          DEF CatalogInv, CatalogTyped, OnOffer, OneAnswer, UpToDate, Page, Announced, AnnouncedAfter

\* What Append and Tail leave of what is on its way.
LEMMA Sent ==
    ASSUME CatalogTyped, NEW m \in Messages, wire' = Append(wire, m)
    PROVE  /\ wire' \in Seq(Messages) /\ Len(wire') = Len(wire) + 1
           /\ DOMAIN wire = 1 .. Len(wire) /\ DOMAIN wire' = 1 .. Len(wire) + 1
           /\ wire'[Len(wire) + 1] = m /\ \A i \in DOMAIN wire : wire'[i] = wire[i]
  BY DEF CatalogTyped
LEMMA Handled ==
    ASSUME CatalogTyped, wire # <<>>, wire' = Tail(wire)
    PROVE  /\ wire' \in Seq(Messages) /\ Len(wire') = Len(wire) - 1 /\ Len(wire) \in Nat \ {0}
           /\ DOMAIN wire = 1 .. Len(wire) /\ DOMAIN wire' = 1 .. Len(wire) - 1
           /\ Head(wire) = wire[1] /\ wire[1] \in Messages
           /\ \A i \in DOMAIN wire' : i + 1 \in DOMAIN wire /\ wire'[i] = wire[i + 1]
  BY DEF CatalogTyped

\* What a request makes of a catalog.
LEMMA RequestedIs ==
    ASSUME NEW c \in Catalogs
    PROVE  LET d == Catalog!Requested(c) IN
           /\ d \in Catalogs /\ d.running
           /\ d.context = c.context /\ d.value = c.value /\ d.failed = c.failed
           /\ c.running => d.seen = c.seen /\ d.requested
           /\ ~c.running => d.seen = <<>>
  <1>1. CASE c.running
    BY <1>1 DEF Catalog!Requested, Catalogs
  <1>2. CASE ~c.running
    <2> DEFINE d == [c EXCEPT !.requested = FALSE, !.running = TRUE, !.seen = <<>>]
    <2>0. \A s \in {<<>>} : [c EXCEPT !.requested = FALSE, !.running = TRUE, !.seen = s] \in Catalogs
      <3>1. <<>> \in Seq(Nat)
        OBVIOUS
      <3>2. \A s \in Seq(Nat) : [c EXCEPT !.requested = FALSE, !.running = TRUE, !.seen = s] \in Catalogs
        BY DEF Catalogs
      <3> QED BY <3>1, <3>2
    <2>1. d \in Catalogs
      BY <2>0
    <2>2. /\ d.running /\ d.context = c.context /\ d.value = c.value /\ d.failed = c.failed
          /\ d.seen = <<>>
      BY DEF Catalogs
    <2>3. Catalog!Requested(c) = d
      BY <1>2 DEF Catalog!Requested
    <2> HIDE DEF d
    <2> QED BY <1>2, <2>1, <2>2, <2>3
  <1> QED BY <1>1, <1>2

LEMMA CatalogNext == CatalogInv /\ [Catalog!Next]_catalogVars => CatalogInv'
  <1> SUFFICES ASSUME CatalogInv, [Catalog!Next]_catalogVars PROVE CatalogInv'
    OBVIOUS
  <1> USE DEF CatalogInv
  <1>1. CASE Catalog!ServerChanges
    <2> DEFINE m == [kind |-> "list_changed", version |-> server.version + 1]
    <2>1. m \in Messages /\ wire' = Append(wire, m) /\ link.up
      BY <1>1 DEF Catalog!ServerChanges, CatalogTyped, Messages
    <2>2. UNCHANGED <<link, catalog, active, contents, calls>> /\ server' = [server EXCEPT !.version = @ + 1]
      BY <1>1 DEF Catalog!ServerChanges
    <2>3. m.kind = "list_changed"
      OBVIOUS
    <2> HIDE DEF m
    <2>4. /\ wire' \in Seq(Messages) /\ Len(wire') = Len(wire) + 1 /\ Len(wire) \in Nat
          /\ DOMAIN wire = 1 .. Len(wire) /\ DOMAIN wire' = 1 .. Len(wire) + 1
          /\ wire'[Len(wire) + 1].kind = "list_changed" /\ \A i \in DOMAIN wire : wire'[i] = wire[i]
      BY <2>1, <2>3, Sent DEF CatalogTyped
    <2>5. CatalogTyped' /\ OnOffer'
      <3>1. server' \in [version : Nat, owes : BOOLEAN]
        <4>1. server \in [version : Nat, owes : BOOLEAN] /\ server.version + 1 \in Nat
          BY DEF CatalogTyped
        <4> QED BY <2>2, <4>1
      <3>2. CatalogTyped'
        BY <2>2, <2>4, <3>1 DEF CatalogTyped
      <3>3. server'.owes = server.owes
        BY <2>2 DEF CatalogTyped
      <3>4. OnOffer'
        BY <2>1, <2>2, <3>3 DEF OnOffer
      <3> QED BY <3>2, <3>4
    <2>6. \A i \in DOMAIN wire' : Page(i)' => i \in DOMAIN wire /\ Page(i)
      BY <2>4 DEF Page
    <2>7. \A i \in DOMAIN wire : Page(i) => Page(i)'
      BY <2>4 DEF Page
    <2>8. Len(wire) + 1 \in DOMAIN wire' /\ \A i \in DOMAIN wire : i < Len(wire) + 1
      BY <2>4
    <2>9. Announced' /\ \A i \in DOMAIN wire : AnnouncedAfter(i)'
      BY <2>4, <2>8 DEF Announced, AnnouncedAfter
    <2>10. server'.owes = server.owes
      BY <2>2 DEF CatalogTyped
    <2>11. OneAnswer'
      BY <2>2, <2>4, <2>6, <2>7, <2>10 DEF OneAnswer
    <2>12. UpToDate'
      BY <2>2, <2>6, <2>9 DEF UpToDate
    <2> QED BY <2>5, <2>11, <2>12
  <1>2. CASE Catalog!ServerAnswers
    <2> DEFINE m == [kind |-> "page", version |-> server.version]
    <2>1. m \in Messages /\ wire' = Append(wire, m) /\ server.owes
      BY <1>2 DEF Catalog!ServerAnswers, CatalogTyped, Messages
    <2>2. UNCHANGED <<link, catalog, active, contents, calls>> /\ server' = [server EXCEPT !.owes = FALSE]
      BY <1>2 DEF Catalog!ServerAnswers
    <2>3. m.kind = "page" /\ m.version = server.version
      OBVIOUS
    <2> HIDE DEF m
    <2>4. /\ wire' \in Seq(Messages) /\ Len(wire') = Len(wire) + 1 /\ Len(wire) \in Nat
          /\ DOMAIN wire = 1 .. Len(wire) /\ DOMAIN wire' = 1 .. Len(wire) + 1
          /\ wire'[Len(wire) + 1].kind = "page" /\ wire'[Len(wire) + 1].version = server.version
          /\ \A i \in DOMAIN wire : wire'[i] = wire[i]
      BY <2>1, <2>3, Sent DEF CatalogTyped
    <2>5. server'.owes = FALSE /\ server'.version = server.version /\ link.up
      BY <2>1, <2>2 DEF CatalogTyped, OnOffer
    <2>6. CatalogTyped' /\ OnOffer'
      BY <2>1, <2>2, <2>4, <2>5 DEF CatalogTyped, OnOffer
    <2>7. \A i \in DOMAIN wire : ~Page(i)
      BY <2>1 DEF OneAnswer
    <2>8. \A i \in DOMAIN wire' : Page(i)' <=> i = Len(wire) + 1
      BY <2>4, <2>7 DEF Page
    <2>9. Announced => Announced'
      BY <2>4 DEF Announced
    <2>10. OneAnswer'
      BY <2>1, <2>2, <2>4, <2>5, <2>8 DEF OneAnswer
    <2>11. UpToDate'
      BY <2>2, <2>4, <2>5, <2>8, <2>9 DEF UpToDate
    <2> QED BY <2>6, <2>10, <2>11
  <1>3. CASE Catalog!Connect
    <2>1. /\ ~link.up /\ wire = <<>> /\ ~server.owes /\ active = {} /\ catalog = Catalog!Fresh
          /\ catalog' = Catalog!Fresh /\ link' = [up |-> TRUE, number |-> link.number + 1]
          /\ UNCHANGED <<server, wire, active, contents, calls>>
      BY <1>3 DEF Catalog!Connect, OnOffer
    <2> QED BY <2>1 DEF CatalogTyped, OnOffer, OneAnswer, UpToDate, Page, Announced, AnnouncedAfter, Catalog!Fresh
  <1>4. CASE Catalog!Discover
    <2> DEFINE c == [catalog EXCEPT !.context = TRUE]
    <2>1. /\ link.up /\ catalog = Catalog!Fresh /\ catalog' = Catalog!Requested(c)
          /\ server' = [server EXCEPT !.owes = TRUE] /\ UNCHANGED <<wire, link, active, contents, calls>>
      BY <1>4 DEF Catalog!Discover, OnOffer
    <2>8. c \in Catalogs /\ c.context /\ c.value = catalog.value /\ ~c.running /\ ~catalog.running
      BY <2>1 DEF CatalogTyped, Catalogs, Catalog!Fresh
    <2> HIDE DEF c
    <2>2. /\ catalog'.context /\ catalog'.running /\ catalog'.value = catalog.value /\ catalog'.seen = <<>>
          /\ catalog' \in Catalogs
      BY <2>1, <2>8, RequestedIs
    <2>3. server'.owes /\ server'.version = server.version /\ server' \in [version : Nat, owes : BOOLEAN]
      BY <2>1 DEF CatalogTyped
    <2>4. \A i \in DOMAIN wire : ~Page(i)
      BY <2>8 DEF OneAnswer
    <2>5. \A i \in DOMAIN wire' : ~Page(i)'
      BY <2>1, <2>4 DEF Page
    <2>6. CatalogTyped' /\ OnOffer'
      BY <2>1, <2>2, <2>3 DEF CatalogTyped, OnOffer
    <2>7. OneAnswer' /\ UpToDate'
      BY <2>2, <2>3, <2>5 DEF OneAnswer, UpToDate, Catalog!Pages
    <2> QED BY <2>6, <2>7
  <1>5. CASE Catalog!Refresh \/ Catalog!ListChanged
    <2> SUFFICES ASSUME catalog.context
                 PROVE  CatalogInv'
      <3>1. CASE Catalog!Refresh
        BY <3>1 DEF Catalog!Refresh, OnOffer, Catalog!Fresh, Catalog!NoValue
      <3>2. CASE Catalog!ListChanged /\ ~catalog.context
        <4>1. catalog = Catalog!Fresh /\ ~catalog.running /\ UNCHANGED <<server, catalog, link, active, contents, calls>>
          BY <3>2 DEF Catalog!ListChanged, OnOffer, Catalog!Fresh
        <4>2. wire # <<>> /\ wire' = Tail(wire)
          BY <3>2 DEF Catalog!ListChanged, Catalog!Arrives
        <4>3. \A i \in DOMAIN wire : ~Page(i)
          BY <4>1 DEF OneAnswer
        <4>4. wire' \in Seq(Messages) /\ \A i \in DOMAIN wire' : ~Page(i)'
          BY <4>2, <4>3, Handled DEF Page
        <4>5. CatalogTyped' /\ OnOffer'
          BY <4>1, <4>2, <4>4 DEF CatalogTyped, OnOffer
        <4>6. OneAnswer' /\ UpToDate'
          BY <3>2, <4>1, <4>4 DEF OneAnswer, UpToDate
        <4> QED BY <4>5, <4>6
      <3> QED BY <1>5, <3>1, <3>2
    <2>1. /\ catalog' = Catalog!Requested(catalog) /\ server' = [server EXCEPT !.owes = @ \/ ~catalog.running]
          /\ UNCHANGED <<link, active, contents, calls>>
          /\ wire' = wire \/ (wire # <<>> /\ wire' = Tail(wire) /\ ~Page(1))
      BY <1>5 DEF Catalog!Refresh, Catalog!ListChanged, Catalog!Request, Catalog!Arrives, Page
    <2>2. /\ catalog' \in Catalogs /\ catalog'.running
          /\ catalog'.context = catalog.context /\ catalog'.value = catalog.value
          /\ catalog.running => catalog'.seen = catalog.seen /\ catalog'.requested
          /\ ~catalog.running => catalog'.seen = <<>>
      BY <2>1, RequestedIs DEF CatalogTyped
    <2>3. /\ server' \in [version : Nat, owes : BOOLEAN] /\ server'.version = server.version
          /\ server'.owes <=> server.owes \/ ~catalog.running
      BY <2>1 DEF CatalogTyped
    <2>4. link.up
      BY DEF OnOffer, Catalog!Fresh
    <2>5. /\ wire' \in Seq(Messages)
          /\ \A i \in DOMAIN wire' : Page(i)' =>
                \E k \in DOMAIN wire : /\ Page(k) /\ k = IF wire' = wire THEN i ELSE i + 1
                                       /\ wire'[i] = wire[k] /\ (AnnouncedAfter(k) => AnnouncedAfter(i)')
          /\ \A k \in DOMAIN wire : Page(k) => \E i \in DOMAIN wire' : Page(i)'
      <3>1. CASE wire' = wire
        BY <3>1 DEF CatalogTyped, Page, AnnouncedAfter
      <3>2. CASE wire # <<>> /\ wire' = Tail(wire) /\ ~Page(1)
        <4>1. /\ wire' \in Seq(Messages) /\ Len(wire') = Len(wire) - 1 /\ Len(wire) \in Nat \ {0}
              /\ DOMAIN wire = 1 .. Len(wire) /\ DOMAIN wire' = 1 .. Len(wire) - 1
              /\ \A i \in DOMAIN wire' : i + 1 \in DOMAIN wire /\ wire'[i] = wire[i + 1]
          BY <3>2, Handled
        <4>2. \A k \in DOMAIN wire : k # 1 => k - 1 \in DOMAIN wire' /\ wire'[k - 1] = wire[k]
          BY <4>1
        <4>3. \A i \in DOMAIN wire' : AnnouncedAfter(i + 1) => AnnouncedAfter(i)'
          <5> SUFFICES ASSUME NEW i \in DOMAIN wire', AnnouncedAfter(i + 1) PROVE AnnouncedAfter(i)'
            OBVIOUS
          <5>1. PICK j \in DOMAIN wire : j > i + 1 /\ wire[j].kind = "list_changed"
            BY DEF AnnouncedAfter
          <5>2. j - 1 \in DOMAIN wire' /\ j - 1 > i /\ wire'[j - 1].kind = "list_changed"
            BY <4>1, <4>2, <5>1
          <5> QED BY <5>2 DEF AnnouncedAfter
        <4>4. wire' # wire
          BY <4>1
        <4>5. \A i \in DOMAIN wire' : Page(i)' => Page(i + 1)
          BY <4>1 DEF Page
        <4>6. \A k \in DOMAIN wire : Page(k) => k # 1 /\ Page(k - 1)'
          BY <3>2, <4>2 DEF Page
        <4> QED BY <4>1, <4>2, <4>3, <4>4, <4>5, <4>6
      <3> QED BY <2>1, <3>1, <3>2
    <2>6. CatalogTyped' /\ OnOffer'
      BY <2>1, <2>2, <2>3, <2>4, <2>5 DEF CatalogTyped, OnOffer
    <2>7. OneAnswer'
      <3>1. \A i, j \in DOMAIN wire' : Page(i)' /\ Page(j)' => i = j
        <4>1. \A i \in DOMAIN wire' : i \in Nat
          BY <2>5
        <4> QED BY <2>5, <4>1 DEF OneAnswer
      <3>2. \A i \in DOMAIN wire' : Page(i)' => ~server'.owes /\ catalog'.running
        BY <2>2, <2>3, <2>5 DEF OneAnswer
      <3>3. server'.owes \/ \E i \in DOMAIN wire' : Page(i)'
        BY <2>3, <2>5 DEF OneAnswer
      <3>4. Len(catalog'.seen) < Catalog!Pages
        BY <2>2 DEF OneAnswer, Catalog!Pages
      <3> QED BY <2>2, <3>1, <3>2, <3>3, <3>4 DEF OneAnswer
    <2>8. UpToDate'
      <3>1. \A i \in DOMAIN wire' : Page(i)' => wire'[i].version = server'.version \/ AnnouncedAfter(i)'
        BY <2>3, <2>5 DEF UpToDate
      <3>2. \A i \in DOMAIN catalog'.seen : catalog'.seen[i] = server'.version \/ catalog'.requested \/ Announced'
        BY <2>2
      <3> QED BY <2>2, <3>1, <3>2 DEF UpToDate
    <2> QED BY <2>6, <2>7, <2>8
  <1>6. CASE Catalog!PageArrives \/ Catalog!LastPageArrives \/ Catalog!RefreshFails
    <2>1. wire # <<>> /\ wire' = Tail(wire) /\ Page(1)
      BY <1>6 DEF Catalog!PageArrives, Catalog!LastPageArrives, Catalog!RefreshFails, Catalog!Arrives, Page
    <2>2. /\ wire' \in Seq(Messages) /\ Len(wire') = Len(wire) - 1 /\ Len(wire) \in Nat \ {0}
          /\ DOMAIN wire = 1 .. Len(wire) /\ DOMAIN wire' = 1 .. Len(wire) - 1
          /\ Head(wire) = wire[1] /\ wire[1] \in Messages
          /\ \A i \in DOMAIN wire' : i + 1 \in DOMAIN wire /\ wire'[i] = wire[i + 1]
      BY <2>1, Handled
    <2>3. ~server.owes /\ catalog.running /\ link.up /\ catalog.context
      BY <2>1, <2>2 DEF OneAnswer, OnOffer, Catalog!Fresh
    <2>4. \A i \in DOMAIN wire' : ~Page(i)'
      <3> SUFFICES ASSUME NEW i \in DOMAIN wire', Page(i)' PROVE FALSE
        OBVIOUS
      <3>1. i + 1 \in DOMAIN wire /\ Page(i + 1) /\ i + 1 # 1 /\ 1 \in DOMAIN wire
        BY <2>2 DEF Page
      <3> QED BY <2>1, <3>1 DEF OneAnswer
    <2>5. wire[1].version = server.version \/ Announced'
      <3> SUFFICES ASSUME wire[1].version # server.version PROVE Announced'
        OBVIOUS
      <3>1. PICK j \in DOMAIN wire : j > 1 /\ wire[j].kind = "list_changed"
        BY <2>1, <2>2 DEF UpToDate, AnnouncedAfter
      <3>2. j - 1 \in DOMAIN wire' /\ wire'[j - 1] = wire[j]
        BY <2>2, <3>1
      <3> QED BY <3>1, <3>2 DEF Announced
    <2>6. Announced => Announced'
      <3> SUFFICES ASSUME Announced PROVE Announced'
        OBVIOUS
      <3>1. PICK j \in DOMAIN wire : wire[j].kind = "list_changed"
        BY DEF Announced
      <3>2. j # 1
        BY <2>1, <3>1 DEF Page
      <3>3. j - 1 \in DOMAIN wire' /\ wire'[j - 1] = wire[j]
        BY <2>2, <3>1, <3>2
      <3> QED BY <3>1, <3>3 DEF Announced
    <2> DEFINE v == wire[1].version
    <2>7. v \in Nat /\ catalog \in Catalogs /\ server \in [version : Nat, owes : BOOLEAN]
          /\ contents \in Seq(Seq(Nat)) /\ catalog.seen \in Seq(Nat) /\ catalog.value \in 0 .. Len(contents)
      BY <2>2 DEF CatalogTyped, Messages, Catalogs
    <2>8. CASE Catalog!PageArrives
      <3> DEFINE c == [catalog EXCEPT !.seen = Append(@, v)]
      <3>1. /\ catalog' = c /\ server' = [server EXCEPT !.owes = TRUE]
            /\ Len(catalog.seen) = 0 /\ UNCHANGED <<link, active, contents, calls>>
        <4>1. Head(wire).version = v /\ Len(catalog.seen) \in Nat
          BY <2>2, <2>7
        <4>2. Len(catalog.seen) + 1 < 2 /\ catalog' = [catalog EXCEPT !.seen = Append(@, Head(wire).version)]
          BY <2>8 DEF Catalog!PageArrives, Catalog!Pages
        <4> QED BY <2>8, <4>1, <4>2 DEF Catalog!PageArrives
      <3>2. Append(catalog.seen, v) \in Seq(Nat) /\ Len(Append(catalog.seen, v)) = 1 /\ Append(catalog.seen, v)[1] = v
        BY <2>7, <3>1
      <3>3. /\ c \in Catalogs /\ c.running /\ c.context /\ c.value = catalog.value /\ c.failed = catalog.failed
            /\ c.seen = Append(catalog.seen, v) /\ c.requested = catalog.requested
        BY <2>3, <2>7, <3>2 DEF Catalogs
      <3> HIDE DEF c
      <3>4. server'.owes /\ server'.version = server.version /\ server' \in [version : Nat, owes : BOOLEAN]
        BY <2>7, <3>1
      <3>5. CatalogTyped' /\ OnOffer'
        BY <2>2, <2>3, <3>1, <3>3, <3>4 DEF CatalogTyped, OnOffer
      <3>6. OneAnswer'
        BY <2>4, <3>1, <3>2, <3>3, <3>4 DEF OneAnswer, Catalog!Pages
      <3>7. UpToDate'
        BY <2>4, <2>5, <3>1, <3>2, <3>3, <3>4 DEF UpToDate
      <3> QED BY <3>5, <3>6, <3>7
    <2>9. CASE Catalog!RefreshFails
      <3>1. /\ catalog' = [catalog EXCEPT !.running = FALSE, !.failed = TRUE]
            /\ UNCHANGED <<server, link, active, contents, calls>>
        BY <2>9 DEF Catalog!RefreshFails
      <3>2. /\ catalog' \in Catalogs /\ ~catalog'.running /\ catalog'.context /\ catalog'.value = catalog.value
            /\ catalog'.failed /\ catalog'.seen = catalog.seen
        BY <2>3, <2>7, <3>1 DEF Catalogs
      <3>3. CatalogTyped' /\ OnOffer'
        BY <2>2, <2>3, <3>1, <3>2 DEF CatalogTyped, OnOffer
      <3>4. OneAnswer'
        BY <2>3, <2>4, <3>1, <3>2 DEF OneAnswer
      <3>5. UpToDate'
        BY <2>4, <3>2 DEF UpToDate
      <3> QED BY <3>3, <3>4, <3>5
    <2>10. CASE Catalog!LastPageArrives
      <3> DEFINE id == Len(contents) + 1
                 pages == Append(catalog.seen, v)
                 done == [catalog EXCEPT !.value = id, !.failed = FALSE, !.running = FALSE]
      <3>1. /\ contents' = Append(contents, pages) /\ catalog' = Catalog!Committed(catalog, id)
            /\ active' = (active \ {catalog.value}) \cup {id}
            /\ server' = [server EXCEPT !.owes = catalog'.running]
            /\ Len(catalog.seen) = 1 /\ UNCHANGED <<link, calls>>
        <4>1. Head(wire).version = v /\ Len(catalog.seen) \in Nat
          BY <2>2, <2>7
        <4>2. Len(catalog.seen) + 1 = 2 /\ contents' = Append(contents, Append(catalog.seen, Head(wire).version))
          BY <2>10 DEF Catalog!LastPageArrives, Catalog!Pages
        <4>3. /\ catalog' = Catalog!Committed(catalog, id) /\ active' = (active \ {catalog.value}) \cup {id}
              /\ server' = [server EXCEPT !.owes = catalog'.running] /\ UNCHANGED <<link, calls>>
          BY <2>10 DEF Catalog!LastPageArrives, Catalog!Replaced
        <4>4. Len(catalog.seen) = 1
          <5>1. Len(catalog.seen) \in Nat
            BY <4>1
          <5>2. Len(catalog.seen) + 1 = 2
            BY <4>2
          <5>3. \A n \in Nat : n + 1 = 2 => n = 1
            OBVIOUS
          <5> QED BY <5>1, <5>2, <5>3
        <4>5. contents' = Append(contents, pages)
          BY <4>1, <4>2
        <4> QED BY <4>3, <4>4, <4>5
      <3>2. /\ pages \in Seq(Nat) /\ pages[1] = catalog.seen[1] /\ pages[2] = v
            /\ contents' \in Seq(Seq(Nat)) /\ contents'[id] = pages /\ Len(contents') = id /\ id \in Nat \ {0}
            /\ 1 \in DOMAIN catalog.seen
        <4>1. /\ catalog.seen \in Seq(Nat) /\ contents \in Seq(Seq(Nat)) /\ v \in Nat
              /\ Len(catalog.seen) = 1 /\ contents' = Append(contents, pages)
          BY <2>7, <3>1
        <4>2. pages \in Seq(Nat) /\ pages[1] = catalog.seen[1] /\ pages[2] = v /\ 1 \in DOMAIN catalog.seen
          BY <4>1
        <4> HIDE DEF pages
        <4>3. contents' \in Seq(Seq(Nat)) /\ contents'[id] = pages /\ Len(contents') = id /\ id \in Nat \ {0}
          BY <4>1, <4>2
        <4> QED BY <4>2, <4>3
      <3>3. /\ done \in Catalogs /\ ~done.running /\ done.context /\ done.value = id /\ ~done.failed
            /\ done.seen = catalog.seen /\ done.requested = catalog.requested
        BY <2>3, <2>7, <3>2 DEF Catalogs
      <3>4. catalog' = IF catalog.requested THEN Catalog!Requested(done) ELSE done
        BY <3>1 DEF Catalog!Committed
      <3> HIDE DEF id, pages, done
      <3>5. /\ catalog' \in Catalogs /\ catalog'.context /\ catalog'.value = id /\ ~catalog'.failed
            /\ catalog'.running <=> catalog.requested
            /\ Len(catalog'.seen) < 2 /\ (catalog'.running => catalog'.seen = <<>>)
        <4>1. CASE catalog.requested
          BY <3>3, <3>4, <4>1, RequestedIs
        <4>2. CASE ~catalog.requested
          <5>1. catalog' = done /\ Len(done.seen) = 1
            BY <3>1, <3>3, <3>4, <4>2
          <5>2. Len(catalog'.seen) < 2
            BY <5>1
          <5>3. /\ catalog' \in Catalogs /\ catalog'.context /\ catalog'.value = id /\ ~catalog'.failed
                /\ ~catalog'.running
            BY <3>3, <5>1
          <5> QED BY <4>2, <5>2, <5>3
        <4> QED BY <4>1, <4>2
      <3>6. /\ server' \in [version : Nat, owes : BOOLEAN] /\ server'.version = server.version
            /\ server'.owes <=> catalog'.running
        BY <2>7, <3>1, <3>5 DEF Catalogs
      <3>7. CatalogTyped'
        <4>1. wire' \in Seq(Messages) /\ link' = link /\ calls' = calls
          BY <2>2, <3>1
        <4>2. catalog'.value \in 0 .. Len(contents')
          BY <3>2, <3>5
        <4>3. contents' \in Seq(Seq(Nat)) /\ catalog' \in Catalogs /\ server' \in [version : Nat, owes : BOOLEAN]
          BY <3>2, <3>5, <3>6
        <4> QED BY <4>1, <4>2, <4>3 DEF CatalogInv, CatalogTyped
      <3>8. OnOffer'
        BY <2>3, <3>1, <3>5 DEF OnOffer
      <3>9. OneAnswer'
        BY <2>4, <3>5, <3>6 DEF OneAnswer, Catalog!Pages
      <3>10. UpToDate'
        <4>1. ~catalog.requested => \A i \in 1 .. 2 : pages[i] = server.version \/ Announced'
          BY <2>3, <2>5, <2>6, <3>2 DEF UpToDate
        <4>2. id # Catalog!NoValue
          BY <3>2 DEF Catalog!NoValue
        <4> QED BY <2>4, <3>2, <3>5, <3>6, <4>1, <4>2 DEF UpToDate, Catalog!Pages
      <3> QED BY <3>7, <3>8, <3>9, <3>10
    <2> QED BY <1>6, <2>8, <2>9, <2>10
  <1>7. CASE Catalog!ConnectionEnds
    <2>1. /\ wire' = <<>> /\ link' = [link EXCEPT !.up = FALSE] /\ server' = [server EXCEPT !.owes = FALSE]
          /\ catalog' = Catalog!Fresh /\ active' = active \ {catalog.value} /\ UNCHANGED <<contents, calls>>
      BY <1>7 DEF Catalog!ConnectionEnds
    <2>2. server' \in [version : Nat, owes : BOOLEAN] /\ ~server'.owes /\ link' \in [up : BOOLEAN, number : Nat]
      BY <2>1 DEF CatalogTyped
    <2>3. /\ catalog' \in Catalogs /\ ~catalog'.running /\ ~catalog'.context /\ catalog'.value = 0
          /\ Len(catalog'.seen) = 0 /\ active' = {}
      BY <2>1 DEF Catalogs, Catalog!Fresh, Catalog!NoValue, OnOffer
    <2>4. CatalogTyped' /\ OnOffer'
      BY <2>1, <2>2, <2>3 DEF CatalogTyped, OnOffer
    <2>5. OneAnswer' /\ UpToDate'
      BY <2>1, <2>2, <2>3 DEF OneAnswer, UpToDate, Catalog!Pages
    <2> QED BY <2>4, <2>5
  <1>8. CASE \E c \in Callers :
               (\E kind \in {"tool", "read"} : Catalog!Hold(c, kind)) \/ Catalog!Call(c) \/ Catalog!Answer(c)
    BY <1>8, CallsKeepCatalog
  <1>9. CASE UNCHANGED catalogVars
    BY <1>9 DEF catalogVars, CatalogTyped, OnOffer, OneAnswer, UpToDate, Page, Announced, AnnouncedAfter
  <1> QED BY <1>1, <1>2, <1>3, <1>4, <1>5, <1>6, <1>7, <1>8, <1>9 DEF Catalog!Next

\* A result that is taken, in a step.
AcceptedOffered ==
    \A c \in Callers : calls[c].step = "sent" /\ calls'[c].step = "accepted" =>
        link.up /\ calls[c].of = catalog.value

LEMMA AcceptedStep == CatalogInv /\ [Catalog!Next]_catalogVars => [AcceptedOffered]_(Catalog!catalogVars)
  <1> SUFFICES ASSUME CatalogInv, Catalog!Next, NEW c \in Callers,
                      calls[c].step = "sent", calls'[c].step = "accepted"
               PROVE  link.up /\ calls[c].of = catalog.value
    BY DEF AcceptedOffered, catalogVars, Catalog!catalogVars
  <1>1. calls' # calls
    OBVIOUS
  <1>2. PICK d \in Callers : (\E kind \in {"tool", "read"} : Catalog!Hold(d, kind)) \/ Catalog!Call(d) \/ Catalog!Answer(d)
    BY <1>1 DEF Catalog!Next, Catalog!ServerChanges, Catalog!ServerAnswers, Catalog!Connect, Catalog!Discover,
                Catalog!Refresh, Catalog!ListChanged, Catalog!PageArrives, Catalog!LastPageArrives,
                Catalog!RefreshFails, Catalog!ConnectionEnds
  <1>3. c = d /\ Catalog!Usable(c)
    BY <1>2 DEF CatalogInv, CatalogTyped, Catalog!Hold, Catalog!Call, Catalog!Answer
  <1> QED BY <1>3 DEF Catalog!Usable, Catalog!SameConnection, CatalogInv, OnOffer

-----------------------------------------------------------------------------
(* McpConnection.                                                          *)

Clients ==
    [status : {"none", "connecting", "connected", "disconnecting", "disconnected", "failed"},
     connect : {"none", "probe", "handshake", "connected", "closing", "refused", "failed", "cancelled"},
     cleanup : {"none", "running", "done"}, process : {"none", "running", "gone"},
     unconfirmed : BOOLEAN, broken : BOOLEAN]
Controllers ==
    [status : {"disconnected", "connecting", "connected", "disconnecting", "failed"},
     generation : 0 .. MaxGenerations, client : 0 .. MaxGenerations,
     blocked : BOOLEAN, exclusive : BOOLEAN, operation : Nat, stale : BOOLEAN, unseen : BOOLEAN]
Attempts ==
    [step : {"none", "release", "read", "binding", "approval", "reread", "rebinding", "connect", "tools",
             "resources", "prompts", "giveup", "dispose"},
     operation : Nat, reread : Nat, of : 0 .. MaxGenerations, aborted : BOOLEAN]
Disconnects ==
    [step : {"none", "attempt", "client", "done"}, of : 0 .. MaxGenerations, exclusive : BOOLEAN]
ConnectionTyped ==
    /\ ctl \in Controllers /\ ctl.client \in {0, ctl.generation}
    /\ attempt \in Attempts
    /\ disconnects \in [1 .. MaxDisconnects -> Disconnects]
    /\ clients \in [Connection!Generations -> Clients]
    /\ configured \in [operation : Nat, trusted : BOOLEAN]

\* A client that is connected, or on its way to it, has a process that nobody cleans up.
Lives(c) ==
    /\ c.status = "connected" => c.process = "running" /\ c.cleanup = "none"
    /\ c.connect \in {"probe", "handshake"} =>
          c.status = "connecting" /\ c.process = "running" /\ c.cleanup = "none" /\ ~c.broken
    /\ c.connect = "closing" => c.cleanup # "none" /\ ~c.broken
\* What the client of a controller that says connected looks like: it lives, or it has met a
\* break of the protocol, of which the controller does not hear.
Shows(c) == c.status = "connected" \/ (c.broken /\ c.status = "failed" /\ c.cleanup # "none")
ConnectedShows == ctl.status = "connected" /\ ctl.client # 0 => Shows(clients[ctl.client])

\* The attempt goes on with the controller's client, which a disconnect may have forgotten.
AttemptFits ==
    /\ attempt.step # "none" => ctl.status # "connected"
    /\ attempt.step \in {"tools", "resources", "prompts", "release", "giveup", "dispose"} => attempt.of # 0
    /\ Connection!Discovering /\ ~attempt.aborted => ctl.client \in {0, attempt.of}
    /\ attempt.step = "connect" => ctl.generation # 0
    /\ \A d \in 1 .. MaxDisconnects : disconnects[d].step = "client" => disconnects[d].of # 0

ConnectionInv ==
    /\ ConnectionTyped
    /\ \A g \in Connection!Generations : Lives(clients[g])
    /\ AttemptFits
    /\ ConnectedShows

LEMMA ConnectionInit == Connection!Init => ConnectionInv
  BY GenerationAssumption DEF Connection!Init, ConnectionInv, ConnectionTyped, Clients, Controllers, Attempts, Disconnects,
         Lives, AttemptFits, Connection!Discovering, ConnectedShows, Connection!Generations,
         Connection!NoClient, Connection!NoAttempt, Connection!NoDisconnect

\* Closing a client starts its cleanup, once.
LEMMA ClosedIs ==
    ASSUME NEW c \in Clients
    PROVE  LET d == Connection!Closed(c) IN
           /\ d \in Clients /\ d.cleanup # "none"
           /\ d.status = c.status /\ d.connect = c.connect /\ d.process = c.process
           /\ d.unconfirmed = c.unconfirmed /\ d.broken = c.broken
  BY DEF Connection!Closed, Clients

\* A client that is disconnected, or at rest, is not connected; its process is as it was.
LEMMA DisconnectingIs ==
    ASSUME NEW c \in Clients, Lives(c)
    PROVE  LET d == Connection!ClientDisconnecting(c) IN
           d \in Clients /\ Lives(d) /\ d.status # "connected" /\ d.process = c.process
  <1> DEFINE k == Connection!Closed(c)
             b == IF k.connect \in {"probe", "handshake"} THEN "closing" ELSE k.connect
             e == [k EXCEPT !.status = "disconnecting", !.connect = b]
  <1>1. /\ k \in Clients /\ k.status = c.status /\ k.connect = c.connect /\ k.process = c.process
        /\ k.cleanup # "none" /\ k.broken = c.broken
    BY ClosedIs
  <1>2. Connection!ClientDisconnecting(c) = IF c.status = "failed" THEN k ELSE e
    BY DEF Connection!ClientDisconnecting
  <1> HIDE DEF k
  <1>3. /\ e \in Clients /\ e.status = "disconnecting" /\ e.connect \notin {"probe", "handshake"}
        /\ e.process = k.process /\ e.cleanup = k.cleanup /\ e.broken = k.broken
        /\ e.connect = "closing" => c.connect \in {"probe", "handshake", "closing"}
    BY <1>1 DEF Clients
  <1> HIDE DEF e
  <1>4. CASE c.status = "failed"
    BY <1>1, <1>2, <1>4 DEF Lives
  <1>5. CASE c.status # "failed"
    BY <1>1, <1>2, <1>3, <1>5 DEF Lives
  <1> QED BY <1>4, <1>5
LEMMA AtRestIs ==
    ASSUME NEW c \in Clients, Lives(c), c.connect \notin {"probe", "handshake"}
    PROVE  LET d == Connection!ClientAtRest(c) IN
           d \in Clients /\ Lives(d) /\ d.status # "connected" /\ d.process = c.process
  BY DEF Connection!ClientAtRest, Clients, Lives

\* What one client does, and the controller hears of it.
LEMMA ClientStep ==
    ASSUME ConnectionInv, NEW g \in Connection!Generations, NEW d \in Clients, Lives(d),
           clients' = [clients EXCEPT ![g] = d], UNCHANGED <<attempt, disconnects, configured>>,
           ctl' \in Controllers, ctl'.client = ctl.client, ctl'.generation = ctl.generation,
           ctl'.status \in {ctl.status, "failed"},
           ctl'.status = "connected" /\ ctl.client = g => Shows(d)
    PROVE  ConnectionInv'
  <1>1. /\ clients' \in [Connection!Generations -> Clients] /\ clients'[g] = d
        /\ \A k \in Connection!Generations : k # g => clients'[k] = clients[k]
    BY DEF ConnectionInv, ConnectionTyped
  <1>2. ConnectionTyped'
    BY <1>1 DEF ConnectionInv, ConnectionTyped
  <1>3. \A k \in Connection!Generations : Lives(clients'[k])
    BY <1>1 DEF ConnectionInv
  <1>4. AttemptFits'
    BY DEF ConnectionInv, AttemptFits, Connection!Discovering
  <1>5. ConnectedShows'
    <2> SUFFICES ASSUME ctl'.status = "connected", ctl'.client # 0 PROVE Shows(clients'[ctl'.client])
      BY DEF ConnectedShows, Shows
    <2>1. CASE ctl.client = g
      BY <1>1, <2>1
    <2>2. CASE ctl.client # g
      <3>1. ctl.client \in Connection!Generations /\ ctl.status = "connected"
        BY <1>2 DEF ConnectionTyped, Controllers, Connection!Generations
      <3> QED BY <1>1, <2>2, <3>1 DEF ConnectionInv, ConnectedShows
    <2> QED BY <2>1, <2>2
  <1> QED BY <1>2, <1>3, <1>4, <1>5 DEF ConnectionInv

\* A transport that fails closes the gate; the client is of no use any more.
LEMMA ClientFailedIs ==
    ASSUME NEW c \in Clients, Lives(c), c.cleanup = "none"
    PROVE  LET d == Connection!ClientFailed(c) IN
           /\ d \in Clients /\ d.status = "failed" /\ d.cleanup # "none" /\ d.process = c.process
           /\ d.connect \notin {"probe", "handshake", "closing"}
  <1> DEFINE k == Connection!Closed(c)
             b == IF k.connect \in {"probe", "handshake"} THEN "refused" ELSE k.connect
             e == [k EXCEPT !.status = "failed", !.connect = b]
  <1>1. k \in Clients /\ k.cleanup # "none" /\ k.connect = c.connect /\ k.process = c.process
    BY ClosedIs
  <1>2. Connection!ClientFailed(c) = e
    BY DEF Connection!ClientFailed
  <1> HIDE DEF k
  <1>3. e \in Clients /\ e.status = "failed" /\ e.cleanup # "none" /\ e.process = c.process
        /\ e.connect \notin {"probe", "handshake", "closing"}
    BY <1>1 DEF Clients, Lives
  <1> HIDE DEF e
  <1> QED BY <1>2, <1>3

LEMMA ClientsKeepInv ==
    ASSUME ConnectionInv, NEW g \in Connection!Generations,
           \/ Connection!Negotiated(g) \/ Connection!Connected(g) \/ Connection!ConnectRefused(g)
           \/ Connection!ConnectGivenUp(g) \/ Connection!ServerExits(g) \/ Connection!ProtocolBreaks(g)
           \/ Connection!Terminated(g) \/ Connection!TerminationUnconfirmed(g)
    PROVE  ConnectionInv'
  <1> DEFINE c == clients[g]
  <1>1. c \in Clients /\ Lives(c) /\ ctl \in Controllers
    BY DEF ConnectionInv, ConnectionTyped
  <1>2. ctl.status = "connected" /\ ctl.client = g => Shows(c)
    BY DEF ConnectionInv, ConnectedShows, Connection!Generations
  <1>3. CASE Connection!Negotiated(g)
    <2> DEFINE d == [c EXCEPT !.connect = "handshake"]
    <2>1. d \in Clients /\ Lives(d) /\ (Shows(c) => Shows(d))
      BY <1>1, <1>3 DEF Clients, Lives, Shows, Connection!Negotiated
    <2>2. clients' = [clients EXCEPT ![g] = d] /\ UNCHANGED <<ctl, attempt, disconnects, configured>>
      BY <1>3 DEF Connection!Negotiated, ConnectionInv, ConnectionTyped
    <2> HIDE DEF d, c
    <2> QED BY <1>1, <1>2, <2>1, <2>2, ClientStep
  <1>4. CASE Connection!Connected(g)
    <2> DEFINE d == [c EXCEPT !.connect = "connected", !.status = "connected"]
    <2>1. d \in Clients /\ Lives(d) /\ Shows(d)
      BY <1>1, <1>4 DEF Clients, Lives, Shows, Connection!Connected
    <2>2. clients' = [clients EXCEPT ![g] = d] /\ UNCHANGED <<ctl, attempt, disconnects, configured>>
      BY <1>4 DEF Connection!Connected, ConnectionInv, ConnectionTyped
    <2> HIDE DEF d, c
    <2> QED BY <1>1, <2>1, <2>2, ClientStep
  <1>5. CASE Connection!ConnectRefused(g)
    <2> DEFINE k == Connection!Closed(c)
               d == [k EXCEPT !.connect = "refused"]
    <2>1. k \in Clients /\ k.status = c.status /\ c.status = "connecting"
      BY <1>1, <1>5, ClosedIs DEF Lives, Connection!ConnectRefused
    <2>2. clients' = [clients EXCEPT ![g] = d] /\ UNCHANGED <<ctl, attempt, disconnects, configured>>
      BY <1>5 DEF Connection!ConnectRefused, ConnectionInv, ConnectionTyped
    <2> HIDE DEF k
    <2>3. d \in Clients /\ Lives(d)
      BY <2>1 DEF Clients, Lives
    <2>4. ~Shows(c)
      BY <2>1 DEF Shows
    <2> HIDE DEF d, c
    <2> QED BY <1>1, <1>2, <2>2, <2>3, <2>4, ClientStep
  <1>6. CASE Connection!ConnectGivenUp(g)
    <2> DEFINE d == Connection!GaveUp(c)
    <2>1. /\ c.connect \in {"closing", "refused"} /\ UNCHANGED <<ctl, attempt, disconnects, configured>>
          /\ c.cleanup = "done" /\ clients' = [clients EXCEPT ![g] = d]
      BY <1>6 DEF Connection!ConnectGivenUp, Connection!CleanedUp
    <2>2. d \in Clients /\ Lives(d) /\ (Shows(c) => Shows(d))
      <3> HIDE DEF c
      <3>1. CASE c.unconfirmed \/ c.connect = "refused"
        BY <1>1, <2>1, <3>1 DEF Clients, Lives, Shows, Connection!GaveUp
      <3>2. CASE ~(c.unconfirmed \/ c.connect = "refused")
        BY <1>1, <2>1, <3>2 DEF Clients, Lives, Shows, Connection!GaveUp
      <3> QED BY <3>1, <3>2
    <2> HIDE DEF c, d
    <2> QED BY <1>1, <1>2, <2>1, <2>2, ClientStep
  <1>7. CASE Connection!ServerExits(g)
    <2> DEFINE k == Connection!ClientFailed(c)
               d == [k EXCEPT !.process = "gone"]
    <2>1. /\ k \in Clients /\ k.status = "failed" /\ k.connect \notin {"probe", "handshake", "closing"}
      BY <1>1, <1>7, ClientFailedIs DEF Connection!ServerExits, Connection!Delivers
    <2>2. clients' = [clients EXCEPT ![g] = d] /\ UNCHANGED <<attempt, disconnects, configured>>
          /\ ctl' = Connection!HostFailure(g, FALSE)
      BY <1>7 DEF Connection!ServerExits
    <2> HIDE DEF k
    <2>3. d \in Clients /\ Lives(d)
      BY <2>1 DEF Clients, Lives
    <2> HIDE DEF d, c
    <2>4. /\ ctl' \in Controllers /\ ctl'.client = ctl.client /\ ctl'.generation = ctl.generation
          /\ ctl'.status \in {ctl.status, "failed"}
      BY <1>1, <2>2 DEF Connection!HostFailure, Connection!ControllerFails, Controllers
    <2>5. ctl.client = g => g = ctl.generation
      BY DEF ConnectionInv, ConnectionTyped, Connection!Generations
    <2>6. g = ctl.generation => ctl'.status # "connected"
      BY <1>1, <2>2 DEF Connection!HostFailure, Connection!ControllerFails, Controllers
    <2> QED BY <1>1, <2>2, <2>3, <2>4, <2>5, <2>6, ClientStep
  <1>8. CASE Connection!ProtocolBreaks(g)
    <2> DEFINE k == Connection!ClientFailed(c)
               d == [k EXCEPT !.broken = TRUE]
    <2>1. /\ k \in Clients /\ k.status = "failed" /\ k.connect \notin {"probe", "handshake", "closing"}
          /\ k.cleanup # "none"
      BY <1>1, <1>8, ClientFailedIs DEF Connection!ProtocolBreaks, Connection!Delivers
    <2>2. clients' = [clients EXCEPT ![g] = d] /\ UNCHANGED <<ctl, attempt, disconnects, configured>>
      BY <1>8 DEF Connection!ProtocolBreaks
    <2> HIDE DEF k
    <2>3. d \in Clients /\ Lives(d) /\ Shows(d)
      BY <2>1 DEF Clients, Lives, Shows
    <2> HIDE DEF d, c
    <2> QED BY <1>1, <2>2, <2>3, ClientStep
  <1>9. CASE Connection!Terminated(g)
    <2> DEFINE d == [c EXCEPT !.cleanup = "done", !.process = "gone"]
    <2>1. d \in Clients /\ Lives(d) /\ (Shows(c) => Shows(d))
      BY <1>1, <1>9 DEF Clients, Lives, Shows, Connection!Terminated
    <2>2. clients' = [clients EXCEPT ![g] = d] /\ UNCHANGED <<ctl, attempt, disconnects, configured>>
      BY <1>9 DEF Connection!Terminated, ConnectionInv, ConnectionTyped
    <2> HIDE DEF d, c
    <2> QED BY <1>1, <1>2, <2>1, <2>2, ClientStep
  <1>10. CASE Connection!TerminationUnconfirmed(g)
    <2> DEFINE d == [c EXCEPT !.cleanup = "done", !.unconfirmed = TRUE, !.status = "failed"]
    <2>1. d \in Clients /\ Lives(d) /\ (Shows(c) => Shows(d))
      BY <1>1, <1>10 DEF Clients, Lives, Shows, Connection!TerminationUnconfirmed
    <2>2. clients' = [clients EXCEPT ![g] = d] /\ UNCHANGED <<attempt, disconnects, configured>>
      BY <1>10 DEF Connection!TerminationUnconfirmed, ConnectionInv, ConnectionTyped
    <2>3. ctl' = Connection!HostFailure(g, TRUE)
      BY <1>10 DEF Connection!TerminationUnconfirmed
    <2> HIDE DEF d
    <2>4. /\ ctl' \in Controllers /\ ctl'.client = ctl.client /\ ctl'.generation = ctl.generation
          /\ ctl'.status \in {ctl.status, "failed"}
      BY <1>1, <2>3 DEF Connection!HostFailure, Connection!ControllerFails, Controllers
    <2>5. ctl'.status = "connected" => ctl.status = "connected"
      BY <2>4
    <2> HIDE DEF c
    <2> QED BY <1>1, <1>2, <2>1, <2>2, <2>4, <2>5, ClientStep
  <1> QED BY <1>3, <1>4, <1>5, <1>6, <1>7, <1>8, <1>9, <1>10

\* A step of the controller, its attempt and the disconnects; the clients keep still.
LEMMA ControllerStep ==
    ASSUME ConnectionInv, UNCHANGED <<clients, configured>>, ctl' \in Controllers, attempt' \in Attempts,
           ctl'.client \in {0, ctl'.generation},
           disconnects' \in [1 .. MaxDisconnects -> Disconnects], AttemptFits',
           \/ ctl'.status # "connected" \/ ctl'.client = 0
           \/ ctl' = ctl
           \/ clients[ctl'.client].status = "connected"
    PROVE  ConnectionInv'
  <1>1. ConnectionTyped'
    BY DEF ConnectionInv, ConnectionTyped
  <1>2. ConnectedShows'
    <2> SUFFICES ASSUME ctl'.status = "connected", ctl'.client # 0 PROVE Shows(clients[ctl'.client])
      BY DEF ConnectedShows, Shows
    <2>1. CASE ctl' = ctl
      BY <2>1 DEF ConnectionInv, ConnectedShows
    <2>2. CASE clients[ctl'.client].status = "connected"
      BY <2>2 DEF Shows
    <2> QED BY <2>1, <2>2
  <1> QED BY <1>1, <1>2 DEF ConnectionInv

\* The attempt ends, or goes on; the controller fails, forgets its client, or stays as it is.
LEMMA AttemptKeepsInv ==
    ASSUME ConnectionInv,
           \/ Connection!Released \/ Connection!ReadConfiguration \/ Connection!WorkspaceBound
           \/ Connection!Approved \/ Connection!NotApproved \/ Connection!ReadAgain \/ Connection!ReadFails
           \/ Connection!ConnectSettles \/ Connection!GivenUp \/ Connection!AttemptDisposed
    PROVE  ConnectionInv'
  <1>1. /\ UNCHANGED <<clients, configured, disconnects>>
        /\ attempt.step # "none"
    BY DEF Connection!Released, Connection!ReadConfiguration, Connection!WorkspaceBound, Connection!Approved,
           Connection!NotApproved, Connection!ReadAgain, Connection!ReadFails, Connection!Reading,
           Connection!ConnectSettles, Connection!GivenUp, Connection!AttemptDisposed, Connection!At
  <1>2. ctl \in Controllers /\ attempt \in Attempts /\ ctl.client \in {0, ctl.generation}
    BY DEF ConnectionInv, ConnectionTyped
  <1> DEFINE Held(h) == /\ h \in Controllers /\ h.client \in {0, h.generation}
                        /\ h.generation = ctl.generation
                        /\ h.status \in {ctl.status, "failed", "disconnected"}
             Goes(a, h) == /\ a \in Attempts
                           /\ \/ a.step = "none"
                              \/ a.step \in {"read", "binding", "approval", "reread", "rebinding"}
                              \/ a.step = "tools" /\ a.of = ctl.client /\ ctl.client # 0 /\ h = ctl
  <1>9. \A b \in BOOLEAN : Held([Connection!ControllerFails(ctl) EXCEPT !.blocked = b])
    BY <1>2 DEF Connection!ControllerFails, Controllers
  <1>b. Held(ctl) /\ Held(Connection!ControllerFails(ctl)) /\ Held(Connection!ControllerCleared(ctl))
        /\ Held([ctl EXCEPT !.client = 0, !.operation = 0]) /\ Held([ctl EXCEPT !.unseen = FALSE])
    <2>1. Held(ctl) /\ Held([ctl EXCEPT !.client = 0, !.operation = 0]) /\ Held([ctl EXCEPT !.unseen = FALSE])
      <3>1. 0 \in 0 .. MaxGenerations
        BY GenerationAssumption
      <3>2. Held(ctl) /\ Held([ctl EXCEPT !.unseen = FALSE])
        BY <1>2 DEF Controllers
      <3>3. Held([ctl EXCEPT !.client = 0, !.operation = 0])
        BY <1>2, <3>1 DEF Controllers
      <3> QED BY <3>2, <3>3
    <2>2. Held(Connection!ControllerFails(ctl))
      BY <1>2 DEF Connection!ControllerFails, Controllers
    <2>3. Held(Connection!ControllerCleared(ctl))
      <3> DEFINE e == [ctl EXCEPT !.status = "disconnected", !.client = 0, !.operation = 0, !.stale = FALSE]
      <3>1. 0 \in 0 .. MaxGenerations
        BY GenerationAssumption
      <3>2. e \in Controllers /\ e.client = 0 /\ e.status = "disconnected" /\ e.generation = ctl.generation
        BY <1>2, <3>1 DEF Controllers
      <3>3. Connection!ControllerCleared(ctl) = e
        BY DEF Connection!ControllerCleared
      <3> QED BY <3>2, <3>3
    <2> QED BY <2>1, <2>2, <2>3
  <1>c. \A h : Goes(Connection!NoAttempt, h)
    BY <1>2, GenerationAssumption DEF Connection!NoAttempt, Attempts, Controllers
  <1>d. \A h : \A s \in {"read", "approval", "reread"} : Goes([attempt EXCEPT !.step = s], h)
    BY <1>2 DEF Attempts
  <1>e. configured.operation \in Nat
    BY DEF ConnectionInv, ConnectionTyped
  <1>3. Held(ctl') /\ Goes(attempt', ctl')
    <2>1. CASE Connection!Released
      <3>1. CASE clients[attempt.of].unconfirmed
        BY <1>9, <1>c, <2>1, <3>1 DEF Connection!Released, Connection!AttemptEnds
      <3>2. CASE ~clients[attempt.of].unconfirmed
        BY <1>b, <1>d, <2>1, <3>2 DEF Connection!Released, Connection!GoOn
      <3> QED BY <3>1, <3>2
    <2>2. CASE Connection!ReadConfiguration
      <3>1. /\ attempt' = [attempt EXCEPT !.step = "binding", !.operation = configured.operation]
            /\ ctl' = ctl
        BY <2>2 DEF Connection!ReadConfiguration
      <3>2. attempt' \in Attempts /\ attempt'.step = "binding"
        BY <1>2, <1>e, <3>1 DEF Attempts
      <3> QED BY <1>b, <3>1, <3>2
    <2>3. CASE Connection!ReadAgain
      <3>1. /\ attempt' = [attempt EXCEPT !.step = "rebinding", !.reread = configured.operation]
            /\ ctl' = [ctl EXCEPT !.unseen = FALSE]
        BY <2>3 DEF Connection!ReadAgain
      <3>2. attempt' \in Attempts /\ attempt'.step = "rebinding"
        BY <1>2, <1>e, <3>1 DEF Attempts
      <3> QED BY <1>b, <3>1, <3>2
    <2>7. CASE Connection!Approved \/ Connection!WorkspaceBound
      BY <1>b, <1>d, <2>7 DEF Connection!Approved, Connection!WorkspaceBound, Connection!GoOn
    <2>4. CASE Connection!NotApproved \/ Connection!ReadFails \/ Connection!GivenUp
      BY <1>b, <1>c, <2>4 DEF Connection!NotApproved, Connection!ReadFails, Connection!GivenUp, Connection!AttemptEnds
    <2>5. CASE Connection!ConnectSettles
      <3>1. CASE clients[Connection!Own].connect = "cancelled"
        BY <1>b, <1>c, <2>5, <3>1 DEF Connection!ConnectSettles, Connection!AttemptEnds
      <3>2. CASE clients[Connection!Own].connect = "failed"
        <4>1. PICK b : attempt' = Connection!NoAttempt /\ b \in BOOLEAN
                       /\ ctl' = [Connection!ControllerFails(ctl) EXCEPT !.blocked = b]
          <5>1. Connection!ControllerFails(ctl).blocked \in BOOLEAN
            BY <1>b DEF Controllers
          <5>2. Connection!Own \in Connection!Generations
            BY <1>2, <2>5 DEF Connection!ConnectSettles, ConnectionInv, AttemptFits, Connection!Own,
                              Connection!Generations, Controllers
          <5>3. clients[Connection!Own].unconfirmed \in BOOLEAN
            BY <5>2 DEF ConnectionInv, ConnectionTyped, Clients
          <5> QED BY <2>5, <3>2, <5>1, <5>3 DEF Connection!ConnectSettles, Connection!AttemptEnds
        <4> QED BY <1>9, <1>c, <4>1
      <3>3. CASE clients[Connection!Own].connect = "connected"
        <4>1. \/ attempt' = Connection!NoAttempt /\ ctl' \in {ctl, Connection!ControllerFails(ctl), Connection!ControllerCleared(ctl)}
              \/ attempt' = [attempt EXCEPT !.step = "tools", !.of = ctl.client] /\ ctl' = ctl /\ ctl.client # 0
          BY <2>5, <3>3 DEF Connection!ConnectSettles, Connection!AttemptEnds, Connection!WithClient
        <4>2. \A n \in 0 .. MaxGenerations : LET a == [attempt EXCEPT !.step = "tools", !.of = n] IN
                 a \in Attempts /\ a.step = "tools" /\ a.of = n
          BY <1>2 DEF Attempts
        <4>3. ctl.client \in 0 .. MaxGenerations
          BY <1>2 DEF Controllers
        <4> QED BY <1>b, <1>c, <4>1, <4>2, <4>3
      <3> QED BY <2>5, <3>1, <3>2, <3>3 DEF Connection!ConnectSettles
    <2>6. CASE Connection!AttemptDisposed
      <3>1. CASE clients[attempt.of].unconfirmed
        BY <1>9, <1>c, <2>6, <3>1 DEF Connection!AttemptDisposed, Connection!AttemptEnds
      <3>2. CASE ~clients[attempt.of].unconfirmed
        BY <1>b, <1>c, <2>6, <3>2 DEF Connection!AttemptDisposed, Connection!AttemptEnds
      <3> QED BY <3>1, <3>2
    <2> QED BY <2>1, <2>2, <2>3, <2>4, <2>5, <2>6, <2>7
  <1>5. ctl.status # "connected"
    BY <1>1 DEF ConnectionInv, AttemptFits
  <1>6. AttemptFits'
    BY <1>1, <1>3, <1>5 DEF ConnectionInv, AttemptFits, Connection!Discovering
  <1>7. disconnects' \in [1 .. MaxDisconnects -> Disconnects]
    BY <1>1 DEF ConnectionInv, ConnectionTyped
  <1> QED BY <1>1, <1>3, <1>5, <1>6, <1>7, ControllerStep

\* A step in which the controller's client is told to go: what is left of the clients.
LEMMA ClientTold ==
    ASSUME ConnectionInv, NEW n \in Connection!Generations, NEW m,
           m \in [Connection!Generations -> Clients],
           \A g \in Connection!Generations : Lives(m[g]) /\ (m[g].process = clients[g].process)
    PROVE  LET w == [m EXCEPT ![n] = Connection!ClientDisconnecting(@)] IN
           /\ w \in [Connection!Generations -> Clients] /\ w[n].status # "connected"
           /\ \A g \in Connection!Generations : Lives(w[g]) /\ w[g].process = clients[g].process
  <1> DEFINE d == Connection!ClientDisconnecting(m[n])
  <1>1. m[n] \in Clients /\ Lives(m[n])
    OBVIOUS
  <1>2. d \in Clients /\ Lives(d) /\ d.status # "connected" /\ d.process = clients[n].process
    BY <1>1, DisconnectingIs
  <1>3. [m EXCEPT ![n] = Connection!ClientDisconnecting(@)] = [m EXCEPT ![n] = d]
    OBVIOUS
  <1> HIDE DEF d
  <1>4. LET w == [m EXCEPT ![n] = d] IN
           /\ w \in [Connection!Generations -> Clients] /\ w[n].status # "connected"
           /\ \A g \in Connection!Generations : Lives(w[g]) /\ w[g].process = clients[g].process
    BY <1>2
  <1> QED BY <1>3, <1>4

\* The controller's client has been told to go; the controller does not say connected.
LEMMA TellingStep ==
    ASSUME ConnectionInv, clients' \in [Connection!Generations -> Clients],
           \A g \in Connection!Generations : Lives(clients'[g]),
           ctl' \in Controllers, ctl'.client \in {0, ctl'.generation}, ctl'.status # "connected",
           attempt' \in Attempts, disconnects' \in [1 .. MaxDisconnects -> Disconnects],
           configured' \in [operation : Nat, trusted : BOOLEAN], AttemptFits'
    PROVE  ConnectionInv'
  BY DEF ConnectionInv, ConnectionTyped, ConnectedShows

\* The attempt tells the controller's client to go, and waits for it, or has none to tell.
LEMMA GivingUpKeepsInv ==
    ASSUME ConnectionInv, ctl.status # "connected", UNCHANGED <<configured, disconnects>>,
           NEW s \in {"release", "giveup", "dispose"}, ctl.client # 0,
           attempt' = [attempt EXCEPT !.step = s, !.of = ctl.client],
           clients' = [clients EXCEPT ![ctl.client] = Connection!ClientDisconnecting(@)], UNCHANGED ctl
    PROVE  ConnectionInv' /\ \A g \in Connection!Generations : clients'[g].process = clients[g].process
  <1>1. ctl \in Controllers /\ attempt \in Attempts /\ ctl.client \in {0, ctl.generation}
        /\ clients \in [Connection!Generations -> Clients]
        /\ disconnects \in [1 .. MaxDisconnects -> Disconnects] /\ configured \in [operation : Nat, trusted : BOOLEAN]
    BY DEF ConnectionInv, ConnectionTyped
  <1>2. ctl.client \in Connection!Generations /\ ctl.client \in 0 .. MaxGenerations
    BY <1>1 DEF Controllers, Connection!Generations
  <1>3. /\ clients' \in [Connection!Generations -> Clients]
        /\ \A g \in Connection!Generations : Lives(clients'[g]) /\ clients'[g].process = clients[g].process
    BY <1>1, <1>2, ClientTold DEF ConnectionInv
  <1>4. attempt' \in Attempts /\ attempt'.step = s /\ attempt'.of = ctl.client
    BY <1>1, <1>2 DEF Attempts
  <1>5. AttemptFits'
    BY <1>4 DEF ConnectionInv, AttemptFits, Connection!Discovering
  <1> QED BY <1>1, <1>3, <1>4, <1>5, TellingStep

\* The attempt ends without a client to tell, or has not begun.
LEMMA EndingKeepsInv ==
    ASSUME ConnectionInv, UNCHANGED <<clients, configured, disconnects>>,
           \/ attempt' = Connection!NoAttempt
           \/ attempt' = attempt /\ ctl'.status # "connected"
           \/ attempt' = [attempt EXCEPT !.step = "read"] /\ ctl' = ctl /\ ctl.status # "connected",
           \/ ctl' = ctl
           \/ ctl' = Connection!ControllerFails(ctl)
           \/ ctl' = Connection!ControllerCleared(ctl)
    PROVE  ConnectionInv'
  <1>1. ctl \in Controllers /\ attempt \in Attempts /\ ctl.client \in {0, ctl.generation}
        /\ disconnects \in [1 .. MaxDisconnects -> Disconnects]
    BY DEF ConnectionInv, ConnectionTyped
  <1>2. /\ ctl' \in Controllers /\ ctl'.client \in {0, ctl.client} /\ ctl'.generation = ctl.generation
        /\ ctl' = ctl \/ ctl'.status \in {"failed", "disconnected"}
    <2>1. CASE ctl' = ctl
      BY <1>1, <2>1
    <2>2. CASE ctl' = Connection!ControllerFails(ctl)
      BY <1>1, <2>2 DEF Connection!ControllerFails, Controllers
    <2>3. CASE ctl' = Connection!ControllerCleared(ctl)
      <3> DEFINE e == [ctl EXCEPT !.status = "disconnected", !.client = 0, !.operation = 0, !.stale = FALSE]
      <3>1. 0 \in 0 .. MaxGenerations
        BY GenerationAssumption
      <3>2. e \in Controllers /\ e.client = 0 /\ e.status = "disconnected" /\ e.generation = ctl.generation
        BY <1>1, <3>1 DEF Controllers
      <3>3. ctl' = e
        BY <2>3 DEF Connection!ControllerCleared
      <3> HIDE DEF e
      <3> QED BY <3>2, <3>3
    <2> QED BY <2>1, <2>2, <2>3
  <1>3. /\ attempt' \in Attempts
        /\ \/ attempt'.step = "none"
           \/ attempt' = attempt /\ ctl'.status # "connected"
           \/ attempt'.step = "read" /\ ctl'.status # "connected"
    <2>1. Connection!NoAttempt \in Attempts /\ Connection!NoAttempt.step = "none"
      BY GenerationAssumption DEF Connection!NoAttempt, Attempts
    <2>2. [attempt EXCEPT !.step = "read"] \in Attempts /\ [attempt EXCEPT !.step = "read"].step = "read"
      BY <1>1 DEF Attempts
    <2> QED BY <1>1, <2>1, <2>2
  <1>4. AttemptFits'
    BY <1>2, <1>3 DEF ConnectionInv, AttemptFits, Connection!Discovering
  <1> QED BY <1>1, <1>2, <1>3, <1>4, ControllerStep

LEMMA StartKeepsInv == ConnectionInv /\ Connection!StartServer => ConnectionInv'
  <1> SUFFICES ASSUME ConnectionInv, Connection!StartServer PROVE ConnectionInv'
    OBVIOUS
  <1>1. ctl \in Controllers /\ attempt \in Attempts /\ ctl.client \in {0, ctl.generation}
        /\ clients \in [Connection!Generations -> Clients]
        /\ disconnects \in [1 .. MaxDisconnects -> Disconnects] /\ configured \in [operation : Nat, trusted : BOOLEAN]
    BY DEF ConnectionInv, ConnectionTyped
  <1>2. UNCHANGED <<configured, disconnects>> /\ ctl.generation < MaxGenerations /\ attempt.step = "rebinding"
    BY DEF Connection!StartServer, Connection!At
  <1>3. CASE Connection!StillApproved
    <2> DEFINE g == ctl.generation + 1
               d == [Connection!NoClient EXCEPT !.status = "connecting", !.connect = "probe", !.process = "running"]
    <2>1. g \in Connection!Generations /\ g \in 0 .. MaxGenerations /\ g # 0
      BY <1>1, <1>2, GenerationAssumption DEF Controllers, Connection!Generations
    <2>2. d \in Clients /\ Lives(d)
      BY DEF Connection!NoClient, Clients, Lives
    <2>3. /\ ctl' = [ctl EXCEPT !.generation = g, !.status = "connecting", !.client = g,
                               !.operation = attempt.operation, !.stale = FALSE]
          /\ clients' = [clients EXCEPT ![g] = d] /\ attempt' = [attempt EXCEPT !.step = "connect"]
      BY <1>3 DEF Connection!StartServer, Connection!GoOn
    <2> HIDE DEF d, g
    <2>4. /\ ctl' \in Controllers /\ ctl'.client = g /\ ctl'.generation = g /\ ctl'.status = "connecting"
      BY <1>1, <2>1, <2>3 DEF Controllers, Attempts
    <2>5. attempt' \in Attempts /\ attempt'.step = "connect"
      BY <1>1, <2>3 DEF Attempts
    <2>6. clients' \in [Connection!Generations -> Clients] /\ \A k \in Connection!Generations : Lives(clients'[k])
      BY <1>1, <2>1, <2>2, <2>3 DEF ConnectionInv
    <2>7. AttemptFits'
      BY <1>2, <2>1, <2>4, <2>5 DEF ConnectionInv, AttemptFits, Connection!Discovering
    <2> QED BY <1>1, <1>2, <2>4, <2>5, <2>6, <2>7, TellingStep
  <1>4. CASE ~Connection!StillApproved
    <2>1. attempt' = Connection!NoAttempt /\ ctl' = Connection!ControllerFails(ctl) /\ UNCHANGED clients
      BY <1>4 DEF Connection!StartServer, Connection!AttemptEnds
    <2>2. UNCHANGED <<clients, configured, disconnects>>
      BY <1>2, <2>1
    <2> QED BY <2>1, <2>2, EndingKeepsInv
  <1> QED BY <1>3, <1>4

LEMMA DiscoveredKeepsInv == ConnectionInv /\ Connection!Discovered => ConnectionInv'
  <1> SUFFICES ASSUME ConnectionInv, Connection!Discovered PROVE ConnectionInv'
    OBVIOUS
  <1>1. ctl \in Controllers /\ attempt \in Attempts /\ ctl.client \in {0, ctl.generation}
        /\ disconnects \in [1 .. MaxDisconnects -> Disconnects]
    BY DEF ConnectionInv, ConnectionTyped
  <1>2. /\ UNCHANGED <<clients, configured, disconnects>> /\ ~attempt.aborted
        /\ Connection!Discovering /\ clients[attempt.of].status = "connected"
        /\ ctl.client \in {0, attempt.of} /\ ctl.status # "connected"
    BY DEF Connection!Discovered, Connection!Usable, ConnectionInv, AttemptFits, Connection!Discovering
  <1>3. CASE attempt.step = "prompts" /\ ctl.status # "failed"
    <2>1. attempt' = Connection!NoAttempt /\ ctl' = [ctl EXCEPT !.status = "connected", !.stale = FALSE]
      BY <1>3 DEF Connection!Discovered, Connection!AttemptEnds
    <2>2. Connection!NoAttempt \in Attempts /\ Connection!NoAttempt.step = "none"
      BY GenerationAssumption DEF Connection!NoAttempt, Attempts
    <2>3. ctl' \in Controllers /\ ctl'.client = ctl.client /\ ctl'.generation = ctl.generation
      BY <1>1, <2>1 DEF Controllers
    <2>4. AttemptFits'
      BY <1>2, <2>1, <2>2 DEF ConnectionInv, AttemptFits, Connection!Discovering
    <2> QED BY <1>1, <1>2, <2>1, <2>2, <2>3, <2>4, ControllerStep
  <1>4. CASE attempt.step = "prompts" /\ ctl.status = "failed"
    <2>1. attempt' = Connection!NoAttempt /\ ctl' = ctl
      BY <1>4 DEF Connection!Discovered, Connection!AttemptEnds
    <2>2. UNCHANGED <<clients, configured, disconnects>>
      BY <1>2
    <2> QED BY <2>1, <2>2, EndingKeepsInv
  <1>5. CASE attempt.step # "prompts" /\ ctl.client = 0
    <2>1. attempt' = Connection!NoAttempt /\ ctl' = Connection!ControllerFails(ctl)
      BY <1>5 DEF Connection!Discovered, Connection!AttemptEnds
    <2>2. UNCHANGED <<clients, configured, disconnects>>
      BY <1>2
    <2> QED BY <2>1, <2>2, EndingKeepsInv
  <1>6. CASE attempt.step # "prompts" /\ ctl.client # 0
    <2>1. PICK s \in {"resources", "prompts"} : attempt' = [attempt EXCEPT !.step = s, !.of = ctl.client]
      BY <1>6 DEF Connection!Discovered, Connection!WithClient
    <2>2. ctl' = ctl
      BY <1>6 DEF Connection!Discovered
    <2>3. ctl.client \in 0 .. MaxGenerations
      BY <1>1 DEF Controllers
    <2>4. attempt' \in Attempts /\ attempt'.step = s /\ attempt'.of = ctl.client
      BY <1>1, <2>1, <2>3 DEF Attempts
    <2>5. AttemptFits'
      BY <1>2, <1>6, <2>2, <2>4 DEF ConnectionInv, AttemptFits, Connection!Discovering
    <2> QED BY <1>1, <1>2, <2>2, <2>4, <2>5, ControllerStep
  <1> QED BY <1>3, <1>4, <1>5, <1>6

\* An attempt that is aborted keeps what it is.
LEMMA AbortedIs ==
    ASSUME NEW a \in Attempts
    PROVE  LET b == Connection!Aborted(a) IN
           b \in Attempts /\ b.step = a.step /\ b.of = a.of /\ (b.step = "none" \/ b.aborted)
  BY DEF Connection!Aborted, Attempts

\* The gate is closed by the abort: no client is more alive for it.
LEMMA GateIs ==
    ASSUME ConnectionInv
    PROVE  /\ Connection!GateClosedByAbort \in [Connection!Generations -> Clients]
           /\ \A g \in Connection!Generations :
                 Lives(Connection!GateClosedByAbort[g]) /\ Connection!GateClosedByAbort[g].process = clients[g].process
                 /\ (Connection!GateClosedByAbort[g].status = clients[g].status)
  <1> DEFINE n == Connection!Own
             k == Connection!Closed(clients[n])
             d == [k EXCEPT !.connect = "closing"]
  <1>1. clients \in [Connection!Generations -> Clients] /\ \A g \in Connection!Generations : Lives(clients[g])
    BY DEF ConnectionInv, ConnectionTyped
  <1>2. CASE attempt.step = "connect" /\ clients[Connection!Own].connect \in {"probe", "handshake"}
    <2>1. n \in Connection!Generations
      BY <1>2 DEF ConnectionInv, ConnectionTyped, AttemptFits, Controllers, Connection!Own, Connection!Generations
    <2>2. k \in Clients /\ k.status = clients[n].status /\ k.process = clients[n].process
          /\ clients[n].status = "connecting" /\ k.cleanup # "none" /\ ~k.broken
      BY <1>1, <1>2, <2>1, ClosedIs DEF Lives
    <2>3. Connection!GateClosedByAbort = [clients EXCEPT ![n] = d]
      BY <1>2 DEF Connection!GateClosedByAbort
    <2> HIDE DEF k, n
    <2>4. d \in Clients /\ Lives(d) /\ d.status = clients[n].status /\ d.process = clients[n].process
      BY <2>2 DEF Clients, Lives
    <2> HIDE DEF d
    <2> QED BY <1>1, <2>1, <2>3, <2>4
  <1>3. CASE ~(attempt.step = "connect" /\ clients[Connection!Own].connect \in {"probe", "handshake"})
    BY <1>1, <1>3 DEF Connection!GateClosedByAbort
  <1> QED BY <1>2, <1>3

\* A disconnect: the attempt is aborted, and the controller's client, if there is one, told to go.
LEMMA DisconnectKeepsInv ==
    ASSUME ConnectionInv, NEW d \in 1 .. MaxDisconnects, NEW alone \in BOOLEAN, NEW kept \in BOOLEAN,
           attempt' = Connection!Aborted(attempt),
           disconnects' = [disconnects EXCEPT ![d] =
               [step |-> IF ctl.client = 0 THEN "attempt" ELSE "client", of |-> ctl.client, exclusive |-> alone]],
           clients' = IF ctl.client = 0 THEN Connection!GateClosedByAbort
                      ELSE [Connection!GateClosedByAbort EXCEPT ![ctl.client] = Connection!ClientDisconnecting(@)],
           ctl' = [ctl EXCEPT !.exclusive = kept,
                              !.status = IF ctl.client = 0 THEN ctl.status ELSE "disconnecting"],
           configured' \in [operation : Nat, trusted : BOOLEAN]
    PROVE  ConnectionInv' /\ \A g \in Connection!Generations : clients'[g].process = clients[g].process
  <1>1. ctl \in Controllers /\ attempt \in Attempts /\ ctl.client \in {0, ctl.generation}
        /\ disconnects \in [1 .. MaxDisconnects -> Disconnects]
    BY DEF ConnectionInv, ConnectionTyped
  <1>2. /\ ctl' \in Controllers /\ ctl'.client = ctl.client /\ ctl'.generation = ctl.generation
        /\ ctl'.status = IF ctl.client = 0 THEN ctl.status ELSE "disconnecting"
    BY <1>1 DEF Controllers
  <1>3. /\ attempt' \in Attempts /\ attempt'.step = attempt.step /\ attempt'.of = attempt.of
        /\ attempt'.step = "none" \/ attempt'.aborted
    BY <1>1, AbortedIs
  <1>4. /\ disconnects' \in [1 .. MaxDisconnects -> Disconnects]
        /\ \A e \in 1 .. MaxDisconnects : disconnects'[e].step = "client" =>
              (disconnects'[e].of = ctl.client /\ ctl.client # 0) \/ disconnects'[e] = disconnects[e]
    <2> DEFINE x == [step |-> IF ctl.client = 0 THEN "attempt" ELSE "client", of |-> ctl.client, exclusive |-> alone]
    <2>1. x \in Disconnects /\ x.of = ctl.client /\ (x.step = "client" => ctl.client # 0)
      BY <1>1 DEF Disconnects, Controllers
    <2>2. disconnects' = [disconnects EXCEPT ![d] = x]
      OBVIOUS
    <2> HIDE DEF x
    <2> QED BY <1>1, <2>1, <2>2
  <1>5. AttemptFits'
    BY <1>2, <1>3, <1>4 DEF ConnectionInv, AttemptFits, Connection!Discovering
  <1>6. /\ clients' \in [Connection!Generations -> Clients]
        /\ \A g \in Connection!Generations : Lives(clients'[g]) /\ clients'[g].process = clients[g].process
    <2>1. CASE ctl.client = 0
      BY <2>1, GateIs
    <2>2. CASE ctl.client # 0
      <3>1. ctl.client \in Connection!Generations
        BY <1>1, <2>2 DEF Controllers, Connection!Generations
      <3> QED BY <2>2, <3>1, GateIs, ClientTold
    <2> QED BY <2>1, <2>2
  <1>7. CASE ctl.client # 0
    BY <1>2, <1>3, <1>4, <1>5, <1>6, <1>7, TellingStep DEF Controllers, ConnectionInv, ConnectionTyped
  <1>8. CASE ctl.client = 0
    <2>1. ConnectionTyped'
      BY <1>1, <1>2, <1>3, <1>4, <1>6 DEF ConnectionTyped
    <2>2. ConnectedShows'
      BY <1>2, <1>8 DEF ConnectedShows
    <2> QED BY <1>5, <1>6, <2>1, <2>2 DEF ConnectionInv
  <1> QED BY <1>6, <1>7, <1>8

LEMMA ConnectKeepsInv == ConnectionInv /\ Connection!Connect => ConnectionInv'
  <1> SUFFICES ASSUME ConnectionInv, Connection!Connect PROVE ConnectionInv'
    OBVIOUS
  <1>1. UNCHANGED <<configured, disconnects>> /\ ctl \in Controllers
    BY DEF Connection!Connect, ConnectionInv, ConnectionTyped
  <1>2. Connection!ControllerFails(ctl).status = "failed"
    BY <1>1 DEF Connection!ControllerFails, Controllers
  <1>3. CASE ctl.exclusive \/ ctl.blocked
    <2>1. attempt' = attempt /\ ctl' = Connection!ControllerFails(ctl) /\ UNCHANGED clients
      BY <1>3 DEF Connection!Connect
    <2>2. UNCHANGED <<clients, configured, disconnects>>
      BY <1>1, <2>1
    <2> QED BY <1>2, <2>1, <2>2, EndingKeepsInv
  <1>4. CASE ~ctl.exclusive /\ ~ctl.blocked /\ ctl.status = "failed" /\ ctl.client # 0
    <2>1. /\ attempt' = [attempt EXCEPT !.step = "release", !.of = ctl.client] /\ ctl' = ctl
          /\ clients' = [clients EXCEPT ![ctl.client] = Connection!ClientDisconnecting(@)]
      BY <1>4 DEF Connection!Connect, Connection!WithClient
    <2> QED BY <1>1, <1>4, <2>1, GivingUpKeepsInv
  <1>5. CASE ~ctl.exclusive /\ ~ctl.blocked /\ ~(ctl.status = "failed" /\ ctl.client # 0)
    <2>1. /\ attempt' = [attempt EXCEPT !.step = "read"] /\ ctl' = ctl /\ UNCHANGED clients
          /\ ctl.status # "connected"
      BY <1>5 DEF Connection!Connect, Connection!GoOn
    <2>2. UNCHANGED <<clients, configured, disconnects>>
      BY <1>1, <2>1
    <2> QED BY <2>1, <2>2, EndingKeepsInv
  <1> QED BY <1>3, <1>4, <1>5

LEMMA AbandonKeepsInv ==
    ASSUME ConnectionInv, Connection!DiscoveryFails \/ Connection!AttemptAborts
    PROVE  ConnectionInv'
  <1>1. UNCHANGED <<configured, disconnects>> /\ ctl.status # "connected"
    BY DEF Connection!DiscoveryFails, Connection!AttemptAborts, Connection!Reading, ConnectionInv, AttemptFits,
           Connection!Discovering
  <1>2. CASE ctl.client = 0 \/ (Connection!AttemptAborts /\ attempt.step = "approval")
    <2>1. /\ attempt' = Connection!NoAttempt /\ UNCHANGED clients
          /\ \/ ctl' = Connection!ControllerFails(ctl)
             \/ ctl' = Connection!ControllerCleared(ctl)
      BY <1>2 DEF Connection!DiscoveryFails, Connection!AttemptAborts, Connection!AttemptEnds
    <2>2. UNCHANGED <<clients, configured, disconnects>>
      BY <1>1, <2>1
    <2> QED BY <1>2, <2>1, <2>2, EndingKeepsInv
  <1>3. CASE ctl.client # 0 /\ ~(Connection!AttemptAborts /\ attempt.step = "approval")
    <2>1. PICK s \in {"release", "giveup", "dispose"} :
             /\ attempt' = [attempt EXCEPT !.step = s, !.of = ctl.client] /\ ctl' = ctl
             /\ clients' = [clients EXCEPT ![ctl.client] = Connection!ClientDisconnecting(@)]
      BY <1>3 DEF Connection!DiscoveryFails, Connection!AttemptAborts, Connection!WithClient
    <2> QED BY <1>1, <1>3, <2>1, GivingUpKeepsInv
  <1> QED BY <1>2, <1>3

\* A disconnect that is over: the controller is cleared, or says that it failed.
LEMMA EndedIs ==
    ASSUME ConnectionInv, NEW d \in 1 .. MaxDisconnects, NEW h \in Controllers, h.client \in {0, h.generation},
           Connection!DisconnectEnds(d, h)
    PROVE  /\ ctl' \in Controllers /\ ctl'.client = h.client /\ ctl'.generation = h.generation
           /\ ctl'.status = h.status
           /\ disconnects' \in [1 .. MaxDisconnects -> Disconnects]
           /\ \A e \in 1 .. MaxDisconnects : disconnects'[e].step = "client" => disconnects'[e] = disconnects[e]
  <1>1. PICK b : ctl' = [h EXCEPT !.exclusive = b] /\ b \in BOOLEAN
    BY DEF Connection!DisconnectEnds, Controllers
  <1>2. disconnects' = [disconnects EXCEPT ![d] = [disconnects[d] EXCEPT !.step = "done"]]
    BY DEF Connection!DisconnectEnds, ConnectionInv, ConnectionTyped
  <1>3. [disconnects[d] EXCEPT !.step = "done"] \in Disconnects /\ [disconnects[d] EXCEPT !.step = "done"].step = "done"
    BY DEF ConnectionInv, ConnectionTyped, Disconnects
  <1>4. /\ ctl' \in Controllers /\ ctl'.client = h.client /\ ctl'.generation = h.generation
        /\ ctl'.status = h.status
    BY <1>1 DEF Controllers
  <1> DEFINE x == [disconnects[d] EXCEPT !.step = "done"]
  <1> HIDE DEF x
  <1>5. disconnects' = [disconnects EXCEPT ![d] = x] /\ x \in Disconnects /\ x.step = "done"
    BY <1>2, <1>3 DEF x
  <1>6. disconnects' \in [1 .. MaxDisconnects -> Disconnects]
    BY <1>5 DEF ConnectionInv, ConnectionTyped
  <1>7. \A e \in 1 .. MaxDisconnects : disconnects'[e].step = "client" => disconnects'[e] = disconnects[e]
    BY <1>5 DEF ConnectionInv, ConnectionTyped
  <1> QED BY <1>4, <1>6, <1>7

\* What the end of a disconnect makes of the controller.
LEMMA ClearedIs ==
    ASSUME ConnectionInv
    PROVE  /\ Connection!ControllerCleared(ctl) \in Controllers
           /\ Connection!ControllerCleared(ctl).client = 0
           /\ Connection!ControllerCleared(ctl).generation = ctl.generation
           /\ Connection!ControllerCleared(ctl).status = "disconnected"
           /\ [Connection!ControllerFails(ctl) EXCEPT !.blocked = TRUE] \in Controllers
           /\ [Connection!ControllerFails(ctl) EXCEPT !.blocked = TRUE].client = ctl.client
           /\ [Connection!ControllerFails(ctl) EXCEPT !.blocked = TRUE].generation = ctl.generation
           /\ [Connection!ControllerFails(ctl) EXCEPT !.blocked = TRUE].status = "failed"
  <1>1. ctl \in Controllers /\ 0 \in 0 .. MaxGenerations
    BY GenerationAssumption DEF ConnectionInv, ConnectionTyped
  <1>2. /\ Connection!ControllerCleared(ctl) \in Controllers
        /\ Connection!ControllerCleared(ctl).client = 0
        /\ Connection!ControllerCleared(ctl).generation = ctl.generation
        /\ Connection!ControllerCleared(ctl).status = "disconnected"
    BY <1>1 DEF Connection!ControllerCleared, Controllers
  <1> DEFINE e == [ctl EXCEPT !.status = "failed", !.blocked = TRUE]
  <1>3. [Connection!ControllerFails(ctl) EXCEPT !.blocked = TRUE] = e
    BY <1>1 DEF Connection!ControllerFails, Controllers
  <1>4. e \in Controllers /\ e.client = ctl.client /\ e.generation = ctl.generation /\ e.status = "failed"
    BY <1>1 DEF Controllers
  <1> HIDE DEF e
  <1> QED BY <1>2, <1>3, <1>4

LEMMA DisconnectsKeepInv ==
    ASSUME ConnectionInv, NEW d \in 1 .. MaxDisconnects,
           \/ \E alone \in BOOLEAN : Connection!Disconnect(d, alone)
           \/ Connection!NothingToDisconnect(d) \/ Connection!ClientGone(d) \/ Connection!LoseTrust(d)
    PROVE  ConnectionInv'
  <1>1. /\ ctl \in Controllers /\ attempt \in Attempts /\ ctl.client \in {0, ctl.generation}
        /\ clients \in [Connection!Generations -> Clients] /\ configured \in [operation : Nat, trusted : BOOLEAN]
    BY DEF ConnectionInv, ConnectionTyped
  <1>2. ASSUME NEW alone \in BOOLEAN, Connection!Disconnect(d, alone) PROVE ConnectionInv'
    <2>1. PICK kept \in BOOLEAN : ctl' = [ctl EXCEPT !.exclusive = kept,
                              !.status = IF ctl.client = 0 THEN ctl.status ELSE "disconnecting"]
      BY <1>1, <1>2 DEF Connection!Disconnect, Controllers
    <2>2. /\ attempt' = Connection!Aborted(attempt)
          /\ disconnects' = [disconnects EXCEPT ![d] =
               [step |-> IF ctl.client = 0 THEN "attempt" ELSE "client", of |-> ctl.client, exclusive |-> alone]]
          /\ clients' = IF ctl.client = 0 THEN Connection!GateClosedByAbort
                      ELSE [Connection!GateClosedByAbort EXCEPT ![ctl.client] = Connection!ClientDisconnecting(@)]
          /\ configured' \in [operation : Nat, trusted : BOOLEAN]
      BY <1>1, <1>2 DEF Connection!Disconnect
    <2> QED BY <2>1, <2>2, DisconnectKeepsInv
  <1>3. CASE Connection!LoseTrust(d)
    <2>1. PICK kept \in BOOLEAN : ctl' = [ctl EXCEPT !.exclusive = kept,
                              !.status = IF ctl.client = 0 THEN ctl.status ELSE "disconnecting"]
      <3>1. ctl' = [ctl EXCEPT !.exclusive = ctl.exclusive,
                              !.status = IF ctl.client = 0 THEN ctl.status ELSE "disconnecting"]
        BY <1>1, <1>3 DEF Connection!LoseTrust, Controllers
      <3> QED BY <1>1, <3>1 DEF Controllers
    <2>2. /\ attempt' = Connection!Aborted(attempt)
          /\ disconnects' = [disconnects EXCEPT ![d] =
               [step |-> IF ctl.client = 0 THEN "attempt" ELSE "client", of |-> ctl.client, exclusive |-> FALSE]]
          /\ clients' = IF ctl.client = 0 THEN Connection!GateClosedByAbort
                      ELSE [Connection!GateClosedByAbort EXCEPT ![ctl.client] = Connection!ClientDisconnecting(@)]
          /\ configured' \in [operation : Nat, trusted : BOOLEAN]
      BY <1>1, <1>3 DEF Connection!LoseTrust
    <2> QED BY <2>1, <2>2, DisconnectKeepsInv
  <1>4. CASE Connection!NothingToDisconnect(d)
    <2>1. /\ UNCHANGED <<clients, configured>> /\ attempt' = attempt
          /\ Connection!DisconnectEnds(d, Connection!ControllerCleared(ctl))
      BY <1>4 DEF Connection!NothingToDisconnect
    <2>2. /\ ctl' \in Controllers /\ ctl'.client = 0 /\ ctl'.status = "disconnected"
          /\ ctl'.generation = ctl.generation
          /\ disconnects' \in [1 .. MaxDisconnects -> Disconnects]
          /\ \A e \in 1 .. MaxDisconnects : disconnects'[e].step = "client" => disconnects'[e] = disconnects[e]
      BY <2>1, ClearedIs, EndedIs
    <2>3. AttemptFits'
      BY <2>1, <2>2 DEF ConnectionInv, AttemptFits, Connection!Discovering
    <2> QED BY <1>1, <2>1, <2>2, <2>3, ControllerStep
  <1>5. CASE Connection!ClientGone(d)
    <2> DEFINE g == disconnects[d].of
               c == Connection!ClientAtRest(clients[g])
    <2>1. /\ UNCHANGED configured /\ attempt' = attempt
          /\ clients' = [clients EXCEPT ![g] = c] /\ clients[g].connect \notin {"probe", "handshake"}
          /\ disconnects[d].step = "client"
          /\ \/ Connection!DisconnectEnds(d, Connection!ControllerCleared(ctl))
             \/ Connection!DisconnectEnds(d, [Connection!ControllerFails(ctl) EXCEPT !.blocked = TRUE])
      BY <1>5 DEF Connection!ClientGone, Connection!ClientDisconnected
    <2>2. g \in Connection!Generations
      BY <2>1 DEF ConnectionInv, ConnectionTyped, AttemptFits, Disconnects, Connection!Generations
    <2>3. c \in Clients /\ Lives(c)
      BY <1>1, <2>1, <2>2, AtRestIs DEF ConnectionInv
    <2>4. /\ ctl' \in Controllers /\ ctl'.client \in {0, ctl.client} /\ ctl'.status \in {"disconnected", "failed"}
          /\ ctl'.generation = ctl.generation
          /\ disconnects' \in [1 .. MaxDisconnects -> Disconnects]
          /\ \A e \in 1 .. MaxDisconnects : disconnects'[e].step = "client" => disconnects'[e] = disconnects[e]
      <3>1. CASE Connection!DisconnectEnds(d, Connection!ControllerCleared(ctl))
        BY <3>1, ClearedIs, EndedIs
      <3>2. CASE Connection!DisconnectEnds(d, [Connection!ControllerFails(ctl) EXCEPT !.blocked = TRUE])
        BY <1>1, <3>2, ClearedIs, EndedIs
      <3> QED BY <2>1, <3>1, <3>2
    <2> HIDE DEF c, g
    <2>5. /\ clients' \in [Connection!Generations -> Clients]
          /\ \A k \in Connection!Generations : Lives(clients'[k])
      BY <1>1, <2>1, <2>2, <2>3 DEF ConnectionInv
    <2>6. AttemptFits'
      BY <2>1, <2>4 DEF ConnectionInv, AttemptFits, Connection!Discovering
    <2>7. ctl'.client \in {0, ctl'.generation} /\ attempt' \in Attempts /\ ctl'.status # "connected"
          /\ configured' \in [operation : Nat, trusted : BOOLEAN]
      BY <1>1, <2>1, <2>4
    <2> QED BY <2>4, <2>5, <2>6, <2>7, TellingStep
  <1> QED BY <1>2, <1>3, <1>4, <1>5

LEMMA ConnectionNext == ConnectionInv /\ [Connection!Next]_connectionVars => ConnectionInv'
  <1> SUFFICES ASSUME ConnectionInv, [Connection!Next]_connectionVars PROVE ConnectionInv'
    OBVIOUS
  <1>1. ctl \in Controllers /\ attempt \in Attempts /\ ctl.client \in {0, ctl.generation}
        /\ disconnects \in [1 .. MaxDisconnects -> Disconnects] /\ DOMAIN disconnects = 1 .. MaxDisconnects
        /\ configured \in [operation : Nat, trusted : BOOLEAN]
    BY DEF ConnectionInv, ConnectionTyped
  <1>2. CASE \E g \in Connection!Generations :
               \/ Connection!Negotiated(g) \/ Connection!Connected(g) \/ Connection!ConnectRefused(g)
               \/ Connection!ConnectGivenUp(g) \/ Connection!ServerExits(g) \/ Connection!ProtocolBreaks(g)
               \/ Connection!Terminated(g) \/ Connection!TerminationUnconfirmed(g)
    BY <1>2, ClientsKeepInv
  <1>3. CASE \/ Connection!Released \/ Connection!ReadConfiguration \/ Connection!WorkspaceBound
             \/ Connection!Approved \/ Connection!NotApproved \/ Connection!ReadAgain \/ Connection!ReadFails
             \/ Connection!ConnectSettles \/ Connection!GivenUp \/ Connection!AttemptDisposed
    BY <1>3, AttemptKeepsInv
  <1>4. CASE Connection!Connect \/ Connection!StartServer \/ Connection!Discovered
    BY <1>4, ConnectKeepsInv, StartKeepsInv, DiscoveredKeepsInv
  <1>5. CASE Connection!DiscoveryFails \/ Connection!AttemptAborts
    BY <1>5, AbandonKeepsInv
  <1>6. CASE \E d \in DOMAIN disconnects :
               \/ \E alone \in BOOLEAN : Connection!Disconnect(d, alone)
               \/ Connection!NothingToDisconnect(d) \/ Connection!ClientGone(d) \/ Connection!LoseTrust(d)
    BY <1>1, <1>6, DisconnectsKeepInv
  <1>7. CASE Connection!ReleaseExclusive
    <2>1. /\ ctl' = [ctl EXCEPT !.exclusive = FALSE]
          /\ attempt' = attempt /\ clients' = clients /\ disconnects' = disconnects /\ configured' = configured
      BY <1>7 DEF Connection!ReleaseExclusive
    <2>2. /\ ctl' \in Controllers /\ ctl'.client = ctl.client /\ ctl'.generation = ctl.generation
          /\ ctl'.status = ctl.status
      BY <1>1, <2>1 DEF Controllers
    <2>3. ConnectionTyped' /\ AttemptFits' /\ ConnectedShows'
      BY <2>1, <2>2 DEF ConnectionInv, ConnectionTyped, AttemptFits, Connection!Discovering, ConnectedShows
    <2> QED BY <2>1, <2>3 DEF ConnectionInv
  <1>8. CASE Connection!Reconfigure
    <2>1. /\ configured' \in [operation : Nat, trusted : BOOLEAN]
          /\ attempt' = attempt /\ clients' = clients /\ disconnects' = disconnects
      BY <1>1, <1>8 DEF Connection!Reconfigure
    <2>2. PICK b \in BOOLEAN, u \in BOOLEAN : ctl' = [ctl EXCEPT !.stale = b, !.unseen = u]
      BY <1>1, <1>8 DEF Connection!Reconfigure, Controllers
    <2>3. /\ ctl' \in Controllers /\ ctl'.client = ctl.client /\ ctl'.generation = ctl.generation
          /\ ctl'.status = ctl.status
      BY <1>1, <2>2 DEF Controllers
    <2>4. ConnectionTyped' /\ AttemptFits' /\ ConnectedShows'
      BY <2>1, <2>3 DEF ConnectionInv, ConnectionTyped, AttemptFits, Connection!Discovering, ConnectedShows
    <2> QED BY <2>1, <2>4 DEF ConnectionInv
  <1>9. CASE UNCHANGED connectionVars
    BY <1>9 DEF connectionVars, ConnectionInv, ConnectionTyped, AttemptFits, Connection!Discovering,
                ConnectedShows
  <1> QED BY <1>2, <1>3, <1>4, <1>5, <1>6, <1>7, <1>8, <1>9 DEF Connection!Next

\* What the attempt and the disconnects say of each other: an attempt that is not aborted has no
\* disconnect of its own client under way, and a client that was forgotten was so by an earlier one.
Going == attempt.step \in {"connect", "tools", "resources", "prompts"} /\ ~attempt.aborted
EndedEarlier ==
    \E d \in 1 .. MaxDisconnects :
        disconnects[d].step = "done" /\ disconnects[d].of \in 1 .. ctl.generation - 1
DisconnectsFit ==
    /\ \A d \in 1 .. MaxDisconnects : disconnects[d].of <= ctl.generation
    /\ Going => \A d \in 1 .. MaxDisconnects : disconnects[d].step = "client" => disconnects[d].of # ctl.generation
    /\ Going \/ ctl.status = "connected" => ctl.client # 0 \/ EndedEarlier
\* What the controller says while it connects, and what it was started with.
ConnectingFits ==
    /\ Going /\ ctl.client # 0 => ctl.status \in {"connecting", "failed"}
    /\ ctl.status = "connecting" =>
          attempt.step \in {"connect", "tools", "resources", "prompts", "giveup", "dispose"}
    /\ ctl.status = "connecting" /\ ctl.client # 0 => ctl.operation = configured.operation \/ ctl.unseen
\* What was read again is what is configured, unless that was changed since.
ReadingAgreed == attempt.step = "rebinding" => attempt.reread = configured.operation \/ ctl.unseen
OperationKnown ==
    /\ configured.operation # 0
    /\ attempt.step = "rebinding" => attempt.reread # 0
    /\ ctl.client # 0 => ctl.operation # 0
StandingInv ==
    DisconnectsFit /\ ConnectingFits /\ ReadingAgreed /\ OperationKnown /\ Connection!ChangesAreMarked

LEMMA StandingInit == Connection!Init => StandingInv
  BY DEF Connection!Init, StandingInv, DisconnectsFit, Going, EndedEarlier, ConnectingFits, ReadingAgreed,
         OperationKnown, Connection!ChangesAreMarked, Connection!NoAttempt, Connection!NoDisconnect

\* A client fails, or does not: what else the controller knows stays as it is.
LEMMA StandingFails ==
    ASSUME ConnectionInv, StandingInv, UNCHANGED <<attempt, disconnects, configured>>,
           ctl'.client = ctl.client, ctl'.generation = ctl.generation, ctl'.operation = ctl.operation,
           ctl'.stale = ctl.stale, ctl'.unseen = ctl.unseen, ctl'.status \in {ctl.status, "failed"}
    PROVE  StandingInv'
  <1>1. DisconnectsFit'
    BY DEF StandingInv, DisconnectsFit, Going, EndedEarlier
  <1>2. ConnectingFits' /\ ReadingAgreed' /\ OperationKnown' /\ Connection!ChangesAreMarked'
    BY DEF StandingInv, ConnectingFits, Going, ReadingAgreed, OperationKnown, Connection!ChangesAreMarked
  <1> QED BY <1>1, <1>2 DEF StandingInv

\* The attempt is over, or waits for something else than its connection.
LEMMA StandingQuiet ==
    ASSUME ConnectionInv, StandingInv, UNCHANGED <<disconnects, configured>>,
           ctl'.generation = ctl.generation, ctl'.status # "connected",
           ctl'.client \in {0, ctl.client}, ctl'.client # 0 => ctl'.operation = ctl.operation,
           attempt'.step \notin {"connect", "tools", "resources", "prompts"},
           attempt'.step = "rebinding" => attempt'.reread = configured.operation,
           ctl'.status = "connecting" => ctl' = ctl /\ attempt'.step \in {"giveup", "dispose"}
    PROVE  StandingInv'
  <1>1. ~Going'
    BY DEF Going
  <1>2. DisconnectsFit'
    BY <1>1 DEF StandingInv, DisconnectsFit
  <1>3. ConnectingFits' /\ ReadingAgreed' /\ OperationKnown' /\ Connection!ChangesAreMarked'
    BY <1>1 DEF StandingInv, ConnectingFits, ReadingAgreed, OperationKnown, Connection!ChangesAreMarked
  <1> QED BY <1>2, <1>3 DEF StandingInv

\* The attempt goes on with its connection.
LEMMA StandingGoes ==
    ASSUME ConnectionInv, StandingInv, UNCHANGED <<ctl, disconnects, configured>>,
           attempt.step \in {"connect", "tools", "resources"},
           attempt'.step \in {"tools", "resources", "prompts"}, attempt'.aborted = attempt.aborted
    PROVE  StandingInv'
  <1>1. Going' <=> Going
    BY DEF Going
  <1>2. DisconnectsFit'
    BY <1>1 DEF StandingInv, DisconnectsFit, EndedEarlier
  <1>3. ConnectingFits' /\ ReadingAgreed' /\ OperationKnown' /\ Connection!ChangesAreMarked'
    BY <1>1 DEF StandingInv, ConnectingFits, ReadingAgreed, OperationKnown, Connection!ChangesAreMarked
  <1> QED BY <1>2, <1>3 DEF StandingInv

\* What the controller is made of when an attempt ends.
LEMMA ControllerEnds ==
    ASSUME ConnectionInv
    PROVE  /\ \A b \in BOOLEAN : LET h == [Connection!ControllerFails(ctl) EXCEPT !.blocked = b] IN
                 /\ h.status = "failed" /\ h.client = ctl.client /\ h.generation = ctl.generation
                 /\ h.operation = ctl.operation
           /\ LET h == Connection!ControllerFails(ctl) IN
                 /\ h.status = "failed" /\ h.client = ctl.client /\ h.generation = ctl.generation
                 /\ h.operation = ctl.operation /\ h.blocked \in BOOLEAN
           /\ LET h == Connection!ControllerCleared(ctl) IN
                 h.status = "disconnected" /\ h.client = 0 /\ h.generation = ctl.generation
  BY DEF ConnectionInv, ConnectionTyped, Controllers, Connection!ControllerFails, Connection!ControllerCleared

\* The end of an attempt that leaves the controller disconnected or failed.
LEMMA StandingEnds ==
    ASSUME ConnectionInv, StandingInv, UNCHANGED <<disconnects, configured>>,
           attempt' = Connection!NoAttempt \/ (attempt' = attempt /\ attempt.step = "none"),
           \/ ctl' = Connection!ControllerFails(ctl)
           \/ ctl' = Connection!ControllerCleared(ctl)
           \/ \E b \in BOOLEAN : ctl' = [Connection!ControllerFails(ctl) EXCEPT !.blocked = b]
           \/ ctl' = ctl /\ ctl.status = "failed"
    PROVE  StandingInv'
  <1>1. attempt'.step = "none"
    BY DEF Connection!NoAttempt
  <1>2. /\ ctl'.generation = ctl.generation /\ ctl'.status \in {"failed", "disconnected"}
        /\ ctl'.client \in {0, ctl.client} /\ (ctl'.client # 0 => ctl'.operation = ctl.operation)
    BY ControllerEnds
  <1> QED BY <1>1, <1>2, StandingQuiet

\* The steps of the attempt before it has a connection.
LEMMA StandingReads ==
    ASSUME ConnectionInv, StandingInv,
           \/ Connection!Released \/ Connection!ReadConfiguration \/ Connection!WorkspaceBound
           \/ Connection!Approved \/ Connection!NotApproved \/ Connection!ReadAgain \/ Connection!ReadFails
    PROVE  StandingInv'
  <1>1. /\ UNCHANGED <<disconnects, configured>> /\ attempt.step # "none"
        /\ attempt.step \notin {"connect", "tools", "resources", "prompts", "giveup", "dispose"}
        /\ ctl \in Controllers /\ attempt \in Attempts
    BY DEF Connection!Released, Connection!ReadConfiguration, Connection!WorkspaceBound, Connection!Approved,
           Connection!NotApproved, Connection!ReadAgain, Connection!ReadFails, Connection!Reading, Connection!At,
           ConnectionInv, ConnectionTyped
  <1>2. ctl.status \notin {"connecting", "connected"}
    BY <1>1 DEF ConnectionInv, AttemptFits, StandingInv, ConnectingFits
  <1>3. CASE Connection!NotApproved \/ Connection!ReadFails
    BY <1>1, <1>3, StandingEnds DEF Connection!NotApproved, Connection!ReadFails, Connection!AttemptEnds
  <1>4. CASE Connection!Released /\ clients[attempt.of].unconfirmed
    BY <1>1, <1>4, StandingEnds DEF Connection!Released, Connection!AttemptEnds
  <1>5. CASE Connection!Released /\ ~clients[attempt.of].unconfirmed
    <2>1. attempt' = [attempt EXCEPT !.step = "read"] /\ ctl' = [ctl EXCEPT !.client = 0, !.operation = 0]
      BY <1>5 DEF Connection!Released, Connection!GoOn
    <2>2. attempt'.step = "read" /\ ctl'.client = 0 /\ ctl'.status = ctl.status
          /\ ctl'.generation = ctl.generation
      BY <1>1, <2>1 DEF Controllers, Attempts
    <2> QED BY <1>1, <1>2, <2>2, StandingQuiet
  <1>6. CASE Connection!ReadConfiguration \/ Connection!WorkspaceBound \/ Connection!Approved
    <2>1. ctl' = ctl /\ attempt'.step \in {"binding", "approval", "reread"}
      BY <1>1, <1>6 DEF Connection!ReadConfiguration, Connection!WorkspaceBound, Connection!Approved,
                        Connection!GoOn, Attempts
    <2> QED BY <1>1, <1>2, <2>1, StandingQuiet
  <1>7. CASE Connection!ReadAgain
    <2>1. /\ attempt' = [attempt EXCEPT !.step = "rebinding", !.reread = configured.operation]
          /\ ctl' = [ctl EXCEPT !.unseen = FALSE]
      BY <1>7 DEF Connection!ReadAgain
    <2>2. /\ attempt'.step = "rebinding" /\ attempt'.reread = configured.operation
          /\ ctl'.client = ctl.client /\ ctl'.status = ctl.status /\ ctl'.generation = ctl.generation
          /\ ctl'.operation = ctl.operation
      BY <1>1, <2>1 DEF Controllers, Attempts
    <2> QED BY <1>1, <1>2, <2>2, StandingQuiet
  <1> QED BY <1>3, <1>4, <1>5, <1>6, <1>7

\* The Server is started with what was read again.
LEMMA StandingStarts == ConnectionInv /\ StandingInv /\ Connection!StartServer => StandingInv'
  <1> SUFFICES ASSUME ConnectionInv, StandingInv, Connection!StartServer PROVE StandingInv'
    OBVIOUS
  <1>1. UNCHANGED <<configured, disconnects>> /\ attempt.step = "rebinding"
        /\ ctl \in Controllers /\ attempt \in Attempts /\ disconnects \in [1 .. MaxDisconnects -> Disconnects]
    BY DEF Connection!StartServer, Connection!At, ConnectionInv, ConnectionTyped
  <1>2. CASE ~Connection!StillApproved
    BY <1>1, <1>2, StandingEnds DEF Connection!StartServer, Connection!AttemptEnds
  <1>3. CASE Connection!StillApproved
    <2>1. /\ ctl' = [ctl EXCEPT !.generation = ctl.generation + 1, !.status = "connecting",
                                !.client = ctl.generation + 1, !.operation = attempt.operation, !.stale = FALSE]
          /\ attempt' = [attempt EXCEPT !.step = "connect"] /\ attempt.reread = attempt.operation
      BY <1>3 DEF Connection!StartServer, Connection!GoOn, Connection!StillApproved
    <2>2. /\ ctl.generation \in Nat /\ attempt'.step = "connect"
          /\ ctl'.generation = ctl.generation + 1 /\ ctl'.client = ctl.generation + 1
          /\ ctl'.status = "connecting" /\ ctl'.operation = attempt.operation /\ ctl'.unseen = ctl.unseen
      BY <1>1, <2>1, GenerationAssumption DEF Controllers, Attempts
    <2>3. \A d \in 1 .. MaxDisconnects : disconnects[d].of \in Nat /\ disconnects[d].of <= ctl.generation
      BY <1>1, GenerationAssumption DEF Disconnects, StandingInv, DisconnectsFit
    <2>4. DisconnectsFit'
      BY <1>1, <2>2, <2>3 DEF DisconnectsFit
    <2>5. ConnectingFits' /\ ReadingAgreed' /\ OperationKnown' /\ Connection!ChangesAreMarked'
      BY <1>1, <2>1, <2>2 DEF StandingInv, ConnectingFits, ReadingAgreed, OperationKnown, Connection!ChangesAreMarked
    <2> QED BY <2>4, <2>5 DEF StandingInv
  <1> QED BY <1>2, <1>3

\* The attempt's client has connected, or not.
LEMMA StandingSettles == ConnectionInv /\ StandingInv /\ Connection!ConnectSettles => StandingInv'
  <1> SUFFICES ASSUME ConnectionInv, StandingInv, Connection!ConnectSettles PROVE StandingInv'
    OBVIOUS
  <1>1. UNCHANGED <<configured, disconnects>> /\ attempt.step = "connect" /\ attempt \in Attempts
    BY DEF Connection!ConnectSettles, ConnectionInv, ConnectionTyped
  <1>2. CASE clients[Connection!Own].connect = "cancelled"
    BY <1>1, <1>2, StandingEnds DEF Connection!ConnectSettles, Connection!AttemptEnds
  <1>3. CASE clients[Connection!Own].connect = "failed"
    <2>1. Connection!Own \in Connection!Generations
      BY <1>1 DEF ConnectionInv, ConnectionTyped, AttemptFits, Connection!Own, Connection!Generations, Controllers
    <2>2. clients[Connection!Own].unconfirmed \in BOOLEAN /\ Connection!ControllerFails(ctl).blocked \in BOOLEAN
      BY <2>1, ControllerEnds DEF ConnectionInv, ConnectionTyped, Clients
    <2>3. \E b \in BOOLEAN : ctl' = [Connection!ControllerFails(ctl) EXCEPT !.blocked = b]
      BY <1>3, <2>2 DEF Connection!ConnectSettles
    <2> QED BY <1>1, <1>3, <2>3, StandingEnds DEF Connection!ConnectSettles, Connection!AttemptEnds
  <1>4. CASE clients[Connection!Own].connect = "connected" /\ (ctl.status = "failed" \/ ctl.client = 0)
    BY <1>1, <1>4, StandingEnds DEF Connection!ConnectSettles, Connection!AttemptEnds
  <1>5. CASE clients[Connection!Own].connect = "connected" /\ ctl.status # "failed" /\ ctl.client # 0
    <2>1. attempt' = [attempt EXCEPT !.step = "tools", !.of = ctl.client] /\ ctl' = ctl
      BY <1>5 DEF Connection!ConnectSettles, Connection!WithClient
    <2>2. attempt'.step = "tools" /\ attempt'.aborted = attempt.aborted
      BY <1>1, <2>1 DEF Attempts
    <2> QED BY <1>1, <2>1, <2>2, StandingGoes
  <1> QED BY <1>2, <1>3, <1>4, <1>5 DEF Connection!ConnectSettles

LEMMA StandingDiscovered == ConnectionInv /\ StandingInv /\ Connection!Discovered => StandingInv'
  <1> SUFFICES ASSUME ConnectionInv, StandingInv, Connection!Discovered PROVE StandingInv'
    OBVIOUS
  <1>1. /\ UNCHANGED <<configured, disconnects>> /\ ctl \in Controllers /\ attempt \in Attempts
        /\ attempt.step \in {"tools", "resources", "prompts"} /\ ~attempt.aborted /\ Going
    BY DEF Connection!Discovered, Connection!Discovering, ConnectionInv, ConnectionTyped, Going
  <1>2. CASE attempt.step = "prompts" /\ ctl.status # "failed"
    <2>1. attempt' = Connection!NoAttempt /\ ctl' = [ctl EXCEPT !.status = "connected", !.stale = FALSE]
      BY <1>2 DEF Connection!Discovered, Connection!AttemptEnds
    <2>2. /\ attempt'.step = "none" /\ ctl'.client = ctl.client /\ ctl'.generation = ctl.generation
          /\ ctl'.operation = ctl.operation /\ ctl'.unseen = ctl.unseen /\ ctl'.status = "connected"
      BY <1>1, <2>1 DEF Controllers, Connection!NoAttempt
    <2>3. DisconnectsFit'
      BY <1>1, <2>2 DEF StandingInv, DisconnectsFit, Going, EndedEarlier
    <2>4. ctl.client # 0 => ctl.operation = configured.operation \/ ctl.unseen
      BY <1>1, <1>2 DEF StandingInv, ConnectingFits
    <2>5. ConnectingFits' /\ ReadingAgreed' /\ OperationKnown' /\ Connection!ChangesAreMarked'
      BY <1>1, <2>2, <2>4 DEF StandingInv, ConnectingFits, Going, ReadingAgreed, OperationKnown,
                              Connection!ChangesAreMarked
    <2> QED BY <2>3, <2>5 DEF StandingInv
  <1>3. CASE attempt.step = "prompts" /\ ctl.status = "failed"
    BY <1>1, <1>3, StandingEnds DEF Connection!Discovered, Connection!AttemptEnds
  <1>4. CASE attempt.step # "prompts" /\ ctl.client = 0
    BY <1>1, <1>4, StandingEnds DEF Connection!Discovered, Connection!AttemptEnds
  <1>5. CASE attempt.step # "prompts" /\ ctl.client # 0
    <2>1. PICK s \in {"resources", "prompts"} : attempt' = [attempt EXCEPT !.step = s, !.of = ctl.client]
      BY <1>5 DEF Connection!Discovered, Connection!WithClient
    <2>2. attempt'.step = s /\ attempt'.aborted = attempt.aborted /\ ctl' = ctl
      BY <1>1, <1>5, <2>1 DEF Attempts, Connection!Discovered
    <2> QED BY <1>1, <1>5, <2>2, StandingGoes
  <1> QED BY <1>2, <1>3, <1>4, <1>5

\* The attempt gives up, or is asked for and refused.
LEMMA StandingAbandons ==
    ASSUME ConnectionInv, StandingInv,
           \/ Connection!Connect \/ Connection!DiscoveryFails \/ Connection!AttemptAborts
           \/ Connection!GivenUp \/ Connection!AttemptDisposed
    PROVE  StandingInv'
  <1>1. UNCHANGED <<configured, disconnects>> /\ ctl \in Controllers /\ attempt \in Attempts
    BY DEF Connection!Connect, Connection!DiscoveryFails, Connection!AttemptAborts, Connection!GivenUp,
           Connection!AttemptDisposed, ConnectionInv, ConnectionTyped
  <1>2. ASSUME NEW s \in {"giveup", "dispose"}, attempt' = [attempt EXCEPT !.step = s, !.of = ctl.client],
               ctl' = ctl, ctl.status # "connected"
        PROVE  StandingInv'
    <2>1. attempt'.step = s
      BY <1>1, <1>2 DEF Attempts
    <2> QED BY <1>1, <1>2, <2>1, StandingQuiet
  <1>3. CASE Connection!GivenUp \/ Connection!AttemptDisposed
    BY <1>1, <1>3, StandingEnds DEF Connection!GivenUp, Connection!AttemptDisposed, Connection!AttemptEnds
  <1>4. CASE Connection!DiscoveryFails
    <2>1. ctl.status # "connected"
      BY <1>4 DEF Connection!DiscoveryFails, Connection!Discovering, ConnectionInv, AttemptFits
    <2>2. CASE ctl.client = 0
      BY <1>1, <1>4, <2>2, StandingEnds DEF Connection!DiscoveryFails, Connection!AttemptEnds
    <2>3. CASE ctl.client # 0
      BY <1>2, <1>4, <2>1, <2>3 DEF Connection!DiscoveryFails, Connection!WithClient
    <2> QED BY <2>2, <2>3
  <1>5. CASE Connection!AttemptAborts
    <2>1. ctl.status # "connected"
      BY <1>5 DEF Connection!AttemptAborts, Connection!Discovering, Connection!Reading, ConnectionInv, AttemptFits
    <2>2. CASE ctl.client = 0 \/ attempt.step = "approval"
      BY <1>1, <1>5, <2>2, StandingEnds DEF Connection!AttemptAborts, Connection!AttemptEnds
    <2>3. CASE ~(ctl.client = 0 \/ attempt.step = "approval")
      BY <1>2, <1>5, <2>1, <2>3 DEF Connection!AttemptAborts, Connection!WithClient
    <2> QED BY <2>2, <2>3
  <1>6. CASE Connection!Connect
    <2>1. CASE ctl.exclusive
      <3>1. ctl' = Connection!ControllerFails(ctl) /\ attempt' = attempt
        BY <1>6, <2>1 DEF Connection!Connect
      <3>2. ctl'.status = "failed" /\ ctl'.client = ctl.client /\ ctl'.generation = ctl.generation
            /\ ctl'.operation = ctl.operation /\ ctl'.stale = ctl.stale /\ ctl'.unseen = ctl.unseen
        BY <1>1, <3>1 DEF Connection!ControllerFails, Controllers
      <3> QED BY <1>1, <3>1, <3>2, StandingFails
    <2>2. CASE ~ctl.exclusive /\ ctl.blocked
      BY <1>1, <1>6, <2>2, StandingEnds DEF Connection!Connect
    <2>3. CASE ~ctl.exclusive /\ ~ctl.blocked
      <3>1. /\ ctl' = ctl /\ attempt.step = "none" /\ ctl.status # "connected"
            /\ attempt'.step \in {"read", "release"}
        BY <1>1, <1>6, <2>3 DEF Connection!Connect, Connection!GoOn, Connection!WithClient, Attempts
      <3>2. ctl.status # "connecting"
        BY <3>1 DEF StandingInv, ConnectingFits
      <3> QED BY <1>1, <3>1, <3>2, StandingQuiet
    <2> QED BY <2>1, <2>2, <2>3
  <1> QED BY <1>3, <1>4, <1>5, <1>6

\* A disconnect aborts the attempt; the controller's client is the one it waits for.
LEMMA StandingDisconnects ==
    ASSUME ConnectionInv, StandingInv, NEW d \in 1 .. MaxDisconnects, NEW alone \in BOOLEAN,
           NEW kept \in BOOLEAN, attempt' = Connection!Aborted(attempt),
           disconnects[d] = Connection!NoDisconnect,
           disconnects' = [disconnects EXCEPT ![d] =
               [step |-> IF ctl.client = 0 THEN "attempt" ELSE "client", of |-> ctl.client, exclusive |-> alone]],
           ctl' = [ctl EXCEPT !.exclusive = kept,
                              !.status = IF ctl.client = 0 THEN ctl.status ELSE "disconnecting"],
           configured'.operation = configured.operation
    PROVE  StandingInv'
  <1>1. ctl \in Controllers /\ attempt \in Attempts /\ ctl.client \in {0, ctl.generation}
        /\ disconnects \in [1 .. MaxDisconnects -> Disconnects]
    BY DEF ConnectionInv, ConnectionTyped
  <1>2. /\ ctl'.client = ctl.client /\ ctl'.generation = ctl.generation /\ ctl'.operation = ctl.operation
        /\ ctl'.stale = ctl.stale /\ ctl'.unseen = ctl.unseen
        /\ ctl'.status = IF ctl.client = 0 THEN ctl.status ELSE "disconnecting"
    BY <1>1 DEF Controllers
  <1>3. attempt'.step = attempt.step /\ attempt'.reread = attempt.reread
        /\ (attempt.step = "none" \/ attempt'.aborted)
    BY <1>1 DEF Connection!Aborted, Attempts
  <1>4. ~Going'
    BY <1>3 DEF Going
  <1>5. \A e \in 1 .. MaxDisconnects : disconnects'[e].of \in {disconnects[e].of, ctl.client}
    BY <1>1
  <1>6. EndedEarlier => EndedEarlier'
    <2> SUFFICES ASSUME NEW e \in 1 .. MaxDisconnects, disconnects[e].step = "done",
                        disconnects[e].of \in 1 .. ctl.generation - 1
                 PROVE  EndedEarlier'
      BY DEF EndedEarlier
    <2>1. e # d
      BY DEF Connection!NoDisconnect
    <2>2. disconnects'[e] = disconnects[e]
      BY <1>1, <2>1
    <2> QED BY <1>2, <2>2 DEF EndedEarlier
  <1>7. ctl.client <= ctl.generation
    BY <1>1, GenerationAssumption DEF Controllers
  <1>8. DisconnectsFit'
    <2>1. \A e \in 1 .. MaxDisconnects : disconnects'[e].of <= ctl'.generation
      BY <1>2, <1>5, <1>7 DEF StandingInv, DisconnectsFit
    <2>2. ctl'.status = "connected" => ctl'.client # 0 \/ EndedEarlier'
      BY <1>2, <1>6 DEF StandingInv, DisconnectsFit
    <2> QED BY <1>4, <2>1, <2>2 DEF DisconnectsFit
  <1>9. ConnectingFits' /\ ReadingAgreed' /\ OperationKnown' /\ Connection!ChangesAreMarked'
    BY <1>2, <1>3, <1>4 DEF StandingInv, ConnectingFits, ReadingAgreed, OperationKnown, Connection!ChangesAreMarked
  <1> QED BY <1>8, <1>9 DEF StandingInv

\* A disconnect is over: if the attempt goes on without a client, it was one of an earlier client.
LEMMA StandingForgets ==
    ASSUME ConnectionInv, StandingInv, NEW d \in 1 .. MaxDisconnects,
           Connection!NothingToDisconnect(d) \/ Connection!ClientGone(d)
    PROVE  StandingInv'
  <1>1. /\ ctl \in Controllers /\ disconnects \in [1 .. MaxDisconnects -> Disconnects]
        /\ UNCHANGED <<attempt, configured>>
    BY DEF ConnectionInv, ConnectionTyped, Connection!NothingToDisconnect, Connection!ClientGone
  <1>2. PICK h : /\ \/ h = Connection!ControllerCleared(ctl)
                    \/ h = [Connection!ControllerFails(ctl) EXCEPT !.blocked = TRUE]
                 /\ Connection!DisconnectEnds(d, h)
    BY DEF Connection!NothingToDisconnect, Connection!ClientGone
  <1>3. PICK b : ctl' = [h EXCEPT !.exclusive = b]
    BY <1>2 DEF Connection!DisconnectEnds
  <1>4. /\ ctl'.generation = ctl.generation /\ ctl'.unseen = ctl.unseen
        /\ \/ ctl'.status = "disconnected" /\ ctl'.client = 0
           \/ ctl'.status = "failed" /\ ctl'.client = ctl.client /\ ctl'.operation = ctl.operation
    BY <1>1, <1>2, <1>3 DEF Controllers, Connection!ControllerCleared, Connection!ControllerFails
  <1>5. /\ \A e \in 1 .. MaxDisconnects : disconnects'[e].of = disconnects[e].of
        /\ disconnects'[d].step = "done"
        /\ \A e \in 1 .. MaxDisconnects : e # d => disconnects'[e] = disconnects[e]
    BY <1>1, <1>2 DEF Connection!DisconnectEnds, Disconnects
  <1>6. EndedEarlier => EndedEarlier'
    BY <1>4, <1>5 DEF EndedEarlier
  <1>7. Going => ctl'.client # 0 \/ EndedEarlier'
    <2> SUFFICES ASSUME Going, ctl'.client = 0 PROVE EndedEarlier'
      OBVIOUS
    <2>1. CASE ctl.client = 0
      BY <1>6, <2>1 DEF StandingInv, DisconnectsFit
    <2>2. CASE ctl.client # 0
      <3>1. Connection!ClientGone(d)
        BY DEF Connection!NothingToDisconnect, Going
      <3>2. disconnects[d].of # 0 /\ disconnects[d].of # ctl.generation /\ disconnects[d].of <= ctl.generation
        BY <3>1 DEF Connection!ClientGone, ConnectionInv, AttemptFits, StandingInv, DisconnectsFit
      <3>3. disconnects[d].of \in Nat /\ ctl.generation \in Nat
        BY <1>1, GenerationAssumption DEF Disconnects, Controllers
      <3>4. disconnects[d].of \in 1 .. ctl.generation - 1
        BY <3>2, <3>3
      <3> QED BY <1>4, <1>5, <3>4 DEF EndedEarlier
    <2> QED BY <2>1, <2>2
  <1>8. Going' <=> Going
    BY <1>1 DEF Going
  <1>9. DisconnectsFit'
    BY <1>4, <1>5, <1>7, <1>8 DEF StandingInv, DisconnectsFit
  <1>10. ConnectingFits' /\ ReadingAgreed' /\ OperationKnown' /\ Connection!ChangesAreMarked'
    BY <1>1, <1>4, <1>8 DEF StandingInv, ConnectingFits, ReadingAgreed, OperationKnown, Connection!ChangesAreMarked
  <1> QED BY <1>9, <1>10 DEF StandingInv

\* A change of the configuration is marked, or it is unseen.
LEMMA StandingReconfigures == ConnectionInv /\ StandingInv /\ Connection!Reconfigure => StandingInv'
  <1> SUFFICES ASSUME ConnectionInv, StandingInv, Connection!Reconfigure PROVE StandingInv'
    OBVIOUS
  <1>1. /\ ctl \in Controllers /\ UNCHANGED <<attempt, disconnects>>
        /\ configured'.operation = configured.operation + 1 /\ configured.operation \in Nat
    BY DEF ConnectionInv, ConnectionTyped, Connection!Reconfigure
  <1>2. /\ ctl'.client = ctl.client /\ ctl'.generation = ctl.generation /\ ctl'.operation = ctl.operation
        /\ ctl'.status = ctl.status
        /\ attempt.step = "rebinding" \/ ctl.status = "connecting" => ctl'.unseen
        /\ ctl.operation # 0 /\ ctl.status = "connected" => ctl'.stale
    BY <1>1 DEF Connection!Reconfigure, Connection!Marked, Connection!Unmarked, Controllers
  <1>3. DisconnectsFit'
    BY <1>1, <1>2 DEF StandingInv, DisconnectsFit, Going, EndedEarlier
  <1>4. ConnectingFits' /\ ReadingAgreed' /\ OperationKnown' /\ Connection!ChangesAreMarked'
    BY <1>1, <1>2 DEF StandingInv, ConnectingFits, Going, ReadingAgreed, OperationKnown, Connection!ChangesAreMarked
  <1> QED BY <1>3, <1>4 DEF StandingInv

LEMMA StandingNext == ConnectionInv /\ StandingInv /\ [Connection!Next]_connectionVars => StandingInv'
  <1> SUFFICES ASSUME ConnectionInv, StandingInv, [Connection!Next]_connectionVars PROVE StandingInv'
    OBVIOUS
  <1>1. ctl \in Controllers /\ DOMAIN disconnects = 1 .. MaxDisconnects
    BY DEF ConnectionInv, ConnectionTyped
  <1>2. ASSUME NEW g \in Connection!Generations,
               \/ Connection!Negotiated(g) \/ Connection!Connected(g) \/ Connection!ConnectRefused(g)
               \/ Connection!ConnectGivenUp(g) \/ Connection!ServerExits(g) \/ Connection!ProtocolBreaks(g)
               \/ Connection!Terminated(g) \/ Connection!TerminationUnconfirmed(g)
        PROVE  StandingInv'
    <2>1. /\ UNCHANGED <<attempt, disconnects, configured>>
          /\ ctl' = ctl \/ ctl' = Connection!HostFailure(g, TRUE) \/ ctl' = Connection!HostFailure(g, FALSE)
      BY <1>2 DEF Connection!Negotiated, Connection!Connected, Connection!ConnectRefused, Connection!ConnectGivenUp,
                  Connection!ServerExits, Connection!ProtocolBreaks, Connection!Terminated,
                  Connection!TerminationUnconfirmed
    <2>2. /\ ctl'.client = ctl.client /\ ctl'.generation = ctl.generation /\ ctl'.operation = ctl.operation
          /\ ctl'.stale = ctl.stale /\ ctl'.unseen = ctl.unseen /\ ctl'.status \in {ctl.status, "failed"}
      BY <1>1, <2>1 DEF Connection!HostFailure, Connection!ControllerFails, Controllers
    <2> QED BY <2>1, <2>2, StandingFails
  <1>3. CASE \/ Connection!Released \/ Connection!ReadConfiguration \/ Connection!WorkspaceBound
             \/ Connection!Approved \/ Connection!NotApproved \/ Connection!ReadAgain \/ Connection!ReadFails
    BY <1>3, StandingReads
  <1>4. CASE Connection!StartServer \/ Connection!ConnectSettles \/ Connection!Discovered
    BY <1>4, StandingStarts, StandingSettles, StandingDiscovered
  <1>5. CASE \/ Connection!Connect \/ Connection!DiscoveryFails \/ Connection!AttemptAborts
             \/ Connection!GivenUp \/ Connection!AttemptDisposed
    BY <1>5, StandingAbandons
  <1>6. ASSUME NEW d \in 1 .. MaxDisconnects, NEW alone \in BOOLEAN, Connection!Disconnect(d, alone)
        PROVE  StandingInv'
    <2>1. PICK kept \in BOOLEAN : ctl' = [ctl EXCEPT !.exclusive = kept,
                              !.status = IF ctl.client = 0 THEN ctl.status ELSE "disconnecting"]
      BY <1>1, <1>6 DEF Connection!Disconnect, Controllers
    <2>2. /\ attempt' = Connection!Aborted(attempt) /\ disconnects[d] = Connection!NoDisconnect
          /\ disconnects' = [disconnects EXCEPT ![d] =
               [step |-> IF ctl.client = 0 THEN "attempt" ELSE "client", of |-> ctl.client, exclusive |-> alone]]
          /\ configured'.operation = configured.operation
      BY <1>6 DEF Connection!Disconnect
    <2> QED BY <2>1, <2>2, StandingDisconnects
  <1>7. ASSUME NEW d \in 1 .. MaxDisconnects, Connection!LoseTrust(d)
        PROVE  StandingInv'
    <2>1. PICK kept \in BOOLEAN : ctl' = [ctl EXCEPT !.exclusive = kept,
                              !.status = IF ctl.client = 0 THEN ctl.status ELSE "disconnecting"]
      <3>1. ctl' = [ctl EXCEPT !.exclusive = ctl.exclusive,
                              !.status = IF ctl.client = 0 THEN ctl.status ELSE "disconnecting"]
        BY <1>1, <1>7 DEF Connection!LoseTrust, Controllers
      <3> QED BY <1>1, <3>1 DEF Controllers
    <2>2. /\ attempt' = Connection!Aborted(attempt) /\ disconnects[d] = Connection!NoDisconnect
          /\ disconnects' = [disconnects EXCEPT ![d] =
               [step |-> IF ctl.client = 0 THEN "attempt" ELSE "client", of |-> ctl.client, exclusive |-> FALSE]]
          /\ configured'.operation = configured.operation
      BY <1>7 DEF Connection!LoseTrust, ConnectionInv, ConnectionTyped
    <2> QED BY <2>1, <2>2, StandingDisconnects
  <1>8. ASSUME NEW d \in 1 .. MaxDisconnects, Connection!NothingToDisconnect(d) \/ Connection!ClientGone(d)
        PROVE  StandingInv'
    BY <1>8, StandingForgets
  <1>9. CASE Connection!ReleaseExclusive
    <2>1. /\ ctl' = [ctl EXCEPT !.exclusive = FALSE] /\ UNCHANGED <<attempt, disconnects, configured>>
      BY <1>9 DEF Connection!ReleaseExclusive
    <2>2. /\ ctl'.client = ctl.client /\ ctl'.generation = ctl.generation /\ ctl'.operation = ctl.operation
          /\ ctl'.stale = ctl.stale /\ ctl'.unseen = ctl.unseen /\ ctl'.status \in {ctl.status, "failed"}
      BY <1>1, <2>1 DEF Controllers
    <2> QED BY <2>1, <2>2, StandingFails
  <1>10. CASE Connection!Reconfigure
    BY <1>10, StandingReconfigures
  <1>11. CASE UNCHANGED connectionVars
    BY <1>11, StandingFails DEF connectionVars
  <1> QED BY <1>1, <1>2, <1>3, <1>4, <1>5, <1>6, <1>7, <1>8, <1>9, <1>10, <1>11 DEF Connection!Next

\* A controller that says connected: its client lives, has broken, or was forgotten.
LEMMA ConnectedStands == ConnectionInv /\ StandingInv => Connection!ConnectedMeansLive
  <1> SUFFICES ASSUME ConnectionInv, StandingInv, ctl.status = "connected"
               PROVE  \/ Connection!Live(ctl.client) \/ Connection!BrokenUnheard(ctl.client)
                      \/ Connection!Forgotten
    BY DEF Connection!ConnectedMeansLive
  <1>1. CASE ctl.client = 0
    BY <1>1 DEF StandingInv, DisconnectsFit, EndedEarlier, Connection!Forgotten, ConnectionInv, ConnectionTyped
  <1>2. CASE ctl.client # 0
    <2>1. ctl.client \in Connection!Generations
      BY <1>2 DEF ConnectionInv, ConnectionTyped, Controllers, Connection!Generations
    <2> QED BY <1>2, <2>1 DEF ConnectionInv, ConnectedShows, Shows, Lives, Connection!Live, Connection!BrokenUnheard
  <1> QED BY <1>1, <1>2

\* A Server that is started, in a step.
StartedApproved ==
    \A g \in Connection!Generations :
        clients[g].process = "none" /\ clients'[g].process = "running" =>
            configured.trusted /\ (configured.operation = attempt.operation \/ ctl.unseen)

LEMMA StartedStep ==
    ConnectionInv /\ StandingInv /\ [Connection!Next]_connectionVars => [StartedApproved]_(Connection!vars)
  <1> SUFFICES ASSUME ConnectionInv, StandingInv, Connection!Next, NEW g \in Connection!Generations,
                      clients[g].process = "none", clients'[g].process = "running"
               PROVE  configured.trusted /\ (configured.operation = attempt.operation \/ ctl.unseen)
    BY DEF StartedApproved, connectionVars, Connection!vars
  <1>1. clients \in [Connection!Generations -> Clients] /\ clients' # clients
        /\ DOMAIN disconnects = 1 .. MaxDisconnects /\ ctl \in Controllers
    BY DEF ConnectionInv, ConnectionTyped
  <1>2. CASE Connection!StartServer
    BY <1>2 DEF Connection!StartServer, Connection!StillApproved, Connection!At, StandingInv, ReadingAgreed
  <1>3. ASSUME NEW k \in Connection!Generations,
               \/ Connection!Negotiated(k) \/ Connection!Connected(k) \/ Connection!ConnectRefused(k)
               \/ Connection!ConnectGivenUp(k) \/ Connection!ServerExits(k) \/ Connection!ProtocolBreaks(k)
               \/ Connection!Terminated(k) \/ Connection!TerminationUnconfirmed(k)
        PROVE  FALSE
    <2> DEFINE d == clients'[k]
    <2>1. d.process # "running" \/ d.process = clients[k].process
      <3>1. CASE Connection!ConnectRefused(k)
        BY <1>1, <3>1, ClosedIs DEF Connection!ConnectRefused, Clients
      <3>2. CASE Connection!ServerExits(k) \/ Connection!ProtocolBreaks(k)
        <4> DEFINE e == Connection!ClientFailed(clients[k])
        <4>1. e \in Clients /\ e.process = clients[k].process
          BY <1>1, <3>2, ClientFailedIs
             DEF ConnectionInv, Connection!ServerExits, Connection!ProtocolBreaks, Connection!Delivers
        <4>2. \/ clients' = [clients EXCEPT ![k] = [e EXCEPT !.process = "gone"]]
              \/ clients' = [clients EXCEPT ![k] = [e EXCEPT !.broken = TRUE]]
          BY <1>1, <3>2 DEF Connection!ServerExits, Connection!ProtocolBreaks
        <4> HIDE DEF e
        <4> QED BY <1>1, <4>1, <4>2 DEF Clients
      <3>3. CASE Connection!ConnectGivenUp(k)
        BY <1>1, <3>3 DEF Connection!ConnectGivenUp, Connection!GaveUp, Clients
      <3>4. CASE Connection!Negotiated(k) \/ Connection!Connected(k)
        BY <1>1, <3>4 DEF Connection!Negotiated, Connection!Connected, Clients
      <3>5. CASE Connection!Terminated(k) \/ Connection!TerminationUnconfirmed(k)
        BY <1>1, <3>5 DEF Connection!Terminated, Connection!TerminationUnconfirmed, Clients
      <3> QED BY <1>3, <3>1, <3>2, <3>3, <3>4, <3>5
    <2>2. g # k => clients'[g] = clients[g]
      BY <1>1, <1>3 DEF Connection!Negotiated, Connection!Connected, Connection!ConnectRefused, Connection!ConnectGivenUp,
             Connection!ServerExits, Connection!ProtocolBreaks, Connection!Terminated, Connection!TerminationUnconfirmed
    <2> QED BY <2>1, <2>2
  <1>4. CASE Connection!Connect \/ Connection!DiscoveryFails \/ Connection!AttemptAborts
    <2>1. ctl.client # 0 /\ clients' = [clients EXCEPT ![ctl.client] = Connection!ClientDisconnecting(@)]
      BY <1>1, <1>4 DEF Connection!Connect, Connection!DiscoveryFails, Connection!AttemptAborts
    <2>2. ctl.client \in Connection!Generations
      BY <1>1, <2>1 DEF Controllers, Connection!Generations
    <2>3. clients'[g].process = clients[g].process
      BY <1>1, <2>1, <2>2, ClientTold DEF ConnectionInv
    <2> QED BY <2>3
  <1>5. ASSUME NEW d \in 1 .. MaxDisconnects,
               (\E alone \in BOOLEAN : Connection!Disconnect(d, alone)) \/ Connection!LoseTrust(d)
        PROVE  FALSE
    <2>1. clients' = IF ctl.client = 0 THEN Connection!GateClosedByAbort
                     ELSE [Connection!GateClosedByAbort EXCEPT ![ctl.client] = Connection!ClientDisconnecting(@)]
      BY <1>5 DEF Connection!Disconnect, Connection!LoseTrust
    <2>2. CASE ctl.client = 0
      BY <2>1, <2>2, GateIs
    <2>3. CASE ctl.client # 0
      <3>1. ctl.client \in Connection!Generations
        BY <1>1, <2>3 DEF Controllers, Connection!Generations
      <3> QED BY <2>1, <2>3, <3>1, GateIs, ClientTold
    <2> QED BY <2>2, <2>3
  <1>6. ASSUME NEW d \in 1 .. MaxDisconnects, Connection!ClientGone(d) PROVE FALSE
    <2> DEFINE n == disconnects[d].of
    <2>1. clients' = [clients EXCEPT ![n] = Connection!ClientAtRest(clients[n])]
      BY <1>1, <1>6 DEF Connection!ClientGone
    <2>2. n = g => Connection!ClientAtRest(clients[n]).process = clients[n].process
      BY <1>1 DEF Connection!ClientAtRest, Clients
    <2> QED BY <1>1, <2>1, <2>2
  <1> QED BY <1>1, <1>2, <1>3, <1>4, <1>5, <1>6
        DEF Connection!Next, Connection!Released, Connection!ReadConfiguration, Connection!WorkspaceBound,
            Connection!Approved, Connection!NotApproved, Connection!ReadAgain, Connection!ReadFails,
            Connection!ConnectSettles, Connection!GivenUp, Connection!AttemptDisposed, Connection!Discovered,
            Connection!NothingToDisconnect, Connection!ReleaseExclusive, Connection!Reconfigure

-----------------------------------------------------------------------------
(* McpPanel.                                                               *)

Statuses == {"disconnected", "connecting", "connected", "disconnecting", "failed"}
Words == [kind : {"connection"}, request : Nat, status : Statuses, generation : Nat]
Lists == [kind : {"tools"}, generation : Nat \ {0}, sequence : Nat \ {0}, tools : Nat \ {0}]
Posts == Words \cup Lists \cup [kind : {"cleared"}]
PanelHosts == [status : Statuses, generation : Nat, tools : Nat, oversized : {0, Oversized}]
Signatures == {<<>>} \cup (Statuses \X Nat)
Publishers == [signature : Signatures, scope : Nat, sequence : Nat, blocked : BOOLEAN, tools : Nat]
Panels == [status : Statuses, generation : Nat, tools : Nat, sequence : Nat,
           closed : BOOLEAN, awaiting : Nat, asked : Nat, busy : BOOLEAN]
PanelTyped ==
    /\ mcp \in PanelHosts /\ publisher \in Publishers /\ panel \in Panels
    /\ intents \subseteq Nat \ {0} /\ posted \in Seq(Posts)

\* A connection has a number, and a Server that is connected has Tools; catalogs are counted
\* for the connection that was last said to be there, which is no longer the controller's once
\* it has said all it can.
HostInv ==
    /\ mcp.status # "disconnected" => mcp.generation # 0
    /\ mcp.status = "connected" => mcp.tools # 0
    /\ publisher.scope <= mcp.generation
    /\ publisher.scope = 0 => publisher.tools = 0 /\ ~publisher.blocked
    /\ publisher.scope # 0 => publisher.signature = <<"connected", publisher.scope>>
    /\ mcp.status = "connecting" => publisher.scope # mcp.generation
    /\ mcp.status = "connected" /\ publisher.blocked => publisher.scope # mcp.generation

IsWord(i) == posted[i].kind # "tools"
\* An answer that the panel awaits is being worked on or on its way.
AnswerComes ==
    /\ panel.asked = 0 => intents = {} /\ panel.awaiting = 0
    /\ panel.awaiting # 0 => \/ panel.awaiting \in intents
                             \/ \E i \in DOMAIN posted : posted[i].kind = "connection"
                                                         /\ posted[i].request = panel.awaiting
    /\ panel.awaiting = 0 /\ panel.status = "connected" => ~panel.closed

\* The last word on its way, or without one what the panel shows, is what was published last.
LastWord ==
    publisher.signature # <<>> =>
        /\ \A i \in DOMAIN posted : IsWord(i) /\ (\A j \in DOMAIN posted : IsWord(j) => j <= i) =>
               /\ posted[i].kind = "connection"
               /\ publisher.signature = <<posted[i].status, posted[i].generation>>
        /\ (\A i \in DOMAIN posted : ~IsWord(i)) /\ panel.awaiting = 0 =>
               publisher.signature = <<panel.status, panel.generation>>

ShownLink == Panel!ConnectionOfPanel(panel)
\* Catalogs so far of the controller's connection.
Counted == IF publisher.scope = mcp.generation THEN publisher.sequence ELSE 0
\* The catalogs of a connection are on their way in the order they are counted in.
InSequence ==
    /\ panel.generation <= mcp.generation
    /\ \A i \in DOMAIN posted : posted[i].kind # "cleared" => posted[i].generation <= mcp.generation
    /\ \A i \in DOMAIN posted : posted[i].kind = "connection" /\ posted[i].status = "connected" =>
           posted[i].generation # 0
    /\ panel.status = "connected" => panel.generation # 0
    /\ \A i, j \in DOMAIN posted :
           i < j /\ ~IsWord(i) /\ ~IsWord(j) /\ posted[i].generation = posted[j].generation =>
               posted[i].sequence < posted[j].sequence
    /\ \A i \in DOMAIN posted : ~IsWord(i) /\ posted[i].generation = ShownLink =>
           panel.sequence < posted[i].sequence
    /\ mcp.status \in {"connecting", "connected"} =>
           /\ \A i \in DOMAIN posted : ~IsWord(i) /\ posted[i].generation = mcp.generation =>
                  posted[i].sequence <= Counted
           /\ ShownLink = mcp.generation => panel.sequence <= Counted

\* The catalog last published is the last message on its way, or it has arrived.
CatalogComes ==
    mcp.status = "connected" /\ publisher.scope = mcp.generation /\ publisher.tools # 0
    /\ (panel.asked = 0 \/ mcp.oversized = 0) =>
        /\ posted # <<>> =>
             LET last == posted[Len(posted)] IN
             last.kind = "tools" /\ last.generation = mcp.generation /\ last.tools = publisher.tools
        /\ posted = <<>> /\ panel.awaiting = 0 => panel.tools = publisher.tools

PanelInv == PanelTyped /\ HostInv /\ AnswerComes /\ LastWord /\ InSequence /\ CatalogComes

LEMMA MovedIs ==
    ASSUME mcp \in PanelHosts, NEW to \in Statuses, NEW generation \in Nat, NEW tools \in Nat,
           Panel!Moves(to, generation, tools)
    PROVE  /\ mcp' \in PanelHosts /\ mcp'.oversized = mcp.oversized
           /\ mcp'.status = to /\ mcp'.generation = generation /\ mcp'.tools = tools
  <1>1. mcp' = [mcp EXCEPT !.status = to, !.generation = generation, !.tools = tools]
    BY DEF Panel!Moves
  <1> QED BY <1>1 DEF PanelHosts
LEMMA SomeTools == ASSUME NEW tools \in 1 .. MaxTools PROVE tools \in Nat /\ tools # 0
  OBVIOUS

LEMMA PanelInit == Panel!Init => PanelInv
  <1> SUFFICES ASSUME Panel!Init PROVE PanelInv
    OBVIOUS
  <1>1. Panel!Init
    OBVIOUS
  <1>2. /\ mcp \in [status : {"disconnected"}, generation : {0}, tools : {0}, oversized : {0, Oversized}]
        /\ intents = {} /\ posted = <<>> /\ publisher.signature = <<>>
        /\ publisher = [signature |-> <<>>, scope |-> 0, sequence |-> 0, blocked |-> FALSE, tools |-> 0]
        /\ panel = [status |-> "disconnected", generation |-> 0, tools |-> 0, sequence |-> 0,
                    closed |-> FALSE, awaiting |-> 0, asked |-> 0, busy |-> FALSE]
    BY <1>1 DEF Panel!Init, Panel!Unpublished
  <1>3. PanelTyped
    BY <1>2 DEF PanelTyped, PanelHosts, Panels, Publishers, Signatures, Statuses, Posts
  <1>4. HostInv /\ AnswerComes /\ CatalogComes
    BY <1>2 DEF HostInv, AnswerComes, CatalogComes
  <1>5. LastWord
    BY <1>2 DEF LastWord
  <1>6. InSequence
    BY <1>2 DEF InSequence, Counted, ShownLink, Panel!ConnectionOfPanel
  <1> QED BY <1>3, <1>4, <1>5, <1>6 DEF PanelInv

\* The controller moves on by itself.
LEMMA ControllerKeepsPanel ==
    ASSUME PanelInv,
           \/ Panel!ControllerConnects \/ Panel!ControllerConnected \/ Panel!ControllerFails
           \/ Panel!ControllerDisconnects \/ Panel!ControllerDisconnected \/ Panel!ToolsReplaced
    PROVE  PanelInv'
  <1>1. UNCHANGED <<publisher, intents, posted, panel>>
    BY DEF Panel!ControllerConnects, Panel!ControllerConnected, Panel!ControllerFails,
           Panel!ControllerDisconnects, Panel!ControllerDisconnected, Panel!ToolsReplaced, Panel!Moves
  <1>2. mcp \in [status : Statuses, generation : Nat, tools : Nat, oversized : {0, Oversized}]
    BY DEF PanelInv, PanelTyped, PanelHosts
  <1>3. /\ mcp' \in [status : Statuses, generation : Nat, tools : Nat, oversized : {0, Oversized}]
        /\ mcp'.oversized = mcp.oversized
        /\ \/ mcp'.generation = mcp.generation + 1 /\ mcp'.status = "connecting"
           \/ /\ mcp'.generation = mcp.generation /\ mcp'.status # "connecting"
              /\ mcp'.status # "disconnected" => mcp.status # "disconnected"
              /\ mcp'.status = "connected" => mcp.status \in {"connecting", "connected"}
        /\ mcp'.status = "connected" => mcp'.tools # 0
    <2>0. mcp \in PanelHosts /\ mcp.generation \in Nat /\ mcp.generation + 1 \in Nat
          /\ 0 \in Nat /\ mcp.status \in Statuses
      BY <1>2 DEF PanelHosts
    <2>d. {"connecting", "connected", "disconnecting", "disconnected", "failed"} \subseteq Statuses
      BY DEF Statuses
    <2> USE DEF PanelHosts
    <2>1. CASE Panel!ControllerConnects
      <3>1. mcp.status # "connected" /\ Panel!Moves("connecting", mcp.generation + 1, 0)
        BY <2>1 DEF Panel!ControllerConnects
      <3>2. mcp' \in PanelHosts /\ mcp'.oversized = mcp.oversized
            /\ mcp'.status = "connecting" /\ mcp'.generation = mcp.generation + 1
        BY <2>0, <2>d, <3>1, MovedIs
      <3> QED BY <3>2
    <2>2. CASE Panel!ControllerConnected \/ Panel!ToolsReplaced
      <3>1. PICK tools \in 1 .. MaxTools : Panel!Moves("connected", mcp.generation, tools)
        BY <2>2 DEF Panel!ControllerConnected, Panel!ToolsReplaced
      <3>2. mcp.status \in {"connecting", "connected"}
        BY <2>2 DEF Panel!ControllerConnected, Panel!ToolsReplaced
      <3>3. tools \in Nat /\ tools # 0
        BY SomeTools
      <3>4. mcp' \in PanelHosts /\ mcp'.oversized = mcp.oversized
            /\ mcp'.status = "connected" /\ mcp'.generation = mcp.generation /\ mcp'.tools = tools
        BY <2>0, <2>d, <3>1, <3>3, MovedIs
      <3> QED BY <3>2, <3>3, <3>4
    <2>3. CASE Panel!ControllerFails \/ Panel!ControllerDisconnects \/ Panel!ControllerDisconnected
      <3>1. PICK to \in {"failed", "disconnecting", "disconnected"} : Panel!Moves(to, mcp.generation, 0)
        BY <2>3 DEF Panel!ControllerFails, Panel!ControllerDisconnects, Panel!ControllerDisconnected
      <3>2. mcp.status = "disconnected" => FALSE
        BY <2>3 DEF Panel!ControllerFails, Panel!ControllerDisconnects, Panel!ControllerDisconnected
      <3>3. mcp' \in PanelHosts /\ mcp'.oversized = mcp.oversized
            /\ mcp'.status = to /\ mcp'.generation = mcp.generation
        BY <2>0, <2>d, <3>1, MovedIs
      <3> QED BY <3>2, <3>3
    <2> QED BY <2>1, <2>2, <2>3
  <1>4. PanelTyped' /\ AnswerComes' /\ LastWord'
    <2>1. PanelTyped'
      BY <1>1, <1>3 DEF PanelInv, PanelTyped, PanelHosts
    <2>2. AnswerComes' /\ LastWord'
      BY <1>1 DEF PanelInv, AnswerComes, LastWord, IsWord
    <2> QED BY <2>1, <2>2
  <1>5. publisher.scope \in Nat /\ HostInv
    BY DEF PanelInv, PanelTyped, Publishers
  <1>6. HostInv'
    BY <1>1, <1>2, <1>3, <1>5 DEF HostInv
  <1>7. InSequence'
    <2>1. InSequence /\ PanelTyped
      BY DEF PanelInv
    <2>2. \A i \in DOMAIN posted : posted[i] \in Posts
      BY <2>1 DEF PanelTyped
    <2>3. \A i \in DOMAIN posted : posted[i].kind # "cleared" => posted[i].generation \in Nat
      BY <2>2 DEF Posts, Words, Lists
    <2>4. ShownLink' = ShownLink /\ ShownLink \in Nat /\ ShownLink <= mcp.generation
          /\ panel.generation \in Nat
      BY <1>1, <1>2, <2>1 DEF ShownLink, Panel!ConnectionOfPanel, PanelTyped, Panels, InSequence
    <2>5. /\ panel.generation <= mcp'.generation
          /\ \A i \in DOMAIN posted : posted[i].kind # "cleared" => posted[i].generation <= mcp'.generation
      BY <1>2, <1>3, <2>1, <2>3, <2>4 DEF InSequence
    <2>6. mcp'.status \in {"connecting", "connected"} =>
             /\ \A i \in DOMAIN posted : ~IsWord(i) /\ posted[i].generation = mcp'.generation =>
                    posted[i].sequence <= Counted'
             /\ ShownLink = mcp'.generation => panel.sequence <= Counted'
      <3>1. CASE mcp'.generation = mcp.generation + 1
        <4>1. ShownLink # mcp'.generation
          BY <1>2, <2>4, <3>1
        <4>2. \A i \in DOMAIN posted : ~IsWord(i) => posted[i].generation # mcp'.generation
          BY <1>2, <2>1, <2>3, <3>1 DEF InSequence, IsWord
        <4> QED BY <4>1, <4>2
      <3>2. CASE mcp'.generation = mcp.generation /\ mcp'.status # "connecting"
        <4>1. Counted' = Counted
          BY <1>1, <3>2 DEF Counted
        <4>2. mcp'.status \in {"connecting", "connected"} => mcp.status \in {"connecting", "connected"}
          BY <1>2, <1>3, <3>2
        <4> QED BY <2>1, <3>2, <4>1, <4>2 DEF InSequence
      <3> QED BY <1>3, <3>1, <3>2
    <2> QED BY <1>1, <2>1, <2>4, <2>5, <2>6 DEF InSequence, IsWord
  <1>8. CatalogComes'
    <2>1. CASE mcp'.status = "connected" /\ publisher.scope = mcp'.generation
      <3>1. mcp.status = "connected" /\ mcp'.generation = mcp.generation
        BY <1>2, <1>3, <1>5, <2>1 DEF HostInv
      <3> QED BY <1>1, <1>3, <2>1, <3>1 DEF PanelInv, CatalogComes
    <2>2. CASE ~(mcp'.status = "connected" /\ publisher.scope = mcp'.generation)
      BY <1>1, <2>2 DEF CatalogComes
    <2> QED BY <2>1, <2>2
  <1> QED BY <1>4, <1>6, <1>7, <1>8 DEF PanelInv

\* The panel asks to connect or to disconnect.
LEMMA AskingKeepsPanel ==
    ASSUME PanelInv, Panel!PanelConnects \/ Panel!PanelDisconnects
    PROVE  PanelInv'
  <1>1. UNCHANGED <<mcp, publisher, posted>>
    BY DEF Panel!PanelConnects, Panel!PanelDisconnects, Panel!Asks
  <1>2. panel \in [status : Statuses, generation : Nat, tools : Nat, sequence : Nat,
                   closed : BOOLEAN, awaiting : Nat, asked : Nat, busy : BOOLEAN]
        /\ intents \subseteq Nat \ {0}
    BY DEF PanelInv, PanelTyped, Panels
  <1>9. panel.asked + 1 \in Nat \ {0}
    BY <1>2
  <1>3. /\ panel' \in Panels
        /\ intents' = intents \cup {panel.asked + 1}
        /\ panel'.status = panel.status /\ panel'.generation = panel.generation
        /\ panel'.sequence = 0 /\ panel'.awaiting = panel.asked + 1 /\ panel'.asked = panel.asked + 1
    <2>1. PICK p \in Panels : /\ Panel!Asks(p) /\ p.sequence = 0 /\ p.asked = panel.asked
                              /\ p.status = panel.status /\ p.generation = panel.generation
      <3>1. panel \in Panels
        BY <1>2 DEF Panels
      <3>2. Panel!Closed(panel) \in Panels
        BY <3>1 DEF Panel!Closed, Panels
      <3>3. [Panel!Closed(panel) EXCEPT !.tools = 0] \in Panels
        BY <3>2 DEF Panels
      <3>4. /\ Panel!Closed(panel).sequence = 0 /\ Panel!Closed(panel).asked = panel.asked
            /\ Panel!Closed(panel).status = panel.status
            /\ Panel!Closed(panel).generation = panel.generation
        BY <3>1 DEF Panel!Closed, Panels
      <3>5. CASE Panel!PanelConnects
        BY <3>2, <3>3, <3>4, <3>5 DEF Panel!PanelConnects, Panels
      <3>6. CASE Panel!PanelDisconnects
        BY <3>2, <3>4, <3>6 DEF Panel!PanelDisconnects
      <3> QED BY <3>5, <3>6
    <2>2. panel' = [p EXCEPT !.busy = TRUE, !.asked = @ + 1, !.awaiting = panel.asked + 1]
          /\ intents' = intents \cup {panel.asked + 1}
      BY <2>1 DEF Panel!Asks
    <2> QED BY <1>9, <2>1, <2>2 DEF Panels
  <1>4. panel'.awaiting # 0 /\ panel'.asked # 0 /\ panel'.awaiting \in intents'
        /\ intents' \subseteq Nat \ {0}
    BY <1>2, <1>3, <1>9
  <1>5. PanelTyped' /\ HostInv' /\ AnswerComes'
    <2>1. PanelTyped'
      BY <1>1, <1>3, <1>4 DEF PanelInv, PanelTyped, Panels
    <2>2. HostInv' /\ AnswerComes'
      BY <1>1, <1>4 DEF PanelInv, HostInv, AnswerComes
    <2> QED BY <2>1, <2>2
  <1>6. LastWord'
    BY <1>1, <1>4 DEF PanelInv, LastWord, IsWord
  <1>7. InSequence'
    <2>1. ShownLink' = ShownLink
      BY <1>3 DEF ShownLink, Panel!ConnectionOfPanel
    <2>2. \A i \in DOMAIN posted : ~IsWord(i) => 0 < posted[i].sequence
      <3>1. \A i \in DOMAIN posted : posted[i] \in Posts
        BY DEF PanelInv, PanelTyped
      <3> QED BY <3>1 DEF Posts, Words, Lists, IsWord
    <2>3. Counted' = Counted /\ Counted >= 0
      BY <1>1 DEF Counted, PanelInv, PanelTyped, Publishers
    <2>4. InSequence
      BY DEF PanelInv
    <2> QED BY <1>1, <1>3, <2>1, <2>2, <2>3, <2>4 DEF InSequence, IsWord
  <1>8. CatalogComes'
    <2>1. CASE mcp.oversized = 0
      BY <1>1, <1>4, <2>1 DEF PanelInv, CatalogComes
    <2>2. CASE mcp.oversized # 0
      BY <1>1, <1>4, <2>2 DEF CatalogComes
    <2> QED BY <2>1, <2>2
  <1> QED BY <1>5, <1>6, <1>7, <1>8 DEF PanelInv

\* What the Host publishes: a word about the connection, if it says so, and behind it the
\* catalog, if it lists it.
Reported(reply) == Panel!ConnectionOf(reply)
Listed == Panel!CatalogOf(Counted + 1)
Publication(reply, says, lists) ==
    /\ posted' = IF says THEN IF lists THEN posted \o <<Reported(reply)>> \o <<Listed>>
                              ELSE posted \o <<Reported(reply)>>
                 ELSE IF lists THEN posted \o <<Listed>> ELSE posted
    /\ publisher' \in Publishers
    /\ publisher'.signature = <<mcp.status, mcp.generation>>
    /\ mcp' \in PanelHosts
    /\ mcp'.generation = mcp.generation /\ mcp'.oversized = mcp.oversized
    /\ mcp' = mcp \/ (mcp.status = "connected" /\ mcp'.status = "disconnecting")
    /\ mcp.status # "connected" =>
           ~lists /\ mcp' = mcp /\ publisher'.scope = 0 /\ publisher'.tools = 0 /\ ~publisher'.blocked
    /\ mcp.status = "connected" =>
           /\ publisher'.scope = mcp.generation
           /\ publisher'.sequence = Counted + (IF lists THEN 1 ELSE 0)
           /\ mcp' = mcp => ~publisher'.blocked
           /\ publisher'.tools = IF lists THEN mcp.tools
                                 ELSE IF publisher.scope = mcp.generation THEN publisher.tools ELSE 0

LEMMA RescopedIs ==
    ASSUME NEW s \in Publishers, NEW scope \in Nat
    PROVE  LET p == [s EXCEPT !.scope = scope, !.sequence = 0, !.blocked = FALSE, !.tools = 0]
           IN  /\ p \in Publishers /\ p.signature = s.signature /\ p.scope = scope
               /\ p.sequence = 0 /\ ~p.blocked /\ p.tools = 0
  BY DEF Publishers
LEMMA CountedOn ==
    ASSUME NEW p \in Publishers, NEW tools \in Nat
    PROVE  LET q == [p EXCEPT !.sequence = @ + 1, !.tools = tools]
           IN  /\ q \in Publishers /\ q.signature = p.signature /\ q.scope = p.scope
               /\ q.sequence = p.sequence + 1 /\ q.blocked = p.blocked /\ q.tools = tools
  <1>1. \A n \in Nat :
          LET q == [p EXCEPT !.sequence = n, !.tools = tools]
          IN  /\ q \in Publishers /\ q.signature = p.signature /\ q.scope = p.scope
              /\ q.sequence = n /\ q.blocked = p.blocked /\ q.tools = tools
    BY DEF Publishers
  <1>2. p.sequence + 1 \in Nat
    BY DEF Publishers
  <1> HIDE DEF Publishers
  <1> QED BY <1>1, <1>2

LEMMA PublishIs ==
    ASSUME PanelTyped, HostInv, NEW reply \in Nat, NEW force \in BOOLEAN,
           Panel!Publishes(reply, force)
    PROVE  \E says, lists \in BOOLEAN :
               /\ Publication(reply, says, lists)
               /\ says <=> force \/ publisher.signature # <<mcp.status, mcp.generation>>
               /\ mcp.status = "connected" /\ mcp' = mcp /\ force /\ mcp.oversized = 0 => lists
  <1> DEFINE changed == force \/ publisher.signature # <<mcp.status, mcp.generation>>
             said == [publisher EXCEPT !.signature = <<mcp.status, mcp.generation>>]
             p == Panel!Rescoped(said)
             connection == IF changed THEN <<Panel!ConnectionOf(reply)>> ELSE <<>>
             due == ~p.blocked /\ mcp.tools # 0 /\ (force \/ p.tools # mcp.tools)
             fits == mcp.tools # mcp.oversized
  <1>t. /\ mcp \in PanelHosts /\ mcp.status \in Statuses /\ mcp.generation \in Nat /\ mcp.tools \in Nat
        /\ publisher \in Publishers
        /\ posted \in Seq(Posts)
    BY DEF PanelTyped, PanelHosts
  <1>s. <<mcp.status, mcp.generation>> \in Signatures
    BY <1>t DEF Signatures
  <1>1. /\ said \in Publishers
        /\ said.signature = <<mcp.status, mcp.generation>> /\ said.scope = publisher.scope
        /\ said.sequence = publisher.sequence /\ said.blocked = publisher.blocked
        /\ said.tools = publisher.tools
    BY <1>t, <1>s DEF Publishers
  <1> HIDE DEF said
  <1>2. /\ p \in Publishers
        /\ p.signature = <<mcp.status, mcp.generation>> /\ p.scope = mcp.generation
        /\ p.sequence = Counted
        /\ p.blocked => publisher.scope = mcp.generation /\ publisher.blocked
        /\ p.tools = IF publisher.scope = mcp.generation THEN publisher.tools ELSE 0
    <2>1. CASE said.scope = mcp.generation
      BY <1>1, <2>1 DEF Panel!Rescoped, Counted, Publishers
    <2>2. CASE said.scope # mcp.generation
      <3>1. p = [said EXCEPT !.scope = mcp.generation, !.sequence = 0, !.blocked = FALSE, !.tools = 0]
        BY <2>2 DEF Panel!Rescoped
      <3>2. /\ p \in Publishers
            /\ p.signature = said.signature /\ p.scope = mcp.generation
            /\ p.sequence = 0 /\ ~p.blocked /\ p.tools = 0
        <4> HIDE DEF p
        <4>1. /\ said \in Publishers /\ mcp.generation \in Nat
          BY <1>1, <1>t
        <4> QED BY <3>1, <4>1, RescopedIs
      <3> QED BY <1>1, <2>2, <3>2 DEF Counted
    <2> QED BY <2>1, <2>2
  <1>b. mcp.status = "connected" => ~p.blocked /\ mcp.tools # 0
    BY <1>2 DEF HostInv, Publishers
  <1>p. \/ /\ mcp.status # "connected"
           /\ publisher' = [Panel!Unpublished EXCEPT !.signature = said.signature]
           /\ posted' = posted \o connection /\ mcp' = mcp
        \/ /\ mcp.status = "connected" /\ due /\ p.sequence = MaxSequence
           /\ publisher' = [p EXCEPT !.blocked = TRUE] /\ posted' = posted \o connection
           /\ mcp' = [mcp EXCEPT !.status = "disconnecting", !.tools = 0]
        \/ /\ mcp.status = "connected" /\ due /\ fits
           /\ publisher' = [p EXCEPT !.sequence = @ + 1, !.tools = mcp.tools]
           /\ posted' = posted \o connection \o <<Panel!CatalogOf(p.sequence + 1)>> /\ mcp' = mcp
        \/ /\ mcp.status = "connected" /\ ~(due /\ fits)
           /\ publisher' = p /\ posted' = posted \o connection /\ mcp' = mcp
    BY DEF Panel!Publishes, said
  <1> HIDE DEF p
  <1>n. posted \o <<>> = posted
    BY <1>t
  <1>c. posted \o connection = IF changed THEN posted \o <<Reported(reply)>> ELSE posted
    BY <1>n DEF Reported
  <1> HIDE DEF connection, changed
  <1>3. ASSUME mcp.status # "connected",
               publisher' = [Panel!Unpublished EXCEPT !.signature = said.signature],
               posted' = posted \o connection, mcp' = mcp
        PROVE  Publication(reply, changed, FALSE)
    <2>1. /\ publisher' \in Publishers
          /\ publisher'.signature = said.signature
          /\ publisher'.scope = 0 /\ publisher'.tools = 0 /\ publisher'.blocked = FALSE
      BY <1>3, <1>1 DEF Panel!Unpublished, Publishers
    <2> QED BY <1>t, <1>1, <1>c, <1>3, <2>1 DEF Publication
  <1>4. ASSUME mcp.status = "connected",
               publisher' = [p EXCEPT !.blocked = TRUE], posted' = posted \o connection,
               mcp' = [mcp EXCEPT !.status = "disconnecting", !.tools = 0]
        PROVE  Publication(reply, changed, FALSE) /\ mcp' # mcp
    <2>1. /\ publisher' \in Publishers
          /\ publisher'.signature = p.signature /\ publisher'.scope = p.scope
          /\ publisher'.tools = p.tools /\ publisher'.sequence = p.sequence
      BY <1>4, <1>2 DEF Publishers
    <2>2. /\ mcp' \in PanelHosts /\ mcp'.status = "disconnecting" /\ mcp'.generation = mcp.generation
          /\ mcp'.oversized = mcp.oversized
      BY <1>4, <1>t DEF PanelHosts, Statuses
    <2>3. mcp' # mcp
      BY <1>4, <2>2
    <2>4. Counted \in Nat
      BY <1>t DEF Counted, Publishers
    <2> QED BY <1>2, <1>c, <1>4, <2>1, <2>2, <2>3, <2>4 DEF Publication
  <1>5. ASSUME mcp.status = "connected",
               publisher' = [p EXCEPT !.sequence = @ + 1, !.tools = mcp.tools],
               posted' = posted \o connection \o <<Panel!CatalogOf(p.sequence + 1)>>, mcp' = mcp
        PROVE  Publication(reply, changed, TRUE)
    <2>1. /\ publisher' \in Publishers
          /\ publisher'.signature = p.signature /\ publisher'.scope = p.scope
          /\ publisher'.tools = mcp.tools /\ publisher'.sequence = p.sequence + 1
          /\ publisher'.blocked = p.blocked
      <3>1. p \in Publishers /\ mcp.tools \in Nat
        BY <1>2, <1>t
      <3>2. publisher' = [p EXCEPT !.sequence = @ + 1, !.tools = mcp.tools]
        BY <1>5
      <3> QED BY <3>1, <3>2, CountedOn
    <2>2. posted' = IF changed THEN posted \o <<Reported(reply)>> \o <<Listed>> ELSE posted \o <<Listed>>
      BY <1>c, <1>2, <1>5 DEF Listed
    <2> QED BY <1>t, <1>2, <1>b, <1>5, <2>1, <2>2 DEF Publication
  <1>6. ASSUME mcp.status = "connected", publisher' = p, posted' = posted \o connection, mcp' = mcp
        PROVE  Publication(reply, changed, FALSE)
    <2>4. Counted \in Nat
      BY <1>t DEF Counted, Publishers
    <2> QED BY <1>t, <1>2, <1>b, <1>c, <1>6, <2>4 DEF Publication
  <1>7. changed \in BOOLEAN /\ (changed <=> force \/ publisher.signature # <<mcp.status, mcp.generation>>)
    BY DEF changed
  <1>8. mcp.status = "connected" /\ force /\ mcp.oversized = 0 => due /\ fits
    BY <1>b
  <1> HIDE DEF due, fits
  <1> QED BY <1>p, <1>3, <1>4, <1>5, <1>6, <1>7, <1>8

\* What is on its way after a publication.
LEMMA PublishedIs ==
    ASSUME PanelTyped, HostInv, NEW reply \in Nat, NEW says \in BOOLEAN, NEW lists \in BOOLEAN,
           lists => mcp.status = "connected",
           Publication(reply, says, lists)
    PROVE  LET k == Len(posted)
               w == IF says THEN 1 ELSE 0
               l == IF lists THEN 1 ELSE 0
           IN  /\ posted' \in Seq(Posts) /\ k \in Nat /\ Len(posted') = k + w + l
               /\ DOMAIN posted = 1 .. k /\ DOMAIN posted' = 1 .. k + w + l
               /\ \A i \in 1 .. k : posted'[i] = posted[i]
               /\ says => posted'[k + 1] = Reported(reply)
               /\ lists => posted'[k + w + 1] = Listed
  <1>1. posted \in Seq(Posts) /\ mcp \in PanelHosts
    BY DEF PanelTyped, PanelHosts
  <1>2. Reported(reply) \in Posts
    BY <1>1 DEF Reported, Panel!ConnectionOf, Posts, Words, PanelHosts
  <1>3. lists => Listed \in Posts
    <2>1. Counted + 1 \in Nat \ {0}
      BY DEF Counted, PanelTyped, Publishers
    <2> QED BY <1>1, <2>1 DEF Listed, Panel!CatalogOf, Posts, Lists, HostInv, PanelHosts
  <1> HIDE DEF Posts
  <1>4. \A s \in Seq(Posts) : \A m \in Posts :
            /\ s \o <<m>> \in Seq(Posts) /\ Len(s \o <<m>>) = Len(s) + 1 /\ Len(s) \in Nat
            /\ DOMAIN s = 1 .. Len(s) /\ DOMAIN (s \o <<m>>) = 1 .. Len(s) + 1
            /\ \A i \in 1 .. Len(s) : (s \o <<m>>)[i] = s[i]
            /\ (s \o <<m>>)[Len(s) + 1] = m
    OBVIOUS
  <1>5. CASE says /\ lists
    <2>1. posted' = posted \o <<Reported(reply)>> \o <<Listed>>
      BY <1>5 DEF Publication
    <2> DEFINE s == posted \o <<Reported(reply)>>
    <2>2. /\ s \in Seq(Posts) /\ Len(s) = Len(posted) + 1 /\ Len(posted) \in Nat
          /\ DOMAIN posted = 1 .. Len(posted)
          /\ \A i \in 1 .. Len(posted) : s[i] = posted[i]
          /\ s[Len(posted) + 1] = Reported(reply)
      BY <1>1, <1>2, <1>4
    <2> HIDE DEF s
    <2>3. /\ s \o <<Listed>> \in Seq(Posts) /\ Len(s \o <<Listed>>) = Len(s) + 1
          /\ DOMAIN (s \o <<Listed>>) = 1 .. Len(s) + 1
          /\ \A i \in 1 .. Len(s) : (s \o <<Listed>>)[i] = s[i]
          /\ (s \o <<Listed>>)[Len(s) + 1] = Listed
      BY <1>3, <1>4, <1>5, <2>2
    <2>4. posted' = s \o <<Listed>>
      BY <2>1 DEF s
    <2> HIDE DEF Reported, Listed
    <2> QED BY <1>5, <2>2, <2>3, <2>4
  <1>6. CASE says /\ ~lists
    BY <1>1, <1>2, <1>4, <1>6 DEF Publication
  <1>7. CASE ~says /\ lists
    BY <1>1, <1>3, <1>4, <1>7 DEF Publication
  <1>8. CASE ~says /\ ~lists
    BY <1>1, <1>8 DEF Publication
  <1> QED BY <1>5, <1>6, <1>7, <1>8

\* The Host publishes.
LEMMA PublishingKeepsPanel ==
    ASSUME PanelInv, NEW reply \in Nat, NEW force \in BOOLEAN,
           Panel!Publishes(reply, force), UNCHANGED panel,
           \/ ~force /\ reply = 0 /\ UNCHANGED intents
           \/ force /\ reply \in intents /\ intents' = intents \ {reply}
    PROVE  PanelInv'
  <1>1. PanelTyped /\ HostInv /\ AnswerComes /\ LastWord /\ InSequence /\ CatalogComes
    BY DEF PanelInv
  <1>2. PICK says, lists \in BOOLEAN :
            /\ Publication(reply, says, lists)
            /\ says <=> force \/ publisher.signature # <<mcp.status, mcp.generation>>
            /\ mcp.status = "connected" /\ mcp' = mcp /\ force /\ mcp.oversized = 0 => lists
    BY <1>1, PublishIs
  <1> DEFINE k == Len(posted)
             w == IF says THEN 1 ELSE 0
             l == IF lists THEN 1 ELSE 0
  <1>c. lists => mcp.status = "connected"
    BY <1>2 DEF Publication
  <1>3. /\ posted' \in Seq(Posts) /\ k \in Nat /\ Len(posted') = k + w + l
        /\ DOMAIN posted = 1 .. k /\ DOMAIN posted' = 1 .. k + w + l
        /\ \A i \in 1 .. k : posted'[i] = posted[i]
        /\ says => posted'[k + 1] = Reported(reply)
        /\ lists => posted'[k + w + 1] = Listed
    BY <1>1, <1>2, <1>c, PublishedIs
  <1>4. /\ w \in {0, 1} /\ l \in {0, 1} /\ (says <=> w = 1) /\ (lists <=> l = 1)
    OBVIOUS
  <1> HIDE DEF k, w, l
  <1>r. /\ Reported(reply).kind = "connection" /\ Reported(reply).request = reply
        /\ Reported(reply).status = mcp.status /\ Reported(reply).generation = mcp.generation
    BY DEF Reported, Panel!ConnectionOf
  <1>l. /\ Listed.kind = "tools" /\ Listed.generation = mcp.generation
        /\ Listed.sequence = Counted + 1 /\ Listed.tools = mcp.tools
    BY DEF Listed, Panel!CatalogOf
  \* Where a message of now comes from.
  <1>i. \A i \in DOMAIN posted' :
            \/ i \in DOMAIN posted /\ posted'[i] = posted[i]
            \/ says /\ i = k + 1 /\ posted'[i] = Reported(reply)
            \/ lists /\ i = k + w + 1 /\ posted'[i] = Listed
    BY <1>3, <1>4
  <1>t. /\ mcp \in PanelHosts /\ mcp' \in PanelHosts
        /\ mcp.generation \in Nat /\ mcp'.generation = mcp.generation /\ mcp'.oversized = mcp.oversized
        /\ mcp' = mcp \/ (mcp.status = "connected" /\ mcp'.status = "disconnecting")
        /\ publisher' \in Publishers /\ Counted \in Nat
    BY <1>1, <1>2 DEF Publication, PanelTyped, PanelHosts, Counted, Publishers
  <1>5. PanelTyped'
    <2>1. intents' \subseteq intents
      OBVIOUS
    <2> QED BY <1>1, <1>3, <1>t, <2>1 DEF PanelTyped
  <1>6. HostInv'
    <2>1. CASE mcp.status # "connected"
      <3>1. mcp' = mcp /\ publisher'.scope = 0 /\ publisher'.tools = 0 /\ ~publisher'.blocked
        BY <1>2, <2>1 DEF Publication
      <3> QED BY <1>1, <1>t, <2>1, <3>1 DEF HostInv, PanelHosts
    <2>2. CASE mcp.status = "connected"
      <3>1. /\ publisher'.scope = mcp.generation /\ publisher'.signature = <<mcp.status, mcp.generation>>
            /\ mcp' = mcp => ~publisher'.blocked
        BY <1>2, <2>2 DEF Publication
      <3>2. mcp.generation # 0 /\ mcp.tools # 0
        BY <1>1, <2>2 DEF HostInv
      <3>3. mcp' = mcp \/ mcp'.status = "disconnecting"
        BY <1>t
      <3> QED BY <1>t, <2>2, <3>1, <3>2, <3>3 DEF HostInv
    <2> QED BY <2>1, <2>2
  <1>7. AnswerComes'
    <2>1. panel.asked = 0 => intents' = {} /\ panel.awaiting = 0
      BY <1>1 DEF AnswerComes
    <2>2. ASSUME panel.awaiting # 0
          PROVE  \/ panel.awaiting \in intents'
                 \/ \E i \in DOMAIN posted' : posted'[i].kind = "connection"
                                              /\ posted'[i].request = panel.awaiting
      <3>1. CASE force /\ reply = panel.awaiting
        BY <1>2, <1>3, <1>4, <1>r, <3>1
      <3>2. CASE panel.awaiting \in intents /\ ~(force /\ reply = panel.awaiting)
        BY <3>2
      <3>3. CASE panel.awaiting \notin intents
        <4>1. PICK i \in DOMAIN posted : posted[i].kind = "connection"
                                         /\ posted[i].request = panel.awaiting
          BY <1>1, <2>2, <3>3 DEF AnswerComes
        <4>2. i \in DOMAIN posted' /\ posted'[i] = posted[i]
          BY <1>3, <1>4
        <4> QED BY <4>1, <4>2
      <3> QED BY <3>1, <3>2, <3>3
    <2> QED BY <1>1, <2>1, <2>2 DEF AnswerComes
  <1>8. LastWord'
    <2>s. publisher'.signature = <<mcp.status, mcp.generation>>
      BY <1>2 DEF Publication
    <2>n. \A a, b : <<a, b>> # <<>>
      OBVIOUS
    <2>1. CASE says
      <3>1. k + 1 \in DOMAIN posted' /\ posted'[k + 1] = Reported(reply)
            /\ posted'[k + 1].kind # "tools"
        BY <1>3, <1>4, <1>r, <2>1
      <3>2. \A i \in DOMAIN posted' : i > k + 1 => ~IsWord(i)'
        BY <1>3, <1>4, <1>i, <1>l, <2>1 DEF IsWord
      <3>3. \A i \in DOMAIN posted' : IsWord(i)' /\ (\A j \in DOMAIN posted' : IsWord(j)' => j <= i)
                                          => i = k + 1
        <4>1. k + 1 \in Nat /\ \A i \in DOMAIN posted' : i \in Nat
          BY <1>3, <1>4
        <4> QED BY <3>1, <3>2, <4>1 DEF IsWord
      <3>4. ~\A i \in DOMAIN posted' : ~IsWord(i)'
        BY <3>1 DEF IsWord
      <3>5. \A i \in DOMAIN posted' : IsWord(i)' /\ (\A j \in DOMAIN posted' : IsWord(j)' => j <= i) =>
               /\ posted'[i].kind = "connection"
               /\ publisher'.signature = <<posted'[i].status, posted'[i].generation>>
        BY <2>s, <1>r, <3>1, <3>3
      <3> QED BY <3>4, <3>5 DEF LastWord
    <2>2. CASE ~says
      <3>1. publisher.signature = publisher'.signature /\ publisher.signature # <<>>
        <4>1. publisher.signature = <<mcp.status, mcp.generation>>
          BY <1>2, <2>2
        <4> QED BY <2>n, <2>s, <4>1
      <3>2. \A i \in DOMAIN posted' : IsWord(i)' => i \in DOMAIN posted /\ posted'[i] = posted[i] /\ IsWord(i)
        BY <1>i, <1>l, <2>2 DEF IsWord
      <3>3. \A i \in DOMAIN posted : i \in DOMAIN posted' /\ posted'[i] = posted[i] /\ (IsWord(i) <=> IsWord(i)')
        BY <1>3, <1>4 DEF IsWord
      <3>4. ASSUME NEW i \in DOMAIN posted', IsWord(i)', \A j \in DOMAIN posted' : IsWord(j)' => j <= i
            PROVE  posted'[i].kind = "connection"
                   /\ publisher'.signature = <<posted'[i].status, posted'[i].generation>>
        <4>1. i \in DOMAIN posted /\ posted'[i] = posted[i] /\ IsWord(i)
          BY <3>2, <3>4
        <4>2. \A j \in DOMAIN posted : IsWord(j) => j <= i
          BY <3>3, <3>4
        <4> QED BY <1>1, <3>1, <4>1, <4>2 DEF LastWord
      <3>5. (\A i \in DOMAIN posted' : ~IsWord(i)') => (\A i \in DOMAIN posted : ~IsWord(i))
        BY <3>3
      <3>6. panel' = panel
        OBVIOUS
      <3> QED BY <1>1, <3>1, <3>4, <3>5, <3>6 DEF LastWord
    <2> QED BY <2>1, <2>2
  <1>n. Counted' = IF mcp.status = "connected" THEN Counted + l
                   ELSE IF mcp.generation = 0 THEN publisher'.sequence ELSE 0
    <2>1. CASE mcp.status = "connected"
      <3>1. publisher'.scope = mcp.generation /\ publisher'.sequence = Counted + l
        BY <1>2, <2>1 DEF Publication, l
      <3> QED BY <1>t, <2>1, <3>1 DEF Counted
    <2>2. CASE mcp.status # "connected"
      <3>1. publisher'.scope = 0 /\ mcp' = mcp
        BY <1>2, <2>2 DEF Publication
      <3> QED BY <1>t, <2>2, <3>1 DEF Counted
    <2> QED BY <2>1, <2>2
  <1>9. InSequence'
    <2>1. ShownLink' = ShownLink
      BY DEF ShownLink
    <2>2. ShownLink \in Nat /\ panel.sequence \in Nat
      BY <1>1 DEF ShownLink, Panel!ConnectionOfPanel, PanelTyped, Panels
    <2>q. \A i \in DOMAIN posted : ~IsWord(i) => posted[i].sequence \in Nat /\ posted[i].generation \in Nat
      <3>1. \A i \in DOMAIN posted : posted[i] \in Posts
        BY <1>1 DEF PanelTyped
      <3> QED BY <3>1 DEF Posts, Words, Lists, IsWord
    <2>c. Counted' \in Nat
      BY <1>5 DEF PanelTyped, Publishers, Counted
    <2>3. \A i \in DOMAIN posted' : posted'[i].kind # "cleared" => posted'[i].generation <= mcp.generation
      BY <1>1, <1>i, <1>r, <1>l, <1>t DEF InSequence
    <2>4. \A i \in DOMAIN posted' : posted'[i].kind = "connection" /\ posted'[i].status = "connected" =>
              posted'[i].generation # 0
      BY <1>1, <1>i, <1>r, <1>l DEF InSequence, HostInv
    <2>w. \A i \in DOMAIN posted' : ~IsWord(i)' =>
              \/ i \in DOMAIN posted /\ posted'[i] = posted[i] /\ ~IsWord(i)
              \/ lists /\ i = k + w + 1 /\ posted'[i] = Listed
      BY <1>i, <1>r DEF IsWord
    <2>o. \A i \in DOMAIN posted : i <= k
      BY <1>3
    <2>5. \A i \in DOMAIN posted : lists /\ ~IsWord(i) /\ posted[i].generation = mcp.generation =>
              posted[i].sequence <= Counted
      BY <1>1, <1>c DEF InSequence
    <2>6. ASSUME NEW i \in DOMAIN posted', NEW j \in DOMAIN posted', i < j, ~IsWord(i)', ~IsWord(j)',
                 posted'[i].generation = posted'[j].generation
          PROVE  posted'[i].sequence < posted'[j].sequence
      <3>1. CASE j \in DOMAIN posted
        <4>1. i \in DOMAIN posted
          BY <1>3, <2>6, <3>1
        <4>2. posted'[i] = posted[i] /\ posted'[j] = posted[j] /\ ~IsWord(i) /\ ~IsWord(j)
          BY <1>3, <2>6, <3>1, <4>1 DEF IsWord
        <4> QED BY <1>1, <2>6, <3>1, <4>1, <4>2 DEF InSequence
      <3>2. CASE j \notin DOMAIN posted
        <4>1. lists /\ j = k + w + 1 /\ posted'[j] = Listed
          BY <2>6, <2>w, <3>2
        <4>2. i \in DOMAIN posted /\ posted'[i] = posted[i] /\ ~IsWord(i)
          BY <1>3, <1>4, <2>6, <2>w, <4>1
        <4> QED BY <1>l, <1>t, <2>5, <2>6, <2>q, <4>1, <4>2
      <3> QED BY <3>1, <3>2
    <2>7. ASSUME NEW i \in DOMAIN posted', ~IsWord(i)', posted'[i].generation = ShownLink
          PROVE  panel.sequence < posted'[i].sequence
      <3>1. CASE i \in DOMAIN posted /\ posted'[i] = posted[i] /\ ~IsWord(i)
        BY <1>1, <2>7, <3>1 DEF InSequence
      <3>2. CASE lists /\ posted'[i] = Listed
        <4>1. panel.sequence <= Counted
          BY <1>1, <1>c, <1>l, <2>7, <3>2 DEF InSequence
        <4> QED BY <1>l, <1>t, <2>2, <3>2, <4>1
      <3> QED BY <2>7, <2>w, <3>1, <3>2
    <2>8. ASSUME mcp'.status \in {"connecting", "connected"}
          PROVE  /\ \A i \in DOMAIN posted' : ~IsWord(i)' /\ posted'[i].generation = mcp.generation =>
                        posted'[i].sequence <= Counted'
                 /\ ShownLink = mcp.generation => panel.sequence <= Counted'
      <3>1. mcp' = mcp /\ mcp.status \in {"connecting", "connected"} /\ mcp.generation # 0
        BY <1>1, <1>t, <2>8 DEF HostInv
      <3>2. Counted <= Counted' /\ (lists => Counted' = Counted + 1)
        <4>1. CASE mcp.status = "connected"
          BY <1>n, <1>4, <1>t, <4>1
        <4>2. CASE mcp.status = "connecting"
          <5>1. Counted = 0
            BY <1>1, <4>2 DEF HostInv, Counted
          <5> QED BY <1>c, <2>c, <4>2, <5>1
        <4> QED BY <3>1, <4>1, <4>2
      <3>3. /\ \A i \in DOMAIN posted : ~IsWord(i) /\ posted[i].generation = mcp.generation =>
                   posted[i].sequence <= Counted
            /\ ShownLink = mcp.generation => panel.sequence <= Counted
        BY <1>1, <3>1 DEF InSequence
      <3>4. ShownLink = mcp.generation => panel.sequence <= Counted'
        BY <1>t, <2>2, <2>c, <3>2, <3>3
      <3>5. ASSUME NEW i \in DOMAIN posted', ~IsWord(i)', posted'[i].generation = mcp.generation
            PROVE  posted'[i].sequence <= Counted'
        <4>1. CASE i \in DOMAIN posted /\ posted'[i] = posted[i] /\ ~IsWord(i)
          BY <1>t, <2>q, <2>c, <3>2, <3>3, <3>5, <4>1
        <4>2. CASE lists /\ posted'[i] = Listed
          BY <1>l, <1>t, <2>c, <3>2, <4>2
        <4> QED BY <2>w, <3>5, <4>1, <4>2
      <3> QED BY <3>4, <3>5
    <2>9. panel' = panel /\ panel.generation <= mcp.generation
          /\ (panel.status = "connected" => panel.generation # 0)
      BY <1>1 DEF InSequence
    <2> QED BY <1>t, <2>1, <2>3, <2>4, <2>6, <2>7, <2>8, <2>9 DEF InSequence
  <1>10. CatalogComes'
    <2> SUFFICES ASSUME mcp'.status = "connected", publisher'.scope = mcp'.generation,
                        publisher'.tools # 0, panel.asked = 0 \/ mcp'.oversized = 0
                 PROVE  /\ posted' # <<>> =>
                             LET last == posted'[Len(posted')] IN
                             /\ last.kind = "tools" /\ last.generation = mcp'.generation
                             /\ last.tools = publisher'.tools
                        /\ posted' = <<>> /\ panel.awaiting = 0 => panel.tools = publisher'.tools
      BY DEF CatalogComes
    <2>1. mcp' = mcp /\ mcp.status = "connected"
      BY <1>t
    <2>2. CASE lists
      <3>1. Len(posted') = k + w + 1 /\ posted'[Len(posted')] = Listed /\ publisher'.tools = mcp.tools
        BY <1>2, <1>3, <1>4, <2>1, <2>2 DEF Publication
      <3>2. posted' # <<>>
        BY <1>3, <1>4, <3>1
      <3> QED BY <1>l, <2>1, <3>1, <3>2
    <2>3. CASE ~lists
      <3>1. publisher.scope = mcp.generation /\ publisher'.tools = publisher.tools
        BY <1>2, <2>1, <2>3 DEF Publication
      <3>2. ~force
        <4>1. force => panel.asked # 0
          BY <1>1 DEF AnswerComes
        <4> QED BY <1>2, <1>t, <2>1, <2>3, <4>1
      <3>3. publisher.signature = <<mcp.status, mcp.generation>>
        BY <1>1, <2>1, <3>1 DEF HostInv
      <3>4. posted' = posted
        BY <1>2, <2>3, <3>2, <3>3 DEF Publication
      <3> QED BY <1>1, <1>t, <2>1, <3>1, <3>4 DEF CatalogComes
    <2> QED BY <2>2, <2>3
  <1> QED BY <1>5, <1>6, <1>7, <1>8, <1>9, <1>10 DEF PanelInv

\* What taking the first message leaves.
LEMMA FirstTaken ==
    ASSUME PanelTyped, posted # <<>>, posted' = Tail(posted)
    PROVE  /\ posted' \in Seq(Posts) /\ Len(posted') = Len(posted) - 1 /\ Len(posted) \in Nat \ {0}
           /\ DOMAIN posted = 1 .. Len(posted) /\ DOMAIN posted' = 1 .. Len(posted) - 1
           /\ Head(posted) = posted[1] /\ posted[1] \in Posts
           /\ \A i \in DOMAIN posted' : i + 1 \in DOMAIN posted /\ posted'[i] = posted[i + 1]
  <1>1. posted \in Seq(Posts)
    BY DEF PanelTyped
  <1> HIDE DEF Posts
  <1> QED BY <1>1

Last == \A i \in DOMAIN posted : i = 1 \/ ~IsWord(i)
\* What a message that is taken must leave the panel with.
LEMMA TakingKeepsPanel ==
    ASSUME PanelInv, posted # <<>>, posted' = Tail(posted), UNCHANGED <<mcp, publisher, intents>>,
           panel' \in Panels, panel'.asked = panel.asked,
           panel'.awaiting \in {0, panel.awaiting},
           panel'.awaiting # 0 => posted[1].kind # "connection" \/ posted[1].request # panel.awaiting,
           panel'.awaiting = 0 /\ panel'.status = "connected" => ~panel'.closed,
           panel'.generation <= mcp.generation,
           panel'.status = "connected" => panel'.generation # 0,
           \A i \in DOMAIN posted : i > 1 /\ ~IsWord(i) /\ posted[i].generation = ShownLink' =>
               panel'.sequence < posted[i].sequence,
           mcp.status \in {"connecting", "connected"} /\ ShownLink' = mcp.generation =>
               panel'.sequence <= Counted,
           publisher.signature # <<>> /\ Last /\ panel'.awaiting = 0 =>
               publisher.signature = <<panel'.status, panel'.generation>>,
           mcp.status = "connected" /\ publisher.scope = mcp.generation /\ publisher.tools # 0
           /\ (panel.asked = 0 \/ mcp.oversized = 0) /\ Len(posted) = 1 /\ panel'.awaiting = 0 =>
               panel'.tools = publisher.tools
    PROVE  PanelInv'
  <1>1. PanelTyped /\ HostInv /\ AnswerComes /\ LastWord /\ InSequence /\ CatalogComes
    BY DEF PanelInv
  <1>2. /\ posted' \in Seq(Posts) /\ Len(posted') = Len(posted) - 1 /\ Len(posted) \in Nat \ {0}
        /\ DOMAIN posted = 1 .. Len(posted) /\ DOMAIN posted' = 1 .. Len(posted) - 1
        /\ \A i \in DOMAIN posted' : i + 1 \in DOMAIN posted /\ posted'[i] = posted[i + 1]
    BY <1>1, FirstTaken
  <1>3. \A i \in DOMAIN posted : i # 1 => i - 1 \in DOMAIN posted' /\ posted'[i - 1] = posted[i]
    BY <1>2
  <1>w. \A i \in DOMAIN posted' : IsWord(i)' <=> IsWord(i + 1)
    BY <1>2 DEF IsWord
  <1>n. \A i \in DOMAIN posted : i \in Nat \ {0}
    BY <1>2
  <1>m. \A i \in DOMAIN posted' : i \in Nat \ {0}
    BY <1>2
  <1>5. PanelTyped' /\ HostInv'
    <2>1. PanelTyped'
      BY <1>1, <1>2 DEF PanelTyped, Panels
    <2>2. HostInv'
      BY <1>1 DEF HostInv
    <2> QED BY <2>1, <2>2
  <1>6. AnswerComes'
    <2>1. ASSUME panel'.awaiting # 0, panel'.awaiting \notin intents
          PROVE  \E i \in DOMAIN posted' : posted'[i].kind = "connection"
                                           /\ posted'[i].request = panel'.awaiting
      <3>1. panel'.awaiting = panel.awaiting
        BY <2>1
      <3>2. PICK i \in DOMAIN posted : posted[i].kind = "connection" /\ posted[i].request = panel.awaiting
        BY <1>1, <2>1, <3>1 DEF AnswerComes
      <3>3. i # 1
        BY <2>1, <3>2
      <3> QED BY <1>3, <3>1, <3>2, <3>3
    <2>2. panel'.asked = 0 => intents' = {} /\ panel'.awaiting = 0
      BY <1>1 DEF AnswerComes
    <2> QED BY <2>1, <2>2 DEF AnswerComes
  <1>7. LastWord'
    <2>1. ASSUME publisher.signature # <<>>, NEW i \in DOMAIN posted', IsWord(i)',
                 \A j \in DOMAIN posted' : IsWord(j)' => j <= i
          PROVE  posted'[i].kind = "connection"
                 /\ publisher.signature = <<posted'[i].status, posted'[i].generation>>
      <3>1. i + 1 \in DOMAIN posted /\ IsWord(i + 1) /\ posted'[i] = posted[i + 1]
        BY <1>2, <1>w, <2>1
      <3>2. ASSUME NEW j \in DOMAIN posted, IsWord(j) PROVE j <= i + 1
        <4>1. CASE j = 1
          BY <1>m, <2>1, <4>1
        <4>2. CASE j # 1
          <5>1. j - 1 \in DOMAIN posted' /\ j - 1 + 1 = j
            BY <1>3, <1>n, <4>2
          <5>2. IsWord(j - 1)'
            BY <1>3, <3>2, <4>2, <5>1 DEF IsWord
          <5>3. j - 1 <= i
            BY <2>1, <5>1, <5>2
          <5> QED BY <1>m, <1>n, <5>3
        <4> QED BY <4>1, <4>2
      <3> QED BY <1>1, <2>1, <3>1, <3>2 DEF LastWord
    <2>2. (\A i \in DOMAIN posted' : ~IsWord(i)') => Last
      <3>1. ASSUME \A i \in DOMAIN posted' : ~IsWord(i)', NEW j \in DOMAIN posted, j # 1
            PROVE  ~IsWord(j)
        <4>1. j - 1 \in DOMAIN posted' /\ posted'[j - 1] = posted[j]
          BY <1>3, <3>1
        <4> QED BY <3>1, <4>1 DEF IsWord
      <3> QED BY <3>1 DEF Last
    <2> QED BY <2>1, <2>2 DEF LastWord
  <1>8. InSequence'
    <2>1. \A i \in DOMAIN posted' :
             /\ posted'[i].kind # "cleared" => posted'[i].generation <= mcp.generation
             /\ posted'[i].kind = "connection" /\ posted'[i].status = "connected" => posted'[i].generation # 0
      BY <1>1, <1>2 DEF InSequence
    <2>2. ASSUME NEW i \in DOMAIN posted', NEW j \in DOMAIN posted', i < j, ~IsWord(i)', ~IsWord(j)',
                 posted'[i].generation = posted'[j].generation
          PROVE  posted'[i].sequence < posted'[j].sequence
      <3>1. i + 1 \in DOMAIN posted /\ j + 1 \in DOMAIN posted /\ i + 1 < j + 1
        BY <1>2, <2>2, <1>m
      <3>2. posted'[i] = posted[i + 1] /\ posted'[j] = posted[j + 1] /\ ~IsWord(i + 1) /\ ~IsWord(j + 1)
        BY <1>2, <1>w, <2>2
      <3> QED BY <1>1, <2>2, <3>1, <3>2 DEF InSequence
    <2>3. ASSUME NEW i \in DOMAIN posted', ~IsWord(i)', posted'[i].generation = ShownLink'
          PROVE  panel'.sequence < posted'[i].sequence
      <3>1. i + 1 \in DOMAIN posted /\ i + 1 > 1 /\ posted'[i] = posted[i + 1] /\ ~IsWord(i + 1)
        BY <1>2, <1>m, <1>w, <2>3
      <3> QED BY <2>3, <3>1
    <2>4. Counted' = Counted
      BY DEF Counted
    <2>5. ASSUME mcp.status \in {"connecting", "connected"}, NEW i \in DOMAIN posted', ~IsWord(i)',
                 posted'[i].generation = mcp.generation
          PROVE  posted'[i].sequence <= Counted
      <3>1. i + 1 \in DOMAIN posted /\ posted'[i] = posted[i + 1] /\ ~IsWord(i + 1)
        BY <1>2, <1>w, <2>5
      <3> QED BY <1>1, <2>5, <3>1 DEF InSequence
    <2>6. UNCHANGED mcp
      OBVIOUS
    <2> QED BY <2>1, <2>2, <2>3, <2>4, <2>5, <2>6 DEF InSequence
  <1>9. CatalogComes'
    <2> SUFFICES ASSUME mcp.status = "connected", publisher.scope = mcp.generation,
                        publisher.tools # 0, panel.asked = 0 \/ mcp.oversized = 0
                 PROVE  /\ posted' # <<>> =>
                             LET last == posted'[Len(posted')] IN
                             /\ last.kind = "tools" /\ last.generation = mcp.generation
                             /\ last.tools = publisher.tools
                        /\ posted' = <<>> /\ panel'.awaiting = 0 => panel'.tools = publisher.tools
      BY DEF CatalogComes
    <2>1. posted' = <<>> => Len(posted) = 1
      BY <1>2
    <2>2. posted' # <<>> => posted'[Len(posted')] = posted[Len(posted)]
      <3>1. posted' # <<>> => Len(posted') # 0
        BY <1>2, EmptySeq
      <3> QED BY <1>2, <3>1
    <2> QED BY <1>1, <2>1, <2>2 DEF CatalogComes
  <1> QED BY <1>5, <1>6, <1>7, <1>8, <1>9 DEF PanelInv

LEMMA WordIs ==
    ASSUME PanelInv, NEW i \in DOMAIN posted
    PROVE  /\ posted[i] \in Posts /\ i \in Nat \ {0}
           /\ posted[i].kind \in {"connection", "tools", "cleared"}
           /\ posted[i].kind = "connection" =>
                /\ posted[i].request \in Nat /\ posted[i].status \in Statuses /\ posted[i].generation \in Nat
           /\ posted[i].kind = "tools" =>
                /\ posted[i].generation \in Nat \ {0} /\ posted[i].sequence \in Nat \ {0}
                /\ posted[i].tools \in Nat \ {0}
  <1>1. posted \in Seq(Posts)
    BY DEF PanelInv, PanelTyped
  <1>2. posted[i] \in Posts /\ i \in Nat \ {0}
    <2> HIDE DEF Posts
    <2> QED BY <1>1
  <1> QED BY <1>2 DEF Posts, Words, Lists

\* A message that changes nothing.
LEMMA IgnoringKeepsPanel ==
    ASSUME PanelInv, posted # <<>>, posted' = Tail(posted), UNCHANGED <<mcp, publisher, intents>>,
           panel' = panel,
           posted[1].kind = "connection" => panel.awaiting \notin {0, posted[1].request},
           posted[1].kind # "cleared",
           posted[1].kind = "tools" =>
               panel.closed \/ ShownLink # posted[1].generation \/ ~(posted[1].sequence > panel.sequence)
    PROVE  PanelInv'
  <1>1. PanelTyped /\ HostInv /\ AnswerComes /\ LastWord /\ InSequence /\ CatalogComes
    BY DEF PanelInv
  <1>2. panel' \in Panels /\ panel.awaiting \in Nat /\ panel.asked \in Nat
    BY <1>1 DEF PanelTyped, Panels
  <1>3. 1 \in DOMAIN posted /\ DOMAIN posted = 1 .. Len(posted)
    BY <1>1, FirstTaken
  <1>k. posted[1].kind \in {"connection", "tools"}
    BY <1>3, WordIs
  <1>l. ShownLink' = ShownLink
    BY DEF ShownLink
  <1>4. publisher.signature # <<>> /\ Last /\ panel.awaiting = 0 =>
            publisher.signature = <<panel.status, panel.generation>>
    <2> SUFFICES ASSUME publisher.signature # <<>>, Last, panel.awaiting = 0
                 PROVE  publisher.signature = <<panel.status, panel.generation>>
      OBVIOUS
    <2>1. \A i \in DOMAIN posted : ~IsWord(i)
      BY <1>k DEF IsWord, Last
    <2> QED BY <1>1, <2>1 DEF LastWord
  <1>5. ASSUME mcp.status = "connected", publisher.scope = mcp.generation, publisher.tools # 0,
               panel.asked = 0 \/ mcp.oversized = 0, Len(posted) = 1, panel.awaiting = 0
        PROVE  FALSE
    <2>1. posted[1].kind = "tools" /\ posted[1].generation = mcp.generation
      BY <1>1, <1>5 DEF CatalogComes
    <2>2. \A i \in DOMAIN posted : ~IsWord(i)
      BY <1>3, <1>5, <2>1 DEF IsWord
    <2>3. mcp.generation # 0
      BY <1>1, <1>5 DEF HostInv
    <2>4. publisher.signature = <<"connected", mcp.generation>> /\ publisher.signature # <<>>
      BY <1>1, <1>5, <2>3, \A a, b : <<a, b>> # <<>> DEF HostInv
    <2>5. <<panel.status, panel.generation>> = <<"connected", mcp.generation>>
      BY <1>1, <1>5, <2>2, <2>4 DEF LastWord
    <2>6. panel.status = "connected" /\ panel.generation = mcp.generation
      BY <2>5
    <2>7. ShownLink = mcp.generation /\ ~panel.closed
      BY <1>1, <1>5, <2>6 DEF ShownLink, Panel!ConnectionOfPanel, AnswerComes
    <2>8. panel.sequence < posted[1].sequence
      BY <1>1, <1>3, <2>1, <2>2, <2>7 DEF InSequence
    <2> QED BY <2>1, <2>7, <2>8
  <1>6. /\ \A i \in DOMAIN posted : i > 1 /\ ~IsWord(i) /\ posted[i].generation = ShownLink' =>
               panel.sequence < posted[i].sequence
        /\ mcp.status \in {"connecting", "connected"} /\ ShownLink' = mcp.generation =>
               panel.sequence <= Counted
        /\ panel.generation <= mcp.generation
        /\ panel.status = "connected" => panel.generation # 0
    BY <1>1, <1>l DEF InSequence
  <1>7. panel.awaiting = 0 /\ panel.status = "connected" => ~panel.closed
    BY <1>1 DEF AnswerComes
  <1> QED BY <1>2, <1>4, <1>5, <1>6, <1>7, TakingKeepsPanel

LEMMA ConnectionWordKeepsPanel == PanelInv /\ Panel!ReceiveConnection => PanelInv'
  <1> SUFFICES ASSUME PanelInv, Panel!ReceiveConnection PROVE PanelInv'
    OBVIOUS
  <1>1. PanelTyped /\ HostInv /\ AnswerComes /\ LastWord /\ InSequence /\ CatalogComes
    BY DEF PanelInv
  <1> DEFINE m == posted[1]
             live == m.status = "connected"
             moved == Panel!ConnectionOfPanel(panel) # (IF live THEN m.generation ELSE 0)
  <1>2. /\ posted # <<>> /\ posted' = Tail(posted) /\ UNCHANGED <<mcp, publisher, intents>>
        /\ Head(posted) = m /\ m.kind = "connection" /\ 1 \in DOMAIN posted
    BY <1>1, FirstTaken DEF Panel!ReceiveConnection, Panel!Arrives
  <1>3. m.request \in Nat /\ m.status \in Statuses /\ m.generation \in Nat
    BY <1>2, WordIs
  <1>4. CASE ~Panel!Expected(m)
    <2>1. panel' = panel /\ panel.awaiting \notin {0, m.request}
      BY <1>2, <1>4 DEF Panel!ReceiveConnection, Panel!Expected
    <2> QED BY <1>2, <2>1, IgnoringKeepsPanel
  <1>5. CASE Panel!Expected(m)
    <2> DEFINE p == Panel!Forgets(moved)
    <2>1. panel \in Panels
      BY <1>1 DEF PanelTyped
    <2>2. p \in Panels /\ p.asked = panel.asked
          /\ p.sequence = IF moved THEN 0 ELSE panel.sequence
      BY <2>1 DEF Panel!Forgets, Panels
    <2>3. panel' = [p EXCEPT !.status = m.status, !.generation = m.generation, !.awaiting = 0,
                             !.closed = ~live, !.busy = @ /\ live /\ ~moved,
                             !.tools = IF live /\ ~moved THEN @ ELSE 0]
      BY <1>2, <1>5 DEF Panel!ReceiveConnection
    <2>m. moved \in BOOLEAN /\ live \in BOOLEAN
      OBVIOUS
    <2>g. ShownLink # (IF live THEN m.generation ELSE 0) <=> moved
      BY DEF ShownLink
    <2> HIDE DEF p, moved
    <2>4. /\ panel' \in Panels /\ panel'.asked = panel.asked /\ panel'.awaiting = 0
          /\ panel'.status = m.status /\ panel'.generation = m.generation
          /\ panel'.sequence = p.sequence /\ (panel'.closed <=> ~live)
      BY <1>3, <2>2, <2>3, <2>m DEF Panels
    <2>5. ShownLink' = IF live THEN m.generation ELSE 0
      BY <2>4 DEF ShownLink, Panel!ConnectionOfPanel
    <2>6. m.generation <= mcp.generation /\ (live => m.generation # 0)
      BY <1>1, <1>2 DEF InSequence
    <2>7. ASSUME NEW i \in DOMAIN posted, ~IsWord(i), posted[i].generation = ShownLink'
          PROVE  panel'.sequence < posted[i].sequence
      <3>1. CASE moved
        <4>1. posted[i].sequence \in Nat \ {0}
          BY <2>7, WordIs DEF IsWord
        <4> QED BY <2>2, <2>4, <3>1, <4>1
      <3>2. CASE ~moved
        <4>1. ShownLink' = ShownLink /\ panel'.sequence = panel.sequence
          BY <2>2, <2>4, <2>5, <2>g, <3>2
        <4> QED BY <1>1, <2>7, <4>1 DEF InSequence
      <3> QED BY <3>1, <3>2
    <2>8. ASSUME mcp.status \in {"connecting", "connected"}, ShownLink' = mcp.generation
          PROVE  panel'.sequence <= Counted
      <3>1. CASE moved
        <4>1. Counted \in Nat
          BY <1>1 DEF Counted, PanelTyped, Publishers
        <4> QED BY <2>2, <2>4, <3>1, <4>1
      <3>2. CASE ~moved
        <4>1. ShownLink' = ShownLink /\ panel'.sequence = panel.sequence
          BY <2>2, <2>4, <2>5, <2>g, <3>2
        <4> QED BY <1>1, <2>8, <4>1 DEF InSequence
      <3> QED BY <3>1, <3>2
    <2>9. publisher.signature # <<>> /\ Last => publisher.signature = <<m.status, m.generation>>
      <3> SUFFICES ASSUME publisher.signature # <<>>, Last
                   PROVE  publisher.signature = <<m.status, m.generation>>
        OBVIOUS
      <3>1. IsWord(1) /\ \A j \in DOMAIN posted : IsWord(j) => j <= 1
        BY <1>2 DEF IsWord, Last
      <3> QED BY <1>1, <1>2, <3>1 DEF LastWord
    <2>10. ~(/\ mcp.status = "connected" /\ publisher.scope = mcp.generation /\ publisher.tools # 0
             /\ panel.asked = 0 \/ mcp.oversized = 0
             /\ Len(posted) = 1)
      BY <1>1, <1>2 DEF CatalogComes
    <2>11. panel'.status = "connected" => panel'.generation # 0
      BY <2>4, <2>6
    <2>12. panel'.generation <= mcp.generation
      BY <2>4, <2>6
    <2>13. panel'.status = "connected" => ~panel'.closed
      BY <2>4
    <2>14. publisher.signature # <<>> /\ Last => publisher.signature = <<panel'.status, panel'.generation>>
      BY <2>4, <2>9
    <2> HIDE DEF live, m
    <2> QED BY <1>2, <2>4, <2>7, <2>8, <2>10, <2>11, <2>12, <2>13, <2>14, TakingKeepsPanel
  <1> QED BY <1>4, <1>5

LEMMA CatalogWordKeepsPanel == PanelInv /\ Panel!ReceiveTools => PanelInv'
  <1> SUFFICES ASSUME PanelInv, Panel!ReceiveTools PROVE PanelInv'
    OBVIOUS
  <1>1. PanelTyped /\ HostInv /\ AnswerComes /\ LastWord /\ InSequence /\ CatalogComes
    BY DEF PanelInv
  <1> DEFINE m == posted[1]
  <1>2. /\ posted # <<>> /\ posted' = Tail(posted) /\ UNCHANGED <<mcp, publisher, intents>>
        /\ Head(posted) = m /\ m.kind = "tools" /\ 1 \in DOMAIN posted
        /\ DOMAIN posted = 1 .. Len(posted)
    BY <1>1, FirstTaken DEF Panel!ReceiveTools, Panel!Arrives
  <1>3. m.generation \in Nat \ {0} /\ m.sequence \in Nat \ {0} /\ m.tools \in Nat \ {0}
    BY <1>2, WordIs
  <1>4. CASE panel.closed \/ ShownLink # m.generation \/ ~(m.sequence > panel.sequence)
    <2>1. panel' = panel
      BY <1>2, <1>4 DEF Panel!ReceiveTools, Panel!Newer, ShownLink
    <2> QED BY <1>2, <1>4, <2>1, IgnoringKeepsPanel
  <1>5. CASE ~panel.closed /\ ShownLink = m.generation /\ m.sequence > panel.sequence
    <2>1. panel \in Panels
      BY <1>1 DEF PanelTyped
    <2>2. panel' = [panel EXCEPT !.tools = m.tools, !.sequence = m.sequence]
      BY <1>2, <1>5 DEF Panel!ReceiveTools, Panel!Newer, ShownLink
    <2>3. /\ panel' \in Panels /\ panel'.asked = panel.asked /\ panel'.awaiting = panel.awaiting
          /\ panel'.status = panel.status /\ panel'.generation = panel.generation
          /\ panel'.sequence = m.sequence /\ panel'.closed = panel.closed /\ panel'.tools = m.tools
      BY <1>3, <2>1, <2>2 DEF Panels
    <2>4. ShownLink' = ShownLink
      BY <2>3 DEF ShownLink, Panel!ConnectionOfPanel
    <2>5. ~IsWord(1)
      BY <1>2 DEF IsWord
    <2>6. \A i \in DOMAIN posted : i > 1 /\ ~IsWord(i) /\ posted[i].generation = ShownLink' =>
              panel'.sequence < posted[i].sequence
      BY <1>1, <1>2, <1>5, <2>3, <2>4, <2>5 DEF InSequence
    <2>7. mcp.status \in {"connecting", "connected"} /\ ShownLink' = mcp.generation =>
              panel'.sequence <= Counted
      BY <1>1, <1>2, <1>5, <2>3, <2>4, <2>5 DEF InSequence
    <2>8. publisher.signature # <<>> /\ Last /\ panel'.awaiting = 0 =>
              publisher.signature = <<panel'.status, panel'.generation>>
      <3> SUFFICES ASSUME publisher.signature # <<>>, Last, panel.awaiting = 0
                   PROVE  publisher.signature = <<panel.status, panel.generation>>
        BY <2>3
      <3>1. \A i \in DOMAIN posted : ~IsWord(i)
        BY <2>5 DEF Last
      <3> QED BY <1>1, <3>1 DEF LastWord
    <2>9. mcp.status = "connected" /\ publisher.scope = mcp.generation /\ publisher.tools # 0
          /\ (panel.asked = 0 \/ mcp.oversized = 0) /\ Len(posted) = 1 => panel'.tools = publisher.tools
      BY <1>1, <1>2, <2>3 DEF CatalogComes
    <2>10. /\ panel'.awaiting \in {0, panel.awaiting}
           /\ panel'.awaiting = 0 /\ panel'.status = "connected" => ~panel'.closed
           /\ panel'.generation <= mcp.generation
           /\ panel'.status = "connected" => panel'.generation # 0
           /\ posted[1].kind # "connection"
      BY <1>1, <1>2, <1>5, <2>3 DEF InSequence
    <2> HIDE DEF m
    <2> QED BY <1>2, <2>3, <2>6, <2>7, <2>8, <2>9, <2>10, TakingKeepsPanel
  <1> QED BY <1>4, <1>5

LEMMA ClearedWordKeepsPanel == PanelInv /\ Panel!ReceiveCleared => PanelInv'
  <1> SUFFICES ASSUME PanelInv, Panel!ReceiveCleared PROVE PanelInv'
    OBVIOUS
  <1>1. PanelTyped /\ HostInv /\ AnswerComes /\ LastWord /\ InSequence /\ CatalogComes
    BY DEF PanelInv
  <1>2. /\ posted # <<>> /\ posted' = Tail(posted) /\ UNCHANGED <<mcp, publisher, intents>>
        /\ posted[1].kind = "cleared" /\ 1 \in DOMAIN posted
    BY <1>1, FirstTaken DEF Panel!ReceiveCleared, Panel!Arrives
  <1>3. panel \in Panels
    BY <1>1 DEF PanelTyped
  <1>4. Panel!Closed(panel) \in Panels /\ Panel!Closed(panel).asked = panel.asked
        /\ Panel!Closed(panel).sequence = 0
    BY <1>3 DEF Panel!Closed, Panels
  <1>5. /\ panel' \in Panels /\ panel'.asked = panel.asked /\ panel'.awaiting = 0
        /\ panel'.status = "disconnected" /\ panel'.generation = 0 /\ panel'.sequence = 0
    BY <1>4 DEF Panel!ReceiveCleared, Panels, Statuses
  <1>6. ShownLink' = 0
    BY <1>5 DEF ShownLink, Panel!ConnectionOfPanel
  <1>7. \A i \in DOMAIN posted : ~IsWord(i) => posted[i].generation # 0
    BY WordIs DEF IsWord
  <1>8. mcp.status \in {"connecting", "connected"} => mcp.generation # 0
    BY <1>1 DEF HostInv
  <1>9. publisher.signature # <<>> => ~Last
    <2> SUFFICES ASSUME publisher.signature # <<>>, Last PROVE FALSE
      OBVIOUS
    <2>1. IsWord(1) /\ \A j \in DOMAIN posted : IsWord(j) => j <= 1
      BY <1>2 DEF IsWord, Last
    <2> QED BY <1>1, <1>2, <2>1 DEF LastWord
  <1>10. ~(/\ mcp.status = "connected" /\ publisher.scope = mcp.generation /\ publisher.tools # 0
           /\ panel.asked = 0 \/ mcp.oversized = 0
           /\ Len(posted) = 1)
    BY <1>1, <1>2 DEF CatalogComes
  <1>11. 0 <= mcp.generation
    BY <1>1 DEF PanelTyped, PanelHosts
  <1> QED BY <1>2, <1>5, <1>6, <1>7, <1>8, <1>9, <1>10, <1>11, TakingKeepsPanel

\* The controller is held disconnected while the data are cleared.
LEMMA ClearingKeepsPanel == PanelInv /\ Panel!LocalDataCleared => PanelInv'
  <1> SUFFICES ASSUME PanelInv, Panel!LocalDataCleared PROVE PanelInv'
    OBVIOUS
  <1>1. PanelTyped /\ HostInv /\ AnswerComes /\ LastWord /\ InSequence /\ CatalogComes
    BY DEF PanelInv
  <1> DEFINE m == [kind |-> "cleared"]
  <1>2. /\ mcp.status = "disconnected" /\ posted' = Append(posted, m) /\ UNCHANGED <<mcp, intents, panel>>
        /\ publisher' = [signature |-> <<>>, scope |-> 0, sequence |-> 0, blocked |-> FALSE, tools |-> 0]
    BY DEF Panel!LocalDataCleared, Panel!Unpublished
  <1>3. m \in Posts /\ m.kind = "cleared"
    BY DEF Posts
  <1>p. posted \in Seq(Posts)
    BY <1>1 DEF PanelTyped
  <1> HIDE DEF m, Posts
  <1>4. /\ posted' \in Seq(Posts) /\ DOMAIN posted' = 1 .. Len(posted) + 1
        /\ DOMAIN posted = 1 .. Len(posted) /\ Len(posted) \in Nat
        /\ posted'[Len(posted) + 1] = m /\ \A i \in DOMAIN posted : posted'[i] = posted[i]
    BY <1>2, <1>3, <1>p
  <1>5. PanelTyped'
    BY <1>1, <1>2, <1>4 DEF PanelTyped, Publishers, Signatures
  <1>6. HostInv' /\ LastWord' /\ CatalogComes'
    <2>1. publisher'.signature = <<>> /\ publisher'.scope = 0 /\ publisher'.tools = 0 /\ ~publisher'.blocked
      BY <1>2
    <2>2. 0 <= mcp.generation
      BY <1>1 DEF PanelTyped, PanelHosts
    <2>3. HostInv'
      BY <1>1, <1>2, <2>1, <2>2 DEF HostInv
    <2> QED BY <2>1, <2>3 DEF LastWord, CatalogComes
  <1>7. AnswerComes'
    <2>1. \A i \in DOMAIN posted : i \in DOMAIN posted' /\ posted'[i] = posted[i]
      BY <1>4
    <2> QED BY <1>1, <1>2, <2>1 DEF AnswerComes
  <1>8. InSequence'
    <2>1. \A i \in DOMAIN posted' : posted'[i].kind # "cleared" => i \in DOMAIN posted /\ posted'[i] = posted[i]
      BY <1>3, <1>4
    <2>2. \A i \in DOMAIN posted' : ~IsWord(i)' => i \in DOMAIN posted /\ posted'[i] = posted[i] /\ ~IsWord(i)
      BY <2>1 DEF IsWord
    <2>3. ShownLink' = ShownLink /\ mcp'.status \notin {"connecting", "connected"}
      BY <1>2 DEF ShownLink
    <2>4. \A i \in DOMAIN posted' : posted'[i].kind = "connection" => i \in DOMAIN posted /\ posted'[i] = posted[i]
      BY <2>1
    <2> QED BY <1>1, <1>2, <2>1, <2>2, <2>3, <2>4 DEF InSequence
  <1> QED BY <1>5, <1>6, <1>7, <1>8 DEF PanelInv

LEMMA PanelNext == PanelInv /\ [Panel!Next]_panelVars => PanelInv'
  <1> SUFFICES ASSUME PanelInv, [Panel!Next]_panelVars PROVE PanelInv'
    OBVIOUS
  <1>1. CASE Panel!Poll
    BY <1>1, PublishingKeepsPanel DEF Panel!Poll
  <1>2. CASE \E i \in intents : Panel!IntentSettles(i)
    <2>1. PICK i \in intents : Panel!IntentSettles(i)
      BY <1>2
    <2>2. i \in Nat
      BY DEF PanelInv, PanelTyped
    <2> QED BY <2>1, <2>2, PublishingKeepsPanel DEF Panel!IntentSettles
  <1>3. CASE \/ Panel!ControllerConnects \/ Panel!ControllerConnected \/ Panel!ControllerFails
             \/ Panel!ControllerDisconnects \/ Panel!ControllerDisconnected \/ Panel!ToolsReplaced
    BY <1>3, ControllerKeepsPanel
  <1>4. CASE Panel!PanelConnects \/ Panel!PanelDisconnects
    BY <1>4, AskingKeepsPanel
  <1>5. CASE Panel!ReceiveConnection \/ Panel!ReceiveTools \/ Panel!LocalDataCleared \/ Panel!ReceiveCleared
    BY <1>5, ConnectionWordKeepsPanel, CatalogWordKeepsPanel, ClearingKeepsPanel, ClearedWordKeepsPanel
  <1>6. CASE UNCHANGED panelVars
    BY <1>6 DEF panelVars, PanelInv, PanelTyped, HostInv, AnswerComes, LastWord, IsWord, InSequence,
                ShownLink, Panel!ConnectionOfPanel, Counted, CatalogComes
  <1> QED BY <1>1, <1>2, <1>3, <1>4, <1>5, <1>6 DEF Panel!Next

LEMMA PanelAgreeing == PanelInv => Panel!PanelAgrees
  <1> SUFFICES ASSUME PanelInv, Panel!Quiet, Panel!Published PROVE
        /\ (panel.status = "connected") <=> (mcp.status = "connected")
        /\ mcp.status = "connected" =>
             /\ panel.generation = mcp.generation
             /\ publisher.tools = mcp.tools /\ (panel.asked = 0 \/ mcp.oversized = 0)
                => panel.tools = mcp.tools
    BY DEF Panel!PanelAgrees
  <1>1. /\ intents = {} /\ posted = <<>> /\ panel.awaiting = 0
        /\ publisher.signature = <<mcp.status, mcp.generation>>
    BY DEF Panel!Quiet, Panel!Published
  <1>2. DOMAIN posted = {}
    BY <1>1
  <1>3. publisher.signature # <<>>
    BY <1>1, \A a, b : <<a, b>> # <<>>
  <1>4. publisher.signature = <<panel.status, panel.generation>>
    BY <1>1, <1>2, <1>3 DEF PanelInv, LastWord
  <1>5. panel.status = mcp.status /\ panel.generation = mcp.generation
    BY <1>1, <1>4
  <1>6. ASSUME mcp.status = "connected", publisher.tools = mcp.tools, panel.asked = 0 \/ mcp.oversized = 0
        PROVE  panel.tools = mcp.tools
    <2>1. mcp.tools # 0 /\ publisher.tools # 0
      BY <1>6 DEF PanelInv, HostInv
    <2>2. publisher.scope # 0
      BY <2>1 DEF PanelInv, HostInv
    <2>3. publisher.signature = <<"connected", publisher.scope>>
      BY <2>2 DEF PanelInv, HostInv
    <2>4. publisher.scope = mcp.generation
      BY <1>1, <2>3
    <2> QED BY <1>1, <1>6, <2>1, <2>4 DEF PanelInv, CatalogComes
  <1> QED BY <1>5, <1>6

-----------------------------------------------------------------------------
(* SessionDeletion: what is deleted and told so.                           *)

SavedAs == {"gone", "expired", "recent", "live"}
Listings ==
    [step : {"idle", "reading", "choosing", "sweeping", "marking", "writing"},
     found : SUBSET Sessions, live : SUBSET Sessions, expired : SUBSET Sessions,
     removed : SUBSET Sessions, failed : BOOLEAN, marked : SUBSET Sessions,
     shown : {"nothing", "sessions", "failure"}, latest : BOOLEAN]
Deletions ==
    [step : {"idle", "sessions", "records"}, of : SUBSET Sessions, all : BOOLEAN, removed : BOOLEAN,
     failure : {"none", "partial", "unavailable"},
     outcome : {"none", "complete", "partial", "unavailable"}]
DeletionTyped ==
    /\ saved \in [Sessions -> SavedAs]
    /\ records \subseteq Sessions \cup {Deletion!Nobody}
    /\ listing \in Listings /\ deletion \in Deletions
    /\ excused \subseteq Sessions /\ returned \subseteq Sessions

\* What a deletion tells, or is about to tell, is complete.
Completing == (deletion.step = "records" /\ deletion.failure = "none") \/ deletion.outcome = "complete"
DeletionSparesNothing ==
    /\ deletion.outcome = "complete" => deletion.step = "idle" /\ Deletion!Owned(deletion.of) = {}
    /\ Completing => deletion.of \cap Deletion!Present \subseteq returned

\* Whose Checkpoints are still to be swept, by a list or by a deletion.
ToSweep == (IF listing.step = "sweeping" THEN listing.removed ELSE {})
           \cup (IF deletion.step = "records" THEN deletion.of ELSE {})
RecordsAreOwned == records \subseteq Deletion!Present \cup excused \cup {Deletion!Nobody} \cup ToSweep

\* A list that no deletion overtakes knows, once it has read them, which Sessions there are.
ListKnows ==
    listing.latest =>
        /\ ~Deletion!IsDeleting
        /\ listing.step = "writing" => listing.expired \subseteq Deletion!Present
        /\ listing.step \notin {"idle", "reading"} =>
             listing.found \ listing.removed = Deletion!Present
        /\ listing.step = "idle" /\ listing.shown = "sessions" => listing.found = Deletion!Present
ListQuiet == listing.step # "idle" => listing.shown = "nothing"

DeletionInv ==
    /\ DeletionTyped /\ DeletionSparesNothing /\ RecordsAreOwned /\ ListKnows /\ ListQuiet
    /\ listing.step = "reading" => listing.removed = {}
    /\ Deletion!OnlyExpiredGo

LEMMA DeletionInit == Deletion!Init => DeletionInv
  BY DEF Deletion!Init, DeletionInv, DeletionTyped, SavedAs, Listings, Deletions, Completing, DeletionSparesNothing,
         ToSweep, RecordsAreOwned, ListKnows, ListQuiet, Deletion!NoListing, Deletion!NoDeletion, Deletion!Nobody,
         Deletion!Owned, Deletion!Present, Deletion!IsDeleting, Deletion!OnlyExpiredGo

\* A list that goes on without touching the files.
LEMMA ListGoesOn ==
    ASSUME DeletionInv, UNCHANGED <<saved, records, deletion, excused, returned>>,
           \/ Deletion!BeginList \/ Deletion!ListFails \/ Deletion!ListReads \/ Deletion!Chooses
           \/ Deletion!SkipsCleanup \/ Deletion!ListShows \/ \E s \in Sessions : Deletion!MarkReads(s)
    PROVE  DeletionInv'
  <1> USE DEF Deletion!Present, Deletion!Owned, Deletion!IsDeleting, Deletion!IsListing
  <1>1. listing \in Listings /\ Deletion!Present \subseteq Sessions
    BY DEF DeletionInv, DeletionTyped
  <1>2. DeletionSparesNothing'
    BY DEF DeletionInv, DeletionSparesNothing, Completing
  <1>3. CASE Deletion!BeginList
    <2>1. listing' = [Deletion!NoListing EXCEPT !.step = "reading"] /\ ~Deletion!IsListing /\ ~Deletion!IsDeleting
      BY <1>3 DEF Deletion!BeginList
    <2>2. listing' = [step |-> "reading", found |-> {}, live |-> {}, expired |-> {}, removed |-> {},
                      failed |-> FALSE, marked |-> {}, shown |-> "nothing", latest |-> TRUE]
      BY <2>1 DEF Deletion!NoListing
    <2>3. listing' \in Listings
      BY <2>2 DEF Listings
    <2> QED BY <1>2, <2>1, <2>2, <2>3
            DEF DeletionInv, DeletionTyped, RecordsAreOwned, ToSweep, ListKnows, ListQuiet, Deletion!OnlyExpiredGo
  <1>4. ASSUME NEW shown \in {"sessions", "failure"}, Deletion!ListEnds(shown),
               listing.step \in {"reading", "marking", "writing"},
               shown = "sessions" => listing.step = "marking"
        PROVE  DeletionInv'
    <2>1. listing' = [step |-> "idle", found |-> listing.found \ listing.removed, live |-> {}, expired |-> {},
                      removed |-> {}, failed |-> FALSE, marked |-> {}, shown |-> shown,
                      latest |-> listing.latest]
      BY <1>4 DEF Deletion!ListEnds, Deletion!Listed, Deletion!NoListing
    <2>2. listing' \in Listings
      BY <1>1, <1>4, <2>1 DEF Listings
    <2> QED BY <1>2, <1>4, <2>1, <2>2
            DEF DeletionInv, DeletionTyped, RecordsAreOwned, ToSweep, ListKnows, ListQuiet, Deletion!OnlyExpiredGo
  <1>5. CASE Deletion!ListFails \/ Deletion!ListShows
    BY <1>4, <1>5 DEF Deletion!ListFails, Deletion!ListShows
  <1>6. CASE Deletion!ListReads
    <2>1. /\ listing.step = "reading" /\ listing.removed = {}
          /\ listing' = [listing EXCEPT !.step = "choosing", !.found = Deletion!Present,
                                        !.live = {s \in Sessions : saved[s] = "live"}]
      BY <1>6 DEF Deletion!ListReads, DeletionInv
    <2>2. /\ listing' \in Listings /\ listing'.step = "choosing" /\ listing'.found = Deletion!Present
          /\ listing'.removed = {} /\ listing'.shown = listing.shown /\ listing'.latest = listing.latest
      BY <1>1, <2>1 DEF Listings
    <2> QED BY <1>2, <2>1, <2>2
            DEF DeletionInv, DeletionTyped, RecordsAreOwned, ToSweep, ListKnows, ListQuiet, Deletion!OnlyExpiredGo
  <1>7. CASE Deletion!Chooses
    <2>1. /\ listing.step = "choosing"
          /\ listing' = [listing EXCEPT !.step = "sweeping", !.expired = {s \in Sessions : saved[s] = "expired"}]
      BY <1>7 DEF Deletion!Chooses
    <2>2. /\ listing' \in Listings /\ listing'.step = "sweeping" /\ listing'.found = listing.found
          /\ listing'.expired = {s \in Sessions : saved[s] = "expired"}
          /\ listing'.removed = listing.removed /\ listing'.shown = listing.shown /\ listing'.latest = listing.latest
      BY <1>1, <2>1 DEF Listings
    <2> QED BY <1>2, <2>1, <2>2
            DEF DeletionInv, DeletionTyped, RecordsAreOwned, ToSweep, ListKnows, ListQuiet, Deletion!OnlyExpiredGo
  <1>8. CASE Deletion!SkipsCleanup
    <2>1. listing.step = "choosing" /\ listing' = [listing EXCEPT !.step = "marking"]
      BY <1>8 DEF Deletion!SkipsCleanup
    <2>2. /\ listing' \in Listings /\ listing'.step = "marking" /\ listing'.found = listing.found
          /\ listing'.removed = listing.removed /\ listing'.shown = listing.shown /\ listing'.latest = listing.latest
      BY <1>1, <2>1 DEF Listings
    <2> QED BY <1>2, <2>1, <2>2
            DEF DeletionInv, DeletionTyped, RecordsAreOwned, ToSweep, ListKnows, ListQuiet, Deletion!OnlyExpiredGo
  <1>9. ASSUME NEW s \in Sessions, Deletion!MarkReads(s), saved[s] # "gone" PROVE DeletionInv'
    <2>1. /\ listing.step = "marking"
          /\ listing' = [listing EXCEPT !.step = "writing", !.marked = @ \cup {s}, !.expired = {s}]
      BY <1>9 DEF Deletion!MarkReads
    <2>2. /\ listing' \in Listings /\ listing'.step = "writing" /\ listing'.found = listing.found
          /\ listing'.expired = {s}
          /\ listing'.removed = listing.removed /\ listing'.shown = listing.shown /\ listing'.latest = listing.latest
      BY <1>1, <2>1 DEF Listings
    <2> QED BY <1>2, <1>9, <2>1, <2>2
            DEF DeletionInv, DeletionTyped, RecordsAreOwned, ToSweep, ListKnows, ListQuiet, Deletion!OnlyExpiredGo
  <1>10. ASSUME NEW s \in Sessions, Deletion!MarkReads(s), saved[s] = "gone" PROVE DeletionInv'
    BY <1>4, <1>10 DEF Deletion!MarkReads
  <1> QED BY <1>3, <1>5, <1>6, <1>7, <1>8, <1>9, <1>10

\* The cleanup removes a Session that has expired.
LEMMA SweepKeeps ==
    ASSUME DeletionInv, NEW s \in Sessions, Deletion!Sweeps(s)
    PROVE  DeletionInv'
  <1> USE DEF Deletion!Present, Deletion!Owned, Deletion!IsDeleting, Deletion!IsListing
  <1>1. /\ listing \in Listings /\ saved \in [Sessions -> SavedAs] /\ listing.step = "sweeping"
        /\ UNCHANGED <<records, deletion, excused, returned>>
    BY DEF DeletionInv, DeletionTyped, Deletion!Sweeps
  <1>2. CASE /\ saved[s] # "gone" /\ saved' = [saved EXCEPT ![s] = "gone"]
             /\ listing' = [listing EXCEPT !.expired = @ \ {s}, !.removed = @ \cup {s}]
    <2>1. /\ listing' \in Listings /\ listing'.step = "sweeping" /\ listing'.found = listing.found
          /\ listing'.expired = listing.expired \ {s} /\ listing'.removed = listing.removed \cup {s}
          /\ listing'.shown = listing.shown /\ listing'.latest = listing.latest
      BY <1>1, <1>2 DEF Listings
    <2>2. saved' \in [Sessions -> SavedAs] /\ Deletion!Present' = Deletion!Present \ {s}
      BY <1>1, <1>2 DEF SavedAs
    <2>3. ListKnows' /\ ListQuiet'
      BY <1>1, <2>1, <2>2 DEF DeletionInv, ListKnows, ListQuiet
    <2>4. RecordsAreOwned'
      BY <1>1, <2>1, <2>2 DEF DeletionInv, RecordsAreOwned, ToSweep
    <2>5. DeletionSparesNothing'
      BY <1>1, <2>2 DEF DeletionInv, DeletionSparesNothing, Completing
    <2>6. Deletion!OnlyExpiredGo'
      BY <1>1, <1>2, <2>1 DEF DeletionInv, Deletion!OnlyExpiredGo, Listings
    <2> QED BY <1>1, <2>1, <2>2, <2>3, <2>4, <2>5, <2>6 DEF DeletionInv, DeletionTyped
  <1>3. CASE saved' = saved /\ listing' = [listing EXCEPT !.expired = @ \ {s}, !.failed = TRUE]
    <2>1. /\ listing' \in Listings /\ listing'.step = "sweeping" /\ listing'.found = listing.found
          /\ listing'.expired = listing.expired \ {s} /\ listing'.removed = listing.removed
          /\ listing'.shown = listing.shown /\ listing'.latest = listing.latest
      BY <1>1, <1>3 DEF Listings
    <2> QED BY <1>1, <1>3, <2>1
            DEF DeletionInv, DeletionTyped, RecordsAreOwned, ToSweep, ListKnows, ListQuiet, Deletion!OnlyExpiredGo,
                DeletionSparesNothing, Completing
  <1> QED BY <1>2, <1>3 DEF Deletion!Sweeps

\* The cleanup removes the Checkpoints of what it removed, or says that something failed.
LEMMA SweepOfRecordsKeeps == DeletionInv /\ Deletion!SweepsRecords => DeletionInv'
  <1> SUFFICES ASSUME DeletionInv, Deletion!SweepsRecords PROVE DeletionInv'
    OBVIOUS
  <1> USE DEF Deletion!Present, Deletion!Owned, Deletion!IsDeleting, Deletion!IsListing
  <1>1. /\ listing \in Listings /\ listing.step = "sweeping" /\ listing' = [listing EXCEPT !.step = "marking"]
        /\ UNCHANGED <<saved, deletion, returned>>
    BY DEF DeletionInv, DeletionTyped, Deletion!SweepsRecords
  <1>2. /\ listing' \in Listings /\ listing'.step = "marking" /\ listing'.found = listing.found
        /\ listing'.expired = listing.expired /\ listing'.removed = listing.removed
        /\ listing'.shown = listing.shown /\ listing'.latest = listing.latest
    BY <1>1 DEF Listings
  <1>3. /\ records' \subseteq records /\ excused \subseteq excused' /\ excused' \subseteq excused \cup listing.removed
        /\ records' \cap listing.removed \subseteq excused'
    <2>1. CASE listing.removed = {}
      BY <2>1 DEF Deletion!SweepsRecords
    <2>2. CASE listing.removed # {}
      <3>1. PICK failed \in Deletion!Failures, scanned \in BOOLEAN :
               /\ Deletion!Scans(Deletion!Owned(listing.removed), failed, scanned)
               /\ excused' = IF Deletion!Warns(failed, scanned) THEN excused \cup listing.removed ELSE excused
        BY <2>2 DEF Deletion!SweepsRecords
      <3>2. records' = IF scanned THEN records \ (Deletion!Owned(listing.removed) \ failed) ELSE records
        BY <3>1 DEF Deletion!Scans
      <3>3. ~Deletion!Warns(failed, scanned) => scanned /\ failed = {}
        BY DEF Deletion!Warns
      <3> QED BY <3>1, <3>2, <3>3
    <2> QED BY <2>1, <2>2
  <1>4. RecordsAreOwned'
    BY <1>1, <1>2, <1>3 DEF DeletionInv, RecordsAreOwned, ToSweep
  <1>5. DeletionSparesNothing'
    BY <1>1, <1>3 DEF DeletionInv, DeletionSparesNothing, Completing
  <1>6. ListKnows' /\ ListQuiet' /\ Deletion!OnlyExpiredGo'
    BY <1>1, <1>2 DEF DeletionInv, ListKnows, ListQuiet, Deletion!OnlyExpiredGo
  <1>7. excused' \subseteq Sessions
    BY <1>1, <1>3 DEF DeletionInv, DeletionTyped, Listings
  <1> QED BY <1>1, <1>2, <1>3, <1>4, <1>5, <1>6, <1>7 DEF DeletionInv, DeletionTyped

\* A Session that is marked as interrupted is written, whether it is still there or not.
LEMMA MarkKeeps == DeletionInv /\ Deletion!MarkWrites => DeletionInv'
  <1> SUFFICES ASSUME DeletionInv, Deletion!MarkWrites PROVE DeletionInv'
    OBVIOUS
  <1> USE DEF Deletion!Owned, Deletion!IsDeleting, Deletion!IsListing
  <1>1. /\ listing \in Listings /\ listing.step = "writing" /\ UNCHANGED <<records, deletion, excused>>
        /\ listing' = [listing EXCEPT !.step = "marking", !.expired = {}]
        /\ saved' = [s \in Sessions |-> IF s \in listing.expired THEN "recent" ELSE saved[s]]
        /\ returned' = returned \cup (listing.expired \ Deletion!Present)
    BY DEF DeletionInv, DeletionTyped, Deletion!MarkWrites
  <1>2. /\ listing' \in Listings /\ listing'.step = "marking" /\ listing'.found = listing.found
        /\ listing'.removed = listing.removed
        /\ listing'.shown = listing.shown /\ listing'.latest = listing.latest
    BY <1>1 DEF Listings
  <1>3. listing.expired \subseteq Sessions
    BY <1>1 DEF Listings
  <1>4. saved' \in [Sessions -> SavedAs] /\ Deletion!Present' = Deletion!Present \cup listing.expired
    BY <1>1, <1>3 DEF SavedAs, DeletionInv, DeletionTyped, Deletion!Present
  <1>5. RecordsAreOwned' /\ DeletionSparesNothing'
    BY <1>1, <1>2, <1>4 DEF DeletionInv, RecordsAreOwned, ToSweep, DeletionSparesNothing, Completing
  <1>6. ListKnows' /\ ListQuiet' /\ Deletion!OnlyExpiredGo'
    BY <1>1, <1>2, <1>4 DEF DeletionInv, ListKnows, ListQuiet, Deletion!OnlyExpiredGo
  <1> QED BY <1>1, <1>2, <1>3, <1>4, <1>5, <1>6 DEF DeletionInv, DeletionTyped

\* A deletion begins when none is under way; a list under way is no longer the latest word.
LEMMA BeginningKeeps ==
    ASSUME DeletionInv, NEW of \in SUBSET Sessions, NEW all \in BOOLEAN, Deletion!Begins(of, all)
    PROVE  DeletionInv'
  <1> USE DEF Deletion!Present, Deletion!Owned, Deletion!IsDeleting, Deletion!IsListing
  <1>1. /\ listing \in Listings /\ deletion.step = "idle" /\ UNCHANGED <<saved, records, excused, returned>>
        /\ listing' = [listing EXCEPT !.latest = FALSE]
        /\ deletion' = [Deletion!NoDeletion EXCEPT !.step = "sessions", !.of = of, !.all = all]
    BY DEF DeletionInv, DeletionTyped, Deletion!Begins
  <1>2. /\ listing' \in Listings /\ listing'.step = listing.step /\ listing'.expired = listing.expired
        /\ listing'.removed = listing.removed /\ listing'.shown = listing.shown /\ listing'.latest = FALSE
    BY <1>1 DEF Listings
  <1>3. deletion' = [step |-> "sessions", of |-> of, all |-> all, removed |-> FALSE, failure |-> "none",
                     outcome |-> "none"]
    BY <1>1 DEF Deletion!NoDeletion
  <1>4. deletion' \in Deletions
    BY <1>3 DEF Deletions
  <1>5. deletion'.step = "sessions" /\ deletion'.outcome = "none"
    BY <1>3
  <1>6. RecordsAreOwned'
    BY <1>1, <1>2, <1>5 DEF DeletionInv, RecordsAreOwned, ToSweep
  <1>7. DeletionSparesNothing'
    BY <1>5 DEF DeletionSparesNothing, Completing
  <1> QED BY <1>1, <1>2, <1>4, <1>6, <1>7 DEF DeletionInv, DeletionTyped, ListKnows, ListQuiet, Deletion!OnlyExpiredGo

\* The Sessions go, those whose directory does not refuse.
LEMMA DeletingSessionsKeeps == DeletionInv /\ Deletion!DeletesSessions => DeletionInv'
  <1> SUFFICES ASSUME DeletionInv, Deletion!DeletesSessions PROVE DeletionInv'
    OBVIOUS
  <1> USE DEF Deletion!Owned, Deletion!IsDeleting, Deletion!IsListing
  <1>1. /\ deletion \in Deletions /\ deletion.step = "sessions" /\ ~listing.latest
        /\ UNCHANGED <<records, listing, excused, returned>>
    BY DEF DeletionInv, DeletionTyped, Deletion!DeletesSessions, ListKnows
  <1>2. PICK failed \in SUBSET (deletion.of \cap Deletion!Present), isRead \in BOOLEAN :
          LET went == IF isRead THEN (deletion.of \cap Deletion!Present) \ failed ELSE {} IN
          /\ saved' = [s \in Sessions |-> IF s \in went THEN "gone" ELSE saved[s]]
          /\ deletion' = [deletion EXCEPT !.step = "records", !.removed = went # {},
                  !.failure = IF ~isRead \/ (failed # {} /\ ~deletion.all) THEN "unavailable"
                              ELSE IF failed # {} THEN "partial" ELSE "none"]
    BY DEF Deletion!DeletesSessions
  <1> DEFINE went == IF isRead THEN (deletion.of \cap Deletion!Present) \ failed ELSE {}
  <1>3. went \subseteq deletion.of /\ went \subseteq Deletion!Present
    OBVIOUS
  <1>4. saved' = [s \in Sessions |-> IF s \in went THEN "gone" ELSE saved[s]]
    BY <1>2
  <1>5. /\ deletion' \in Deletions /\ deletion'.step = "records" /\ deletion'.of = deletion.of
        /\ deletion'.outcome = deletion.outcome
        /\ deletion'.failure = "none" => isRead /\ failed = {}
    BY <1>1, <1>2 DEF Deletions
  <1>6. deletion'.failure = "none" => went = deletion.of \cap Deletion!Present
    BY <1>5
  <1> HIDE DEF went
  <1>7. saved' \in [Sessions -> SavedAs] /\ Deletion!Present' = Deletion!Present \ went
    BY <1>4 DEF SavedAs, DeletionInv, DeletionTyped, Deletion!Present
  <1>8. RecordsAreOwned'
    BY <1>1, <1>3, <1>5, <1>7 DEF DeletionInv, RecordsAreOwned, ToSweep
  <1>9. DeletionSparesNothing'
    BY <1>1, <1>5, <1>6, <1>7 DEF DeletionInv, DeletionSparesNothing, Completing
  <1>10. Deletion!OnlyExpiredGo'
    BY <1>1, <1>4 DEF DeletionInv, DeletionTyped, Listings, Deletion!OnlyExpiredGo
  <1> QED BY <1>1, <1>5, <1>7, <1>8, <1>9, <1>10 DEF DeletionInv, DeletionTyped, ListKnows, ListQuiet

\* The Checkpoints go, and the deletion tells how it went.
LEMMA DeletingRecordsKeeps == DeletionInv /\ Deletion!DeletesRecords => DeletionInv'
  <1> SUFFICES ASSUME DeletionInv, Deletion!DeletesRecords PROVE DeletionInv'
    OBVIOUS
  <1> USE DEF Deletion!Present, Deletion!IsDeleting, Deletion!IsListing
  <1>1. /\ deletion \in Deletions /\ deletion.step = "records" /\ ~listing.latest
        /\ UNCHANGED <<saved, listing, returned>>
    BY DEF DeletionInv, DeletionTyped, Deletion!DeletesRecords, ListKnows
  <1>2. PICK failed \in Deletion!Failures, scanned \in BOOLEAN :
          /\ Deletion!Scans(Deletion!Due, failed, scanned)
          /\ deletion' = [deletion EXCEPT !.step = "idle",
                  !.outcome = Deletion!Outcome(failed, scanned, records \ records')]
          /\ excused' = IF Deletion!IsFailing(failed, scanned) THEN excused \cup deletion.of ELSE excused
    BY DEF Deletion!DeletesRecords
  <1> DEFINE failing == Deletion!IsFailing(failed, scanned)
             told == Deletion!Outcome(failed, scanned, records \ records')
  <1>3. /\ told \in {"none", "complete", "partial", "unavailable"}
        /\ told = "complete" => ~failing
    BY <1>1 DEF Deletion!Outcome, Deletions
  <1>4. ~failing => deletion.failure = "none" /\ scanned /\ failed = {}
    BY DEF Deletion!IsFailing, Deletion!FailsOfScan
  <1>5. /\ records' \subseteq records
        /\ ~failing => records' = records \ Deletion!Due
    BY <1>2, <1>4 DEF Deletion!Scans
  <1>6. Deletion!Owned(deletion.of) \subseteq Deletion!Due
    BY DEF Deletion!Owned, Deletion!Due
  <1>7. /\ excused \subseteq excused' /\ excused' \subseteq excused \cup deletion.of
        /\ ~failing \/ deletion.of \subseteq excused'
    BY <1>2
  <1> HIDE DEF failing, told
  <1>8. deletion' = [deletion EXCEPT !.step = "idle", !.outcome = told]
    BY <1>2 DEF told
  <1>9. deletion' \in Deletions /\ deletion'.step = "idle" /\ deletion'.of = deletion.of /\ deletion'.outcome = told
    BY <1>1, <1>3, <1>8 DEF Deletions
  <1>10. ~failing => records' \cap deletion.of = {}
    BY <1>5, <1>6 DEF Deletion!Owned
  <1>11. RecordsAreOwned'
    BY <1>1, <1>5, <1>7, <1>9, <1>10 DEF DeletionInv, RecordsAreOwned, ToSweep
  <1>12. DeletionSparesNothing'
    BY <1>1, <1>3, <1>4, <1>9, <1>10 DEF DeletionInv, DeletionSparesNothing, Completing, Deletion!Owned
  <1>13. excused' \subseteq Sessions
    BY <1>1, <1>7 DEF DeletionInv, DeletionTyped, Deletions
  <1> QED BY <1>1, <1>5, <1>9, <1>11, <1>12, <1>13
          DEF DeletionInv, DeletionTyped, ListKnows, ListQuiet, Deletion!OnlyExpiredGo

\* A Run writes to a Session that is there, and time passes, while no list or deletion is under way.
LEMMA WorldKeeps ==
    ASSUME DeletionInv, Deletion!TimePasses \/ \E s \in Sessions : Deletion!RunUses(s)
    PROVE  DeletionInv'
  <1> USE DEF Deletion!Owned, Deletion!IsDeleting, Deletion!IsListing
  <1>1. /\ saved \in [Sessions -> SavedAs] /\ listing.step = "idle" /\ deletion.step = "idle"
        /\ UNCHANGED <<listing, deletion, excused, returned>>
    BY DEF DeletionInv, DeletionTyped, Deletion!TimePasses, Deletion!RunUses, Deletion!Uses
  <1>2. PICK s \in Sessions, as \in SavedAs \ {"gone"} :
          /\ saved' = [saved EXCEPT ![s] = as] /\ saved[s] # "gone"
          /\ records' = records \/ (records' = records \cup {s} /\ s \notin returned)
    BY DEF Deletion!TimePasses, Deletion!RunUses, Deletion!Uses, SavedAs
  <1>3. saved' \in [Sessions -> SavedAs] /\ Deletion!Present' = Deletion!Present /\ s \in Deletion!Present
    BY <1>1, <1>2 DEF SavedAs, Deletion!Present
  <1>4. RecordsAreOwned' /\ records' \subseteq Sessions \cup {Deletion!Nobody}
    BY <1>1, <1>2, <1>3 DEF DeletionInv, DeletionTyped, RecordsAreOwned, ToSweep
  <1>5. DeletionSparesNothing'
    BY <1>1, <1>2, <1>3 DEF DeletionInv, DeletionSparesNothing, Completing
  <1> QED BY <1>1, <1>3, <1>4, <1>5
          DEF DeletionInv, DeletionTyped, ListKnows, ListQuiet, Deletion!OnlyExpiredGo

LEMMA RestartKeeps == DeletionInv /\ Deletion!Restarts => DeletionInv'
  <1> SUFFICES ASSUME DeletionInv, Deletion!Restarts PROVE DeletionInv'
    OBVIOUS
  <1>1. /\ listing' = Deletion!NoListing /\ deletion' = Deletion!NoDeletion
        /\ excused' = excused \cup {s \in Sessions : saved[s] = "gone"}
        /\ UNCHANGED <<saved, records, returned>>
    BY DEF Deletion!Restarts
  <1>2. Deletion!NoListing \in Listings /\ Deletion!NoDeletion \in Deletions
    BY DEF Deletion!NoListing, Deletion!NoDeletion, Listings, Deletions
  <1>3. RecordsAreOwned'
    BY <1>1 DEF DeletionInv, DeletionTyped, RecordsAreOwned, ToSweep, Deletion!Present
  <1> QED BY <1>1, <1>2, <1>3
          DEF DeletionInv, DeletionTyped, DeletionSparesNothing, Completing, ListKnows, ListQuiet,
              Deletion!NoListing, Deletion!NoDeletion, Deletion!IsDeleting, Deletion!OnlyExpiredGo

LEMMA DeletionNext == DeletionInv /\ [Deletion!Next]_deletionVars => DeletionInv'
  <1> SUFFICES ASSUME DeletionInv, [Deletion!Next]_deletionVars PROVE DeletionInv'
    OBVIOUS
  <1>1. CASE Deletion!Lists
    <2>1. CASE Deletion!SweepsRecords \/ Deletion!MarkWrites \/ \E s \in Sessions : Deletion!Sweeps(s)
      BY <2>1, SweepOfRecordsKeeps, MarkKeeps, SweepKeeps
    <2>2. CASE \/ Deletion!BeginList \/ Deletion!ListFails \/ Deletion!ListReads \/ Deletion!Chooses
               \/ Deletion!SkipsCleanup \/ Deletion!ListShows \/ \E s \in Sessions : Deletion!MarkReads(s)
      <3>1. UNCHANGED <<saved, records, deletion, excused, returned>>
        BY <2>2 DEF Deletion!BeginList, Deletion!ListFails, Deletion!ListReads, Deletion!Chooses,
                    Deletion!SkipsCleanup, Deletion!ListShows, Deletion!MarkReads
      <3> QED BY <2>2, <3>1, ListGoesOn
    <2> QED BY <1>1, <2>1, <2>2 DEF Deletion!Lists
  <1>2. CASE Deletion!Deletes
    <2>1. CASE Deletion!BeginClear \/ \E s \in Sessions : Deletion!BeginDelete(s)
      BY <2>1, BeginningKeeps DEF Deletion!BeginClear, Deletion!BeginDelete
    <2> QED BY <1>2, <2>1, DeletingSessionsKeeps, DeletingRecordsKeeps DEF Deletion!Deletes
  <1>3. CASE UNCHANGED deletionVars
    BY <1>3 DEF deletionVars, DeletionInv, DeletionTyped, DeletionSparesNothing, Completing, RecordsAreOwned,
                ToSweep, ListKnows, ListQuiet, Deletion!Present, Deletion!Owned, Deletion!IsDeleting,
                Deletion!OnlyExpiredGo
  <1> QED BY <1>1, <1>2, <1>3, WorldKeeps, RestartKeeps DEF Deletion!Next

LEMMA DeletionTells ==
    DeletionInv => /\ Deletion!DeletedIsGone /\ Deletion!NothingStaysUntold
                   /\ Deletion!ListedAreThere /\ Deletion!OnlyExpiredGo
  <1> SUFFICES ASSUME DeletionInv
               PROVE  /\ Deletion!DeletedIsGone /\ Deletion!NothingStaysUntold
                      /\ Deletion!ListedAreThere /\ Deletion!OnlyExpiredGo
    OBVIOUS
  <1>1. Deletion!DeletedIsGone
    BY DEF DeletionInv, DeletionSparesNothing, Completing, Deletion!DeletedIsGone
  <1>2. Deletion!NothingStaysUntold
    BY DEF DeletionInv, RecordsAreOwned, ToSweep, Deletion!IsListing, Deletion!IsDeleting, Deletion!NothingStaysUntold
  <1>3. Deletion!ListedAreThere
    BY DEF DeletionInv, ListKnows, ListQuiet, Deletion!IsDeleting, Deletion!ListedAreThere
  <1> QED BY <1>1, <1>2, <1>3 DEF DeletionInv
=============================================================================
