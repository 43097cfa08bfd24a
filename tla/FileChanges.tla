---------------------------- MODULE FileChanges ----------------------------
(* What a proposed plan does to the files of the workspace once it is         *)
(* approved, the checkpoint it leaves, and the restore of a checkpoint, while *)
(* the user goes on typing. A plan is one edit of one or two files, or the    *)
(* creation, deletion or renaming of a file.                                  *)
EXTENDS Naturals, Sequences, FiniteSets

CONSTANTS
    Files,        \* the files of the workspace
    MaxTyped,     \* bound: changes the user makes
    MaxPlans,     \* bound: plans that are proposed
    MaxRestores   \* bound: restores that are asked for

VARIABLES
    disk,        \* file -> its saved bytes, its document's text, and the version of that
    typed,       \* how often the user or another program changed a file
    change,      \* the plan that is proposed and applied; one at a time
    plans,       \* the plans proposed so far
    checkpoints, \* number of a plan -> its committed checkpoint
    restores     \* restore request -> its progress

vars == <<disk, typed, change, plans, checkpoints, restores>>

Absent == "absent"
\* An edit makes `agent` of the text it was written for, `mixed` of any other;
\* a file is created empty, its text is inserted into its document.
FileTexts == {"old", "typed", "agent", "mixed", "empty", Absent}

NoChange == [kind |-> "none", files |-> <<>>, byVersion |-> FALSE,
             text |-> <<>>, version |-> <<>>, step |-> "idle", at |-> 1,
             loose |-> {}, aborted |-> FALSE]
NoRestore == [of |-> 0, checkpoint |-> <<>>, version |-> <<>>, step |-> "none",
              at |-> 1, loose |-> {}, aborted |-> FALSE]

Init ==
    /\ disk \in [Files -> {[saved |-> t, text |-> t, version |-> 0] : t \in {"old", Absent}}]
    /\ typed = 0
    /\ change = NoChange
    /\ plans = 0
    /\ checkpoints = <<>>
    /\ restores = [r \in 1 .. MaxRestores |-> NoRestore]

Positions(s) == DOMAIN s
VersionsOf(files) == [i \in Positions(files) |-> disk[files[i]].version]

----------------------------------------------------------------------------
(* The editor, which is external. `loose` of a change or a restore names the  *)
(* files in which what it looks at changed since its last look.               *)

Results == {"restored", "conflict", "not-found", "unavailable"}
ChangeBusy == change.step # "idle"
RestoreBusy(r) == restores[r].step \notin {"none"} \cup Results

\* A file whose document holds text that is not saved.
Unsaved(f) == disk[f].text # disk[f].saved
Clean(t) == [saved |-> t, text |-> t]
\* What is looked at: edits, and restores of all kinds, open the document; a
\* deletion or a renaming reads the saved bytes. (A creation asks only whether
\* the file is there, which both tell.)
Reads(kind, file) == IF kind \in {"edit", "create"} THEN file.text ELSE file.saved

Rewrite(written) ==
    disk' = [f \in Files |->
                IF f \notin DOMAIN written THEN disk[f]
                ELSE [saved |-> written[f].saved, text |-> written[f].text,
                      version |-> IF written[f].text = disk[f].text THEN disk[f].version
                                                                    ELSE disk[f].version + 1]]
Changed(kind) == {f \in Files : Reads(kind, disk'[f]) # Reads(kind, disk[f])}
Loosened(op, busy, files) == IF busy THEN [op EXCEPT !.loose = @ \cup files] ELSE op
LoosenChange == change' = Loosened(change, ChangeBusy, Changed(change.kind))
LoosenRestores ==
    restores' = [r \in DOMAIN restores |-> Loosened(restores[r], RestoreBusy(r), Changed("edit"))]

Touch(f, content) ==
    /\ typed < MaxTyped
    /\ typed' = typed + 1
    /\ Rewrite([g \in {f} |-> content])
    /\ LoosenChange
    /\ LoosenRestores
    /\ UNCHANGED <<plans, checkpoints>>
\* The user types, saves, removes a file, or another program writes it: an open
\* document follows unless it holds unsaved text.
Type(f) ==
    /\ disk[f].text \notin {"typed", Absent}
    /\ Touch(f, [saved |-> disk[f].saved, text |-> "typed"])
Save(f) == Unsaved(f) /\ Touch(f, Clean(disk[f].text))
Remove(f) == disk[f].text # Absent /\ Touch(f, Clean(Absent))
WrittenOutside(f) ==
    /\ disk[f].saved # "typed"
    /\ Touch(f, [saved |-> "typed", text |-> IF Unsaved(f) THEN disk[f].text ELSE "typed"])

\* A text edit is refused if a document changed since it was submitted or is of
\* a file that is gone, a creation or a renaming if its target exists. A refused
\* edit changes nothing.
Accepts(kind, files, version) ==
    CASE kind = "edit" -> /\ version = VersionsOf(files)
                          /\ \A i \in Positions(files) : disk[files[i]].text # Absent
      [] kind = "create" -> disk[files[1]].text = Absent
      [] kind = "delete" -> disk[files[1]].text # Absent
      [] OTHER -> disk[files[1]].text # Absent /\ disk[files[2]].text = Absent
\* Nothing is saved. Of a file that is renamed the unsaved text moves along, or
\* it is dropped.
Makes(kind, files, expected, wanted, carried, i) ==
    LET file == disk[files[i]]
        source == disk[files[1]]
    IN  CASE kind = "edit" -> [saved |-> file.saved,
                               text |-> IF file.text = expected[i] THEN wanted[i] ELSE "mixed"]
          [] kind = "create" -> [saved |-> "empty", text |-> wanted[i]]
          [] kind = "rename" /\ i = 2 -> [saved |-> source.saved,
                                         text |-> IF carried THEN source.text ELSE source.saved]
          [] OTHER -> Clean(wanted[i])
Apply(kind, files, expected, wanted) ==
    \E carried \in BOOLEAN :
        Rewrite([f \in {files[i] : i \in Positions(files)} |->
            Makes(kind, files, expected, wanted, carried,
                  CHOOSE i \in Positions(files) : files[i] = f)])

----------------------------------------------------------------------------
(* A change: every file is captured and confirmed for the proposal, looked at *)
(* once before the checkpoint is written and once after it.                   *)

Targets == {change.files[i] : i \in Positions(change.files)}
Last == change.at = Len(change.files)
File == change.files[change.at]
MayGo(step) == change.step = step /\ ~change.aborted
EndChange == change' = NoChange
OnlyTheChange == UNCHANGED <<disk, typed, plans, checkpoints, restores>>

\* What a plan is about, as it is parsed: one file, or two different ones.
Singles == {<<f>> : f \in Files}
Pairs == {s \in Files \X Files : s[1] # s[2]}
TextEditPlans == {"edit"} \X Singles
WorkspaceEditPlans == {"edit"} \X Pairs
FileCreatePlans == {"create"} \X Singles
DeleteAndRenamePlans == ({"delete"} \X Singles) \cup ({"rename"} \X Pairs)
Shapes == TextEditPlans \cup WorkspaceEditPlans \cup FileCreatePlans \cup DeleteAndRenamePlans

Propose(shape, byVersion) ==
    /\ ~ChangeBusy
    /\ plans < MaxPlans
    /\ byVersion => shape[1] = "edit"
    /\ plans' = plans + 1
    /\ change' = [NoChange EXCEPT !.kind = shape[1], !.files = shape[2],
                  !.byVersion = byVersion, !.step = "capture"]
    /\ UNCHANGED <<disk, typed, checkpoints, restores>>

\* What the plan makes of the i-th of its files.
Wanted(i) ==
    CASE change.kind \in {"edit", "create"} -> "agent"
      [] change.kind = "rename" /\ i = 2 -> change.text[1]
      [] OTHER -> Absent

\* A file to create must not exist yet, any other must.
Proposable ==
    (Reads(change.kind, disk[File]) = Absent) <=>
        (change.kind = "create" \/ (change.kind = "rename" /\ change.at = 2))
\* An edit confirms each file as it captures it, a renaming both in the end.
Captured ==
    LET onward == change.kind = "rename" /\ ~Last IN
    [change EXCEPT !.text = Append(@, Reads(change.kind, disk[File])),
                   !.version = Append(@, disk[File].version),
                   !.step = IF onward THEN "capture" ELSE "confirm",
                   !.at = IF onward THEN 2 ELSE IF change.kind = "rename" THEN 1 ELSE @]
Capture ==
    /\ MayGo("capture")
    /\ IF Proposable THEN change' = Captured ELSE EndChange
    /\ OnlyTheChange

\* The file is still what the plan's revision of it says.
Current ==
    IF change.byVersion THEN disk[File].version = change.version[change.at]
                        ELSE Reads(change.kind, disk[File]) = change.text[change.at]
Confirmed ==
    [change EXCEPT !.step = CASE Last -> "approval"
                              [] ~Last /\ change.kind = "edit" -> "capture"
                              [] OTHER -> "confirm",
                   !.at = IF Last THEN 1 ELSE @ + 1]
Confirm ==
    /\ MayGo("confirm")
    /\ IF Current THEN change' = Confirmed ELSE EndChange
    /\ OnlyTheChange

Approve ==
    /\ MayGo("approval")
    /\ change' = [change EXCEPT !.step = "look"]
    /\ OnlyTheChange
Reject ==
    /\ change.step = "approval"
    /\ EndChange
    /\ OnlyTheChange

\* One file of a pass; one that is not as planned ends the change as a conflict.
\* The edit is submitted in the step of the last look.
Looked(step, next) ==
    [change EXCEPT !.step = IF Last THEN next ELSE step,
                   !.at = IF Last THEN 1 ELSE @ + 1,
                   !.loose = @ \ {File},
                   !.version = IF Last /\ next = "submitted"
                               THEN VersionsOf(change.files) ELSE @]
LookUnchecked(step, next) == change' = Looked(step, next)
Look(step, next) == IF Current THEN change' = Looked(step, next) ELSE EndChange
Examine ==
    /\ \/ MayGo("look") /\ Look("look", "record")
       \/ MayGo("relook") /\ Look("relook", "submitted")
    /\ OnlyTheChange
\* assertCanApply throws between the last look and the submission.
NotTrusted ==
    /\ MayGo("relook")
    /\ Last
    /\ EndChange
    /\ OnlyTheChange

\* createCheckpoint: written to a temporary file and renamed; it stays whatever
\* becomes of the change.
Checkpoint ==
    [i \in Positions(change.files) |->
        [file |-> change.files[i], before |-> change.text[i], after |-> Wanted(i)]]
Committed ==
    checkpoints' = [n \in DOMAIN checkpoints \cup {plans} |->
                       IF n = plans THEN Checkpoint ELSE checkpoints[n]]
Record ==
    /\ MayGo("record")
    /\ Committed
    /\ change' = [change EXCEPT !.step = "relook"]
    /\ UNCHANGED <<disk, typed, plans, restores>>
RecordFails ==
    /\ MayGo("record")
    /\ EndChange
    /\ OnlyTheChange

EditorApplies ==
    /\ change.step = "submitted"
    /\ Accepts(change.kind, change.files, change.version)
    /\ Apply(change.kind, change.files, change.text,
             [i \in Positions(change.files) |-> Wanted(i)])
    /\ EndChange
    /\ LoosenRestores
    /\ UNCHANGED <<typed, plans, checkpoints>>
EditorRefuses ==
    /\ change.step = "submitted"
    /\ EndChange
    /\ OnlyTheChange

\* The Run is cancelled: throwIfAborted ends the change after the next await,
\* unless it is submitted. The commit of a checkpoint may have gone through.
AbortChange ==
    /\ ChangeBusy
    /\ change.step # "submitted"
    /\ ~change.aborted
    /\ change' = [change EXCEPT !.aborted = TRUE]
    /\ OnlyTheChange
AbortedChangeEnds ==
    /\ change.aborted
    /\ EndChange
    /\ UNCHANGED checkpoints \/ (change.step = "record" /\ Committed)
    /\ UNCHANGED <<disk, typed, plans, restores>>

----------------------------------------------------------------------------
(* A restore: the files are compared with what the change left, twice and one *)
(* by one, changed back, and compared with what they were before.             *)

May(r, step) == restores[r].step = step /\ ~restores[r].aborted
OnlyRestores == UNCHANGED <<disk, typed, change, plans, checkpoints>>
Put(r, restore) == restores' = [restores EXCEPT ![r] = restore]
Answer(r, result) == Put(r, [NoRestore EXCEPT !.step = result])

AskRestore(r, n) ==
    /\ restores[r] = NoRestore
    /\ Put(r, [NoRestore EXCEPT !.step = "load", !.of = n])
    /\ OnlyRestores

\* The record is read once; its deletion afterwards does not stop the restore.
Load(r) ==
    /\ May(r, "load")
    /\ IF restores[r].of \in DOMAIN checkpoints
       THEN Put(r, [restores[r] EXCEPT !.step = "first",
                                       !.checkpoint = checkpoints[restores[r].of]])
       ELSE Answer(r, "not-found")
    /\ OnlyRestores
StoreFails(r) ==
    /\ May(r, "load")
    /\ Answer(r, "unavailable")
    /\ OnlyRestores

Entries(r) == restores[r].checkpoint
AtEnd(r) == restores[r].at = Len(Entries(r))
\* The edit that takes a checkpoint's change back; a renaming goes the other way.
UndoKind(cp) ==
    CASE Len(cp) = 2 /\ cp[1].after = Absent /\ cp[2].before = Absent -> "rename"
      [] cp[1].before = Absent -> "delete"
      [] cp[1].after = Absent -> "create"
      [] OTHER -> "edit"
UndoOrder(cp) == IF UndoKind(cp) = "rename" THEN <<cp[2], cp[1]>> ELSE cp
UndoFiles(cp) == [i \in Positions(cp) |-> UndoOrder(cp)[i].file]

\* resolveAndValidateState: one file against the checkpoint's `state` of it.
Matches(r, state) ==
    LET entry == Entries(r)[restores[r].at] IN
    disk[entry.file].text = entry[state]
Seen(r, step, next) ==
    Put(r, [restores[r] EXCEPT
        !.step = IF AtEnd(r) THEN next ELSE step,
        !.at = IF AtEnd(r) THEN 1 ELSE @ + 1,
        !.loose = @ \ {Entries(r)[restores[r].at].file},
        !.version = IF AtEnd(r) /\ next = "submitted"
                    THEN VersionsOf(UndoFiles(Entries(r))) ELSE @])
ValidateUnchecked(r, step, next) == Seen(r, step, next)
Validate(r, step, next) ==
    IF Matches(r, "after") THEN Seen(r, step, next) ELSE Answer(r, "conflict")
Compare(r) ==
    /\ \/ May(r, "first") /\ Validate(r, "first", "second")
       \/ May(r, "second") /\ Validate(r, "second", "submitted")
    /\ OnlyRestores

UndoApplies(r) ==
    LET undo == UndoOrder(Entries(r)) IN
    /\ restores[r].step = "submitted"
    /\ Accepts(UndoKind(Entries(r)), UndoFiles(Entries(r)), restores[r].version)
    /\ Apply(UndoKind(Entries(r)), UndoFiles(Entries(r)),
             [i \in Positions(undo) |-> undo[i].after],
             [i \in Positions(undo) |-> undo[i].before])
    /\ restores' = [q \in DOMAIN restores |->
          IF q = r THEN [restores[q] EXCEPT !.step = "verify"]
          ELSE Loosened(restores[q], RestoreBusy(q), Changed("edit"))]
    /\ LoosenChange
    /\ UNCHANGED <<typed, plans, checkpoints>>
UndoRefused(r) ==
    /\ restores[r].step = "submitted"
    /\ Answer(r, "unavailable")
    /\ OnlyRestores

Verify(r) ==
    /\ May(r, "verify")
    /\ IF Matches(r, "before") THEN Seen(r, "verify", "restored")
                               ELSE Answer(r, "unavailable")
    /\ OnlyRestores

\* Deleting Sessions aborts every restore, then deletes their checkpoints one
\* by one; some may stay.
SessionDeleted ==
    /\ \E r \in DOMAIN restores : RestoreBusy(r) /\ ~restores[r].aborted
    /\ restores' = [r \in DOMAIN restores |->
          IF RestoreBusy(r) THEN [restores[r] EXCEPT !.aborted = TRUE] ELSE restores[r]]
    /\ UNCHANGED <<disk, typed, change, plans, checkpoints>>
AbortedRestoreEnds(r) ==
    /\ restores[r].aborted
    /\ restores[r].step # "submitted"
    /\ Answer(r, "unavailable")
    /\ OnlyRestores
CheckpointDeleted(n) ==
    /\ ~ChangeBusy
    /\ checkpoints' = [m \in DOMAIN checkpoints \ {n} |-> checkpoints[m]]
    /\ UNCHANGED <<disk, typed, change, plans, restores>>

Next ==
    \/ \E f \in Files : Type(f) \/ Save(f) \/ Remove(f) \/ WrittenOutside(f)
    \/ \E shape \in Shapes, byVersion \in BOOLEAN : Propose(shape, byVersion)
    \/ Capture \/ Confirm \/ Approve \/ Reject \/ Examine \/ NotTrusted
    \/ Record \/ RecordFails \/ EditorApplies \/ EditorRefuses
    \/ AbortChange \/ AbortedChangeEnds
    \/ \E r \in DOMAIN restores :
         \/ \E n \in 1 .. plans : AskRestore(r, n)
         \/ Load(r) \/ StoreFails(r) \/ Compare(r)
         \/ UndoApplies(r) \/ UndoRefused(r) \/ Verify(r) \/ AbortedRestoreEnds(r)
    \/ SessionDeleted
    \/ \E n \in DOMAIN checkpoints : CheckpointDeleted(n)

----------------------------------------------------------------------------
TypeOK ==
    /\ disk \in [Files -> [saved : FileTexts, text : FileTexts, version : Nat]]
    /\ \A f \in Files : disk[f].saved = Absent <=> disk[f].text = Absent
    /\ change.loose \subseteq Files
    /\ DOMAIN checkpoints \subseteq 1 .. plans
    /\ \A r \in DOMAIN restores : restores[r].at \in 1 .. 2

\* Whatever the application of a plan destroys, a checkpoint of the plan holds:
\* the text a file had is the one recorded for it, unless what the applier looks
\* at changed after its last look; and the files become what it records. Of a
\* file that is deleted or renamed only the saved text is recorded: what the
\* editor had not saved yet is in no checkpoint.
OnlySavedIsKept(f) == change.kind \in {"delete", "rename"} /\ Unsaved(f)
CheckpointHoldsWhatWasLost ==
    [][change.step = "submitted" /\ ~ChangeBusy' /\ disk' # disk =>
         \E cp \in {checkpoints[n] : n \in DOMAIN checkpoints \cap {plans}} :
             \A i \in Positions(change.files) :
                 LET f == change.files[i] IN
                 /\ cp[i].file = f
                 /\ \/ f \in change.loose
                    \/ cp[i].before = disk[f].text
                    \/ OnlySavedIsKept(f) /\ cp[i].before = disk[f].saved
                 /\ Targets \cap change.loose # {} \/ cp[i].after = Reads(change.kind, disk'[f])]_vars

\* A restore takes back what the change left and nothing the user or another
\* change wrote since, except after the restorer's last look; and a restore that
\* went through puts back what the files held before the change, unless it is
\* the renaming of a file with unsaved text.
RestoreTakesBackOnlyTheChange ==
    [][\A r \in DOMAIN restores :
         restores[r].step = "submitted" /\ restores'[r].step = "verify" =>
             LET cp == Entries(r) IN
             \A i \in Positions(cp) :
                 /\ cp[i].file \in restores[r].loose \/ disk[cp[i].file].text = cp[i].after
                 /\ \/ restores[r].loose # {}
                    \/ UndoKind(cp) = "rename" /\ \E j \in Positions(cp) : Unsaved(cp[j].file)
                    \/ disk'[cp[i].file].text = cp[i].before]_vars
=============================================================================
