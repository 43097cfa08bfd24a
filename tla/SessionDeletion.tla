--------------------------- MODULE SessionDeletion ---------------------------
(* What removes saved Sessions and the Checkpoints they own: the cleanup a    *)
(* list of the history begins with, the deletion of one Session and of all.   *)
(* A list is under way when a deletion begins if the user asks for it then;   *)
(* a file may refuse to go, and the editor may stop between any two steps.    *)
EXTENDS FiniteSets, Naturals

CONSTANTS
    Sessions,
    MaxJobs     \* bound: lists, deletions and Runs

VARIABLES
    saved,      \* the manifest of each Session: its status and its age
    records,    \* whose Checkpoints there are; of some the owner cannot be read
    listing,    \* SessionRecoveryActions.list
    deletion,   \* SessionRecoveryActions.delete and clear
    excused,    \* Sessions of which the user was told that something stays, or a restart cut in
    returned,   \* removed Sessions a list has written again
    jobs

deletionVars == <<saved, records, listing, deletion, excused, returned, jobs>>

\* A Checkpoint stands for the Session that owns it, committed or left half-written.
Nobody == "nobody"
Owned(owners) == records \cap owners
Unread == Owned({Nobody})
\* "live" stands for the statuses a recovery marks as interrupted, and a cleanup leaves alone.
Present == {s \in Sessions : saved[s] # "gone"}

NoListing == [step |-> "idle", found |-> {}, live |-> {}, expired |-> {}, removed |-> {},
              failed |-> FALSE, marked |-> {}, shown |-> "nothing", latest |-> TRUE]
NoDeletion == [step |-> "idle", of |-> {}, all |-> FALSE, removed |-> FALSE, failure |-> "none",
               outcome |-> "none"]
Init ==
    /\ saved \in [Sessions -> {"gone", "expired", "recent", "live"}]
    /\ records \in SUBSET ({Nobody} \cup {s \in Sessions : saved[s] # "gone"})
    /\ listing = NoListing /\ deletion = NoDeletion
    /\ excused = {} /\ returned = {} /\ jobs = 0

IsListing == listing.step # "idle"
IsDeleting == deletion.step # "idle"
Starts == jobs < MaxJobs /\ jobs' = jobs + 1
\* A scan of the Checkpoints reads every file, unless all of them go. Any may fail to be read or to
\* be deleted, and one without an owner fails; or the directory cannot be read, and nothing goes.
Failures == SUBSET records
Scans(due, failed, scanned) ==
    /\ Unread \subseteq failed \cup due
    /\ records' = IF scanned THEN records \ (due \ failed) ELSE records

----------------------------------------------------------------------------
(* list, with the cleanup of what has expired.                               *)

\* No list is begun while a Run, another list or a deletion is under way.
BeginList ==
    /\ ~IsListing /\ ~IsDeleting /\ Starts
    /\ listing' = [NoListing EXCEPT !.step = "reading"]
    /\ UNCHANGED <<saved, records, deletion, excused, returned>>
\* Mutant: what the cleanup removed stays on the list.
ListedBefore == listing.found
Listed == listing.found \ listing.removed
ListEnds(shown) ==
    listing' = [NoListing EXCEPT !.shown = shown, !.found = Listed,
                                 !.latest = listing.latest]
ListFails ==
    /\ listing.step \in {"reading", "marking", "writing"} /\ ListEnds("failure")
    /\ UNCHANGED <<saved, records, deletion, excused, returned, jobs>>
ListReads ==
    /\ listing.step = "reading"
    /\ listing' = [listing EXCEPT !.step = "choosing", !.found = Present,
                                  !.live = {s \in Sessions : saved[s] = "live"}]
    /\ UNCHANGED <<saved, records, deletion, excused, returned, jobs>>
\* The candidates of the cleanup are read anew, and their age is that of this moment.
Chooses ==
    /\ listing.step = "choosing"
    /\ listing' = [listing EXCEPT !.step = "sweeping",
                                  !.expired = {s \in Sessions : saved[s] = "expired"}]
    /\ UNCHANGED <<saved, records, deletion, excused, returned, jobs>>
\* The cleanup is turned off, its settings are invalid, or its candidates cannot be read.
SkipsCleanup ==
    /\ listing.step = "choosing"
    /\ listing' = [listing EXCEPT !.step = "marking"]
    /\ UNCHANGED <<saved, records, deletion, excused, returned, jobs>>
\* One that is no longer there counts as failed, as does one that cannot be deleted.
Sweeps(s) ==
    /\ listing.step = "sweeping" /\ s \in listing.expired
    /\ \/ /\ saved[s] # "gone" /\ saved' = [saved EXCEPT ![s] = "gone"]
          /\ listing' = [listing EXCEPT !.expired = @ \ {s}, !.removed = @ \cup {s}]
       \/ /\ listing' = [listing EXCEPT !.expired = @ \ {s}, !.failed = TRUE]
          /\ UNCHANGED saved
    /\ UNCHANGED <<records, deletion, excused, returned, jobs>>
\* Mutant: a scan that fails as a whole is not counted.
WarnsOfFiles(files, scanned) == listing.failed \/ (scanned /\ files # {})
\* The user is warned of anything that failed: a Session, the scan, or one of its files.
Warns(files, scanned) == listing.failed \/ ~scanned \/ files # {}
\* One scan for the Checkpoints of all the Sessions that went, if any did.
SweepsRecords ==
    /\ listing.step = "sweeping" /\ listing.expired = {}
    /\ IF listing.removed = {} THEN UNCHANGED <<records, excused>>
       ELSE \E failed \in Failures, scanned \in BOOLEAN :
              /\ Scans(Owned(listing.removed), failed, scanned)
              /\ excused' = IF Warns(failed, scanned) THEN excused \cup listing.removed ELSE excused
    /\ listing' = [listing EXCEPT !.step = "marking"]
    /\ UNCHANGED <<saved, deletion, returned, jobs>>
\* What was read as live is marked as interrupted, one after the other.
ToMark == listing.live \ listing.removed
\* SessionRepository.update: the record is read, and the list fails if there is none.
MarkReads(s) ==
    /\ listing.step = "marking" /\ s \in ToMark \ listing.marked
    /\ IF saved[s] = "gone" THEN ListEnds("failure")
       ELSE listing' = [listing EXCEPT !.step = "writing", !.marked = @ \cup {s}, !.expired = {s}]
    /\ UNCHANGED <<saved, records, deletion, excused, returned, jobs>>
\* The write makes the directory of a Session that is gone by now.
MarkWrites ==
    /\ listing.step = "writing"
    /\ saved' = [s \in Sessions |-> IF s \in listing.expired THEN "recent" ELSE saved[s]]
    /\ returned' = returned \cup (listing.expired \ Present)
    /\ listing' = [listing EXCEPT !.step = "marking", !.expired = {}]
    /\ UNCHANGED <<records, deletion, excused, jobs>>
ListShows ==
    /\ listing.step = "marking" /\ ToMark \subseteq listing.marked
    /\ ListEnds("sessions")
    /\ UNCHANGED <<saved, records, deletion, excused, returned, jobs>>

----------------------------------------------------------------------------
(* delete and clear: a step for the Sessions, one for their Checkpoints.     *)

\* A list under way is no longer the latest word.
Begins(of, all) ==
    /\ ~IsDeleting /\ Starts
    /\ deletion' = [NoDeletion EXCEPT !.step = "sessions", !.of = of, !.all = all]
    /\ listing' = [listing EXCEPT !.latest = FALSE]
    /\ UNCHANGED <<saved, records, excused, returned>>
BeginDelete(s) == Begins({s}, FALSE)
BeginClear == Begins(Sessions, TRUE)
\* A Session that is gone already is no failure. Of a single one the directory may refuse to go, of
\* all of them any may, or the directory of them all cannot be read.
DeletesSessions ==
    /\ deletion.step = "sessions"
    /\ \E failed \in SUBSET (deletion.of \cap Present), isRead \in BOOLEAN :
        LET went == IF isRead THEN (deletion.of \cap Present) \ failed ELSE {} IN
        /\ saved' = [s \in Sessions |-> IF s \in went THEN "gone" ELSE saved[s]]
        /\ deletion' = [deletion EXCEPT !.step = "records", !.removed = went # {},
                !.failure = IF ~isRead \/ (failed # {} /\ ~deletion.all) THEN "unavailable"
                            ELSE IF failed # {} THEN "partial" ELSE "none"]
    /\ UNCHANGED <<records, listing, excused, returned, jobs>>
\* A single Session's are those that can be read as its own, all Sessions' are whatever is there.
Due == IF deletion.all THEN records ELSE Owned(deletion.of)
\* Mutant: a file that stays is no failure.
FailsOfScan(failed, scanned) == deletion.failure # "none" \/ ~scanned
IsFailing(failed, scanned) == FailsOfScan(failed, scanned) \/ failed # {}
\* aggregateDeletionFailure: partial if anything went, else the first failure.
Outcome(failed, scanned, went) ==
    CASE ~IsFailing(failed, scanned) -> "complete"
      [] deletion.removed \/ went # {} -> "partial"
      [] deletion.failure # "none" -> deletion.failure
      [] OTHER -> IF scanned THEN "partial" ELSE "unavailable"
\* Whatever became of the Sessions, their Checkpoints are tried.
DeletesRecords ==
    /\ deletion.step = "records"
    /\ \E failed \in Failures, scanned \in BOOLEAN :
        /\ Scans(Due, failed, scanned)
        /\ deletion' = [deletion EXCEPT !.step = "idle",
                !.outcome = Outcome(failed, scanned, records \ records')]
        /\ excused' = IF IsFailing(failed, scanned) THEN excused \cup deletion.of ELSE excused
    /\ UNCHANGED <<saved, listing, returned, jobs>>

----------------------------------------------------------------------------
(* The world outside.                                                        *)

Uses(s) ==
    /\ saved[s] \in {"recent", "expired", "live"} /\ s \notin returned /\ Starts
    /\ \E status \in {"recent", "live"} : saved' = [saved EXCEPT ![s] = status]
    /\ records' \in {records, records \cup {s}}
    /\ UNCHANGED <<listing, deletion, excused, returned>>
\* Mutant: a Run takes a Session while the history is listed.
RunUsesAnytime(s) == ~IsDeleting /\ Uses(s)
\* A Run of a Session, and how it leaves it: settled, or cut off before it was.
RunUses(s) == ~IsListing /\ ~IsDeleting /\ Uses(s)
TimePasses ==
    /\ ~IsListing /\ ~IsDeleting
    /\ \E s \in Sessions : saved[s] = "recent" /\ saved' = [saved EXCEPT ![s] = "expired"]
    /\ UNCHANGED <<records, listing, deletion, excused, returned, jobs>>
\* What was removed so far stays removed, and nobody remembers what was due.
Restarts ==
    /\ IsListing \/ IsDeleting
    /\ listing' = NoListing /\ deletion' = NoDeletion
    /\ excused' = excused \cup {s \in Sessions : saved[s] = "gone"}
    /\ UNCHANGED <<saved, records, returned, jobs>>

Lists == BeginList \/ ListFails \/ ListReads \/ Chooses \/ SkipsCleanup \/ SweepsRecords
           \/ MarkWrites \/ ListShows \/ \E s \in Sessions : Sweeps(s) \/ MarkReads(s)
Deletes == BeginClear \/ DeletesSessions \/ DeletesRecords \/ \E s \in Sessions : BeginDelete(s)
Next == Lists \/ Deletes \/ TimePasses \/ Restarts \/ \E s \in Sessions : RunUses(s)
Spec == Init /\ [][Next]_deletionVars

----------------------------------------------------------------------------
TypeOK ==
    /\ saved \in [Sessions -> {"gone", "expired", "recent", "live"}]
    /\ records \subseteq Sessions \cup {Nobody}
    /\ listing.step \in {"idle", "reading", "choosing", "sweeping", "marking", "writing"}
    /\ listing.shown \in {"nothing", "sessions", "failure"}
    /\ deletion.step \in {"idle", "sessions", "records"}
    /\ deletion.failure \in {"none", "partial", "unavailable"}
    /\ deletion.outcome \in {"none", "complete", "partial", "unavailable"}
    /\ UNION {listing.found, listing.live, listing.expired, listing.removed, listing.marked,
              deletion.of, excused, returned} \subseteq Sessions
    /\ jobs \in 0..MaxJobs

\* What the cleanup is about to remove has expired and is at rest, for as long as it takes: no Run
\* takes a Session whose old manifest is still looked at.
OnlyExpiredGo ==
    listing.step = "sweeping" => \A s \in listing.expired : saved[s] \in {"expired", "gone"}

\* A deletion that was told as complete left nothing of a Session, and of all of them nothing at
\* all. Left out: a Session that a list under way meanwhile wrote again.
DeletedIsGone ==
    deletion.outcome = "complete" =>
        /\ deletion.of \cap Present \subseteq returned
        /\ Owned(deletion.of) = {}

\* Once all is quiet no Checkpoint outlives its Session unless the user was told that something
\* stayed, or a restart cut off what removed the Session.
NothingStaysUntold ==
    ~IsListing /\ ~IsDeleting => records \subseteq Present \cup excused \cup {Nobody}

\* A list that no deletion overtook shows the Sessions there are, and none of them as live.
ListedAreThere ==
    listing.shown = "sessions" /\ listing.latest /\ ~IsDeleting => listing.found = Present
=============================================================================
