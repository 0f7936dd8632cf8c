--------------------------- MODULE HarnessFeatures ---------------------------
(***************************************************************************)
(* harness/db.py, harness/commands/features.py, harness/web/server.py: one  *)
(* feature of the backlog, written by the command line and by the web page   *)
(* (two processes on one SQLite file), and what the audit log says of it.    *)
(*                                                                          *)
(* A writer reads the row, compares, and only then opens the transaction     *)
(* that writes the field and its audit entry.  The fields kept are the        *)
(* status and the completed_date; the others are written the same way.        *)
(* A second row may be left under the id as it was once written ("F115"),     *)
(* which only `sanitize` and a deletion reach: every other operation          *)
(* normalises the id.  The entries outlive the row, and a write whose agent    *)
(* is empty makes none.                                                     *)
(***************************************************************************)
EXTENDS Naturals, FiniteSets

CONSTANTS Writers,     \* processes that write features
          MaxWrites    \* bound: writes begun

ASSUME FeatureAssumption == MaxWrites \in Nat

FStatus == {"pending", "in_progress", "done", "blocked"}
NoRow   == [status |-> "none", dated |-> FALSE]
Rows    == [status : FStatus, dated : BOOLEAN]

VARIABLES
    row,      \* the feature's row, NoRow when there is none
    legacy,   \* the row under the unnormalised id, if there is one
    entry,    \* audit_log: the status that the last entry inserted leads to
    writer,   \* the writers: what each has read and is about to write
    untold,   \* history: a write that no entry tells of may have set the status
    writes    \* what is left of MaxWrites

fvars == <<row, legacy, entry, writer, untold, writes>>

Away == [pc |-> "idle", seen |-> NoRow, to |-> NoRow, named |-> TRUE]

FTypeOK ==
    /\ {row, legacy} \subseteq Rows \cup {NoRow} /\ entry \in FStatus \cup {"none"}
    /\ writer \in [Writers -> [pc : {"idle", "date", "check", "read", "write", "upsert",
                                     "merge", "rename"},
                               seen : Rows \cup {NoRow}, to : Rows \cup {NoRow}, named : BOOLEAN]]
    /\ untold \in BOOLEAN /\ writes \in 0..MaxWrites

FInit ==
    /\ row = NoRow /\ entry = "none" /\ legacy \in Rows \cup {NoRow}
    /\ writer = [w \in Writers |-> Away]
    /\ untold = FALSE /\ writes = MaxWrites

FBegin == writes > 0 /\ writes' = writes - 1
Leaves(w) == writer' = [writer EXCEPT ![w] = Away]

----------------------------------------------------------------------------
(* `feature add` goes no further when the feature exists; the web page does   *)
(* not look, and may name no agent.  upsert_feature reads the row itself.     *)
AddBegins(w) ==
    /\ writer[w].pc = "idle" /\ FBegin
    /\ \E s \in FStatus :
          \/ /\ row = NoRow /\ s = "pending"
             /\ writer' = [writer EXCEPT ![w].pc = "check", ![w].to.status = s]
          \/ \E n \in BOOLEAN :
                writer' = [writer EXCEPT ![w].pc = "check", ![w].to.status = s, ![w].named = n]
    /\ UNCHANGED <<row, legacy, entry, untold>>

UpsertReads(w) ==
    /\ writer[w].pc = "check"
    /\ writer' = [writer EXCEPT ![w].pc = "upsert", ![w].seen = row]
    /\ UNCHANGED <<row, legacy, entry, untold, writes>>

(* The transaction: _audit_changes compares with what was read, the row is     *)
(* inserted or overwritten.  Without an entry the status is told of if the     *)
(* row is the one that was read; a row made anew has those of its forerunner.  *)
Upsert(w) ==
    LET old == writer[w].seen
        new == writer[w].to
        told == writer[w].named /\ old # NoRow /\ old.status # new.status IN
    /\ writer[w].pc = "upsert"
    /\ row' = new
    /\ entry' = IF told THEN new.status ELSE entry
    /\ untold' = /\ ~told
                 /\ untold \/ ~writer[w].named \/ row # old \/ (row = NoRow /\ entry # "none")
    /\ Leaves(w) /\ UNCHANGED <<legacy, writes>>

----------------------------------------------------------------------------
(* `feature update --field status`: the row is read; a first time done is      *)
(* dated in a transaction of its own before the status is written.           *)
UpdateBegins(w) ==
    /\ writer[w].pc = "idle" /\ FBegin
    /\ \E s \in FStatus :
          /\ row # NoRow
          /\ writer' = [writer EXCEPT ![w].pc = IF s = "done" /\ ~row.dated THEN "date" ELSE "read",
                                      ![w].to.status = s]
    /\ UNCHANGED <<row, legacy, entry, untold>>

Dates(w) ==
    /\ writer[w].pc = "date"
    /\ row' = IF row = NoRow THEN row ELSE [row EXCEPT !.dated = TRUE]
    /\ writer' = [writer EXCEPT ![w].pc = "read"]
    /\ UNCHANGED <<legacy, entry, untold, writes>>

(* The web page writes the status alone, or one field after the other.        *)
WebUpdates(w) ==
    /\ writer[w].pc = "idle" /\ FBegin
    /\ \E s \in FStatus, n \in BOOLEAN :
          writer' = [writer EXCEPT ![w].pc = "read", ![w].to.status = s, ![w].named = n]
    /\ UNCHANGED <<row, legacy, entry, untold>>

WebEditsDate ==
    /\ FBegin /\ row # NoRow
    /\ row' = [row EXCEPT !.dated = ~row.dated]
    /\ UNCHANGED <<legacy, entry, writer, untold>>

(* update_feature_field: no row, nothing to do; the same value, nothing to do.  *)
FieldReads(w) ==
    /\ writer[w].pc = "read"
    /\ IF row = NoRow \/ row.status = writer[w].to.status
         THEN Leaves(w)
         ELSE writer' = [writer EXCEPT ![w].pc = "write", ![w].seen = row]
    /\ UNCHANGED <<row, legacy, entry, untold, writes>>

(* One transaction: the audit entry, whether or not there is still a row, and   *)
(* the UPDATE, which finds none when the feature has been deleted since.       *)
Audited_OldValue(w) == IF writer[w].named THEN writer[w].seen.status ELSE entry
Audited(w) == IF writer[w].named THEN writer[w].to.status ELSE entry

FieldWrites(w) ==
    /\ writer[w].pc = "write"
    /\ row' = IF row = NoRow THEN row ELSE [row EXCEPT !.status = writer[w].to.status]
    /\ entry' = Audited(w)
    /\ untold' = ~writer[w].named
    /\ Leaves(w) /\ UNCHANGED <<legacy, writes>>

----------------------------------------------------------------------------
(* The web page deletes a row by its id as it stands, without an audit entry,  *)
(* and leaves the entries there are.                                         *)
Delete ==
    /\ FBegin
    /\ \/ row # NoRow /\ row' = NoRow /\ UNCHANGED legacy
       \/ legacy # NoRow /\ legacy' = NoRow /\ UNCHANGED row
    /\ UNCHANGED <<entry, writer, untold>>

(* `sanitize`: both rows are read at once.  When there are two, the one with   *)
(* the longer title is kept as it is now, gets the date it lacked when it was   *)
(* read, and the other is deleted, whatever has become of them since.        *)
SanitizeReads(w) ==
    /\ writer[w].pc = "idle" /\ FBegin
    /\ writer' = [writer EXCEPT ![w] = [Away EXCEPT !.pc = "merge", !.seen = row, !.to = legacy]]
    /\ UNCHANGED <<row, legacy, entry, untold>>

MergedInto(kept, keeper, duplicate) ==
    IF kept = NoRow THEN NoRow
    ELSE [kept EXCEPT !.dated = @ \/ (duplicate.dated /\ ~keeper.dated)]

Merges(w) ==
    LET mine == writer[w].seen
        other == writer[w].to IN
    /\ writer[w].pc = "merge"
    /\ writer' = [writer EXCEPT ![w].pc = "rename"]
    /\ \/ /\ mine # NoRow /\ other # NoRow
          /\ row' = MergedInto(row, mine, other) /\ legacy' = NoRow
       \/ /\ mine # NoRow /\ other # NoRow
          /\ legacy' = MergedInto(legacy, other, mine) /\ row' = NoRow
       \/ /\ mine = NoRow \/ other = NoRow
          /\ UNCHANGED <<row, legacy>>
    /\ UNCHANGED <<entry, untold, writes>>

(* What is left under the old id takes the new one, unless that is taken, and   *)
(* finds the entries of the row that had it.                                 *)
Renames(w) ==
    /\ writer[w].pc = "rename"
    /\ IF row = NoRow /\ legacy # NoRow
         THEN row' = legacy /\ legacy' = NoRow /\ untold' = TRUE
         ELSE UNCHANGED <<row, legacy, untold>>
    /\ Leaves(w) /\ UNCHANGED <<entry, writes>>

----------------------------------------------------------------------------
(* The process ends wherever it is; an open transaction rolls back.           *)
WriterDies(w) ==
    /\ writer[w].pc # "idle" /\ Leaves(w)
    /\ UNCHANGED <<row, legacy, entry, untold, writes>>

FNext ==
    \/ \E w \in Writers :
          \/ AddBegins(w) \/ UpsertReads(w) \/ Upsert(w) \/ UpdateBegins(w) \/ Dates(w)
          \/ WebUpdates(w) \/ FieldReads(w) \/ FieldWrites(w) \/ WriterDies(w)
          \/ SanitizeReads(w) \/ Merges(w) \/ Renames(w)
    \/ WebEditsDate \/ Delete

FSpec == FInit /\ [][FNext]_fvars

----------------------------------------------------------------------------
(* The last status entry of the audit trail leads to the status the feature     *)
(* has, although a writer compares with a row it read before its transaction    *)
(* and the row may be deleted and made anew in between; unless a write that no  *)
(* entry tells of came after it: one that named no agent, an upsert over a row  *)
(* it had not read, a row made anew beside the entries of its forerunner, the   *)
(* row left under the old id (db.py:222-356, 495-584, web/server.py:277-319).   *)
AuditTrailIsCurrent == row # NoRow /\ ~untold => entry \in {"none", row.status}
=============================================================================
