------------------------------- MODULE Reports -------------------------------
(***************************************************************************)
(* A report: sections that cite rows of other modules, resolved when it is *)
(* rendered, and files it is exported to                                   *)
(* (reporting/application/services.py).                                    *)
(***************************************************************************)
EXTENDS Sequences, FiniteSets, Integers

CONSTANTS Cited,         \* the rows sections may read from
          Formats,       \* markdown, html, json
          Authors,       \* requests that may run at the same time
          NoFormat, NoReport, NoFile, NoCitation

ASSUME ReportsAssumption == /\ NoFormat \notin Formats /\ NoCitation \notin Cited
                            /\ NoFile \notin Seq({"shown", "error"})
                            /\ Formats \cap {"none", "delete", "removed", "revise"} = {}

VARIABLES report,        \* its row, or NoReport once deleted
          citable,       \* the cited rows that still exist
          exported,      \* the report's file of each format in the object store
          drafting,      \* what each request does, and the row it read
          removed        \* files that deletions took and no export wrote since

reportVars == <<report, citable, exported, drafting, removed>>

\* A section: its kind and the row it reads from.  Prose cites nothing; metrics,
\* results and models are read as tables are.
Sections == [kind : {"text"}, of : {NoCitation}] \cup [kind : {"chart", "table"}, of : Cited]
NoDraft == [op |-> "none", seen |-> NoReport]

ReportRows == [sections : Seq(Sections), last : Formats \cup {NoFormat}]
Drafts == [op : {"delete", "removed", "revise"} \cup Formats, seen : ReportRows]

ReportTypeOK ==
  /\ report = NoReport \/ report \in ReportRows
  /\ citable \subseteq Cited
  /\ exported \in [Formats -> Seq({"shown", "error"}) \cup {NoFile}]
  /\ drafting \in [Authors -> Drafts \cup {NoDraft}]
  /\ removed \subseteq Formats

ReportInit ==
  /\ \E s \in Sections : report = [sections |-> <<s>>, last |-> NoFormat]
  /\ citable = Cited
  /\ exported = [f \in Formats |-> NoFile]
  /\ drafting = [o \in Authors |-> NoDraft]
  /\ removed = {}

-----------------------------------------------------------------------------
\* What a reader is shown of a section: prose and a chart's place need nothing
\* that exists, and anything else whose row is gone says so where it stood.
Resolved(section) ==
  IF section.kind = "table" /\ section.of \notin citable THEN "error" ELSE "shown"

Rendered(sections) == [n \in DOMAIN sections |-> Resolved(sections[n])]

BeginReport(o, op) ==
  /\ drafting[o] = NoDraft /\ report # NoReport
  /\ drafting' = [drafting EXCEPT ![o] = [op |-> op, seen |-> report]]
  /\ UNCHANGED <<report, citable, exported, removed>>

\* The row is written from what was read; one deleted meanwhile takes no write.
WriteReport(o, row) ==
  /\ report' = IF report = NoReport THEN NoReport ELSE row
  /\ drafting' = [drafting EXCEPT ![o] = NoDraft]

\* New sections; one that cites must say which row.
ReviseReport(o, s) ==
  /\ drafting[o].op = "revise"
  /\ WriteReport(o, [drafting[o].seen EXCEPT !.sections = Append(@, s)])
  /\ Len(drafting[o].seen.sections) < 2
  /\ UNCHANGED <<citable, exported, removed>>

\* Mutated: the file is written under the format exported before.
ExportOver(o) ==
  /\ drafting[o].op \in Formats
  /\ LET row == drafting[o].seen IN
       /\ exported' = [exported EXCEPT
            ![IF row.last = NoFormat THEN drafting[o].op ELSE row.last] =
              Rendered(row.sections)]
       /\ WriteReport(o, [row EXCEPT !.last = drafting[o].op])
  /\ removed' = removed \ {drafting[o].op}
  /\ UNCHANGED citable

\* What there is to see is frozen into a file, one of each format, and the row
\* says which was last.
ExportReport(o) ==
  /\ drafting[o].op \in Formats
  /\ LET row == drafting[o].seen IN
       /\ exported' = [exported EXCEPT ![drafting[o].op] = Rendered(row.sections)]
       /\ WriteReport(o, [row EXCEPT !.last = drafting[o].op])
  /\ removed' = removed \ {drafting[o].op}
  /\ UNCHANGED citable

\* The file of the last export goes first; earlier formats stay ...
RemoveFile(o) ==
  /\ drafting[o].op = "delete"
  /\ LET last == drafting[o].seen.last IN
       /\ exported' = [f \in Formats |-> IF f = last THEN NoFile ELSE exported[f]]
       /\ removed' = removed \cup ({last} \ {NoFormat})
  /\ drafting' = [drafting EXCEPT ![o].op = "removed"]
  /\ UNCHANGED <<report, citable>>

\* ... and the row when the request commits, unless it fails.
DeleteReport(o) ==
  /\ drafting[o].op = "removed"
  /\ report' \in {NoReport, report}
  /\ drafting' = [drafting EXCEPT ![o] = NoDraft]
  /\ UNCHANGED <<citable, exported, removed>>

\* A cited row is deleted; nobody asks the report.
LoseCited(c) ==
  /\ c \in citable
  /\ citable' = citable \ {c}
  /\ UNCHANGED <<report, exported, drafting, removed>>

ReportNext ==
  \/ \E o \in Authors :
       \/ \E op \in {"delete", "revise"} \cup Formats : BeginReport(o, op)
       \/ \E s \in Sections : ReviseReport(o, s)
       \/ ExportReport(o) \/ RemoveFile(o) \/ DeleteReport(o)
  \/ \E c \in Cited : LoseCited(c)

ReportSpec == ReportInit /\ [][ReportNext]_reportVars

-----------------------------------------------------------------------------
\* A report that says what it was last exported as has that file in the store,
\* however the exports, edits and deletions of several people cross - an edit
\* writes back the last export it read - unless a deletion took the file and the
\* row outlived it.
LastExportKept ==
  report # NoReport /\ report.last # NoFormat =>
    exported[report.last] # NoFile \/ report.last \in removed
=============================================================================
