------------------------------ MODULE Rcaeval ------------------------------
(***************************************************************************)
(* evaluation/rcaeval: RcaevalAdapter.load over an extracted split, from    *)
(* the walk through its directories to the sidecar file with the labels.    *)
(*                                                                         *)
(* A tree maps paths, sequences of names (numbers here) with <<>> for the   *)
(* root, to the directories there.  A metric file is a record: what is      *)
(* wrong with its text, the width of its header, its rows [at, cells], the  *)
(* injection time beside it.  A cell is a number, Gap (empty or not finite) *)
(* or Bad; Bad is also a timestamp that does not parse.  Times are in the   *)
(* unit of datetime, a microsecond.                                         *)
(***************************************************************************)
EXTENDS Ordering, SequencesExt

CONSTANTS
  Trees, Requests,            \* a request: [split, permit, skip, persist]
  MaxName,                    \* names of directories are 1..MaxName
  Ids,                        \* the UUIDs the factory may draw
  MaxScanned, MaxCases, MaxRows,     \* LoaderLimits
  Gap, Bad,
  Absent, Old, Part           \* no file, an earlier load's, what a cut write leaves

VARIABLES
  pc,          \* "guard", "scan", "case", "temp", "write", "replace", then "replaced" or
               \* "unlink", and "loaded", "failed", "unremoved" (failed, because the
               \* temporary file could not be unlinked), "dead"
  request, tree,
  pending, scanned, discovered,      \* of discover_cases
  assigned, next, cases, entries, skipped,
  destination, temporary             \* the contents of the two files

\* What the limits and an extracted archive are: every directory but the root is
\* inside another one.
ASSUME RcaevalAssumption ==
  /\ MaxName \in Nat /\ MaxScanned \in Nat /\ MaxCases \in Nat
  /\ \A t \in Trees :
       /\ DOMAIN t \subseteq Seq(1..MaxName) /\ <<>> \in DOMAIN t
       /\ \A d \in DOMAIN t :
            /\ \A k \in 0..Len(d) : SubSeq(d, 1, k) \in DOMAIN t
            /\ t[d].file.width \in Nat
            /\ t[d].file.rows \in Seq([at : {Bad} \cup Int, cells : Seq({Gap, Bad} \cup Int)])

walk == <<pending, scanned, discovered>>
batch == <<assigned, next, cases, entries, skipped>>
files == <<destination, temporary>>
vars == <<pc, request, tree, walk, batch, files>>

Init ==
  /\ pc = "guard"
  /\ request \in Requests /\ tree \in Trees
  /\ pending = << <<>> >> /\ scanned = 0 /\ discovered = <<>>
  /\ assigned = {} /\ next = 1 /\ cases = <<>> /\ entries = <<>> /\ skipped = 0
  /\ destination \in {Absent, Old} /\ temporary = Absent

-----------------------------------------------------------------------------
(* parse_split, guard_split, validate_root *)

Permitted(r) == r.split = "OB" \/ (r.split = "TT" /\ r.permit)

Guard ==
  /\ pc = "guard"
  /\ pc' = IF Permitted(request) /\ tree[<<>>].directory THEN "scan" ELSE "failed"
  /\ UNCHANGED <<request, tree, walk, batch, files>>

-----------------------------------------------------------------------------
(* discover_cases: depth first, in the order of names. *)

\* In the order of their names.
Children(d) ==
  Kept([n \in 1..MaxName |-> Append(d, n)], {n \in 1..MaxName : Append(d, n) \in DOMAIN tree})

Size(d) ==
  Len(Children(d)) + (IF tree[d].metrics THEN 1 ELSE 0) + (IF tree[d].injection THEN 1 ELSE 0)

\* Mutant: the subdirectories are taken from the end.
PushBackwards(d) == Children(d)

Pushed(d) == Reverse(Children(d))

\* Mutant: one case more than the limit.
FullLate == Len(discovered) > MaxCases

Full == Len(discovered) = MaxCases

\* One directory: its entries are counted; a case is kept and not entered.
Scan ==
  /\ pc = "scan" /\ pending # <<>>
  /\ LET d == Last(pending)
         node == tree[d]
         fails ==
           \/ scanned + Size(d) > MaxScanned
           \/ node.metrics /\ (~node.injection \/ ~node.labelled)
           \/ node.metrics /\ Full
     IN IF fails THEN pc' = "failed" /\ UNCHANGED walk
        ELSE /\ scanned' = scanned + Size(d)
             /\ discovered' = IF node.metrics THEN Append(discovered, d) ELSE discovered
             /\ pending' = Front(pending) \o (IF node.metrics THEN <<>> ELSE Pushed(d))
             /\ UNCHANGED pc
  /\ UNCHANGED <<request, tree, batch, files>>

ScanEnds ==
  /\ pc = "scan" /\ pending = <<>>
  /\ pc' = "case"
  /\ UNCHANGED <<request, tree, walk, batch, files>>

-----------------------------------------------------------------------------
(* parse_case *)

\* _bounded_text, _validate_logical_record_width and the header come first,
\* then the rows in order, then the injection time and the window.
RowAccepted(file, k) ==
  LET row == file.rows[k] IN
  /\ k <= MaxRows
  /\ Len(row.cells) = file.width
  /\ row.at # Bad
  /\ (k > 1 /\ file.rows[k - 1].at # Bad) => file.rows[k - 1].at < row.at
  /\ \A c \in DOMAIN row.cells : row.cells[c] # Bad

\* Mutant: the window ends with the last row.
WindowClosed(file) ==
  [start |-> file.rows[1].at, injection |-> file.inject, end |-> Last(file.rows).at]

WindowOf(file) ==
  [start |-> file.rows[1].at, injection |-> file.inject, end |-> Last(file.rows).at + 1]

\* _finite_value_or_gap: a gap is no point.
Column(rows, c) ==
  LET kept == Kept(rows, {k \in DOMAIN rows : rows[k].cells[c] # Gap})
  IN [k \in DOMAIN kept |-> [at |-> kept[k].at, value |-> kept[k].cells[c]]]

Parses(file) ==
  /\ file.text = "readable" /\ file.rows # <<>>
  /\ \A k \in DOMAIN file.rows : RowAccepted(file, k)
  /\ file.inject # Bad
  /\ WindowOf(file).start <= file.inject /\ file.inject < WindowOf(file).end

\* dir: the directory it was read from, a history.
Parsed(id, d, file) ==
  [id |-> id, dir |-> d, window |-> WindowOf(file),
   signals |-> [c \in 1..file.width |-> Column(file.rows, c)]]

-----------------------------------------------------------------------------
(* _load *)

\* unique_case_id gives up when every draw is taken.
NoFreshId ==
  /\ pc = "case" /\ next <= Len(discovered) /\ assigned # {}
  /\ pc' = "failed"
  /\ UNCHANGED <<request, tree, walk, batch, files>>

\* Mutant: the labels of a case are listed before it is parsed.
LabelFirst(id, d) ==
  /\ entries' = Append(entries, [id |-> id, dir |-> d])
  /\ IF Parses(tree[d].file)
     THEN /\ cases' = Append(cases, Parsed(id, d, tree[d].file))
          /\ UNCHANGED <<pc, skipped>>
     ELSE /\ UNCHANGED cases
          /\ IF request.skip THEN skipped' = skipped + 1 /\ UNCHANGED pc
             ELSE pc' = "failed" /\ UNCHANGED skipped

\* A case that does not parse is skipped only on demand.
TakeCase(id, d) ==
  IF Parses(tree[d].file)
  THEN /\ cases' = Append(cases, Parsed(id, d, tree[d].file))
       /\ entries' = Append(entries, [id |-> id, dir |-> d])
       /\ UNCHANGED <<pc, skipped>>
  ELSE /\ UNCHANGED <<cases, entries>>
       /\ IF request.skip THEN skipped' = skipped + 1 /\ UNCHANGED pc
          ELSE pc' = "failed" /\ UNCHANGED skipped

LoadCase ==
  /\ pc = "case" /\ next <= Len(discovered)
  /\ \E id \in Ids \ assigned : assigned' = assigned \cup {id} /\ TakeCase(id, discovered[next])
  /\ next' = next + 1
  /\ UNCHANGED <<request, tree, walk, files>>

CasesEnd ==
  /\ pc = "case" /\ next > Len(discovered)
  /\ pc' = IF request.persist THEN "temp" ELSE "loaded"
  /\ UNCHANGED <<request, tree, walk, batch, files>>

-----------------------------------------------------------------------------
(* persist_sidecar *)

CreateTemporary ==
  /\ pc = "temp"
  /\ temporary' = <<>> /\ pc' = "write"
  /\ UNCHANGED <<request, tree, walk, batch, destination>>

\* Mutant: the destination is written in place.
WriteInPlace ==
  /\ pc = "write"
  /\ destination' \in {entries, Part}
  /\ pc' = IF destination' = entries THEN "replace" ELSE "unlink"
  /\ UNCHANGED <<request, tree, walk, batch, temporary>>

\* Write, fsync and close; on an error the finally clause follows.
WriteTemporary ==
  /\ pc = "write"
  /\ \/ temporary' = entries /\ pc' \in {"replace", "unlink"}
     \/ temporary' = Part /\ pc' = "unlink"
  /\ UNCHANGED <<request, tree, walk, batch, destination>>

\* os.replace; the finally clause follows either way.
Replace ==
  /\ pc = "replace"
  /\ \/ destination' = temporary /\ temporary' = Absent /\ pc' = "replaced"
     \/ pc' = "unlink" /\ UNCHANGED files
  /\ UNCHANGED <<request, tree, walk, batch>>

\* Mutant: nobody removes what a failure leaves.
KeepTemporary ==
  /\ pc \in {"unlink", "replaced"}
  /\ pc' = IF pc = "replaced" THEN "loaded" ELSE "failed"
  /\ UNCHANGED <<request, tree, walk, batch, files>>

\* The finally clause: unlink(missing_ok=True), where the file may have been
\* renamed already.
Unlink ==
  /\ pc \in {"unlink", "replaced"}
  /\ temporary' = Absent /\ pc' = IF pc = "replaced" THEN "loaded" ELSE "failed"
  /\ UNCHANGED <<request, tree, walk, batch, destination>>

\* An unlink that raises OSError fails the load, although the destination may
\* have been replaced.
UnlinkFails ==
  /\ pc \in {"unlink", "replaced"}
  /\ pc' = "unremoved"
  /\ UNCHANGED <<request, tree, walk, batch, files>>

\* A directory that is missing, outside the root or read-only.
TemporaryFails ==
  /\ pc = "temp"
  /\ pc' = "failed"
  /\ UNCHANGED <<request, tree, walk, batch, files>>

\* The process is killed; a write may be cut short.
Crash ==
  /\ pc \in {"temp", "write", "replace", "replaced", "unlink"}
  /\ pc' = "dead"
  /\ temporary' = IF pc = "write" THEN Part ELSE temporary
  /\ UNCHANGED <<request, tree, walk, batch, destination>>

Next ==
  \/ Guard \/ Scan \/ ScanEnds
  \/ NoFreshId \/ LoadCase \/ CasesEnd
  \/ CreateTemporary \/ TemporaryFails \/ WriteTemporary \/ Replace
  \/ Unlink \/ UnlinkFails \/ Crash

Spec == Init /\ [][Next]_vars

-----------------------------------------------------------------------------
(* Properties. *)

Earlier(d, e) ==
  \/ IsStrictPrefix(d, e)
  \/ \E k \in DOMAIN d \cap DOMAIN e : d[k] < e[k] /\ SubSeq(d, 1, k - 1) = SubSeq(e, 1, k - 1)

\* The walk finds every directory with metrics that is not inside another one,
\* once, and in the order of their paths, with a stack that reverses whatever is
\* put on it; it never holds more than the limits allow (discover_cases).
WalkComplete ==
  /\ Len(discovered) <= MaxCases /\ scanned <= MaxScanned
  /\ pc \in {"case", "temp", "write", "replace", "replaced", "unlink", "loaded"} =>
       /\ ToSet(discovered) =
            {d \in DOMAIN tree :
               tree[d].metrics /\ \A e \in DOMAIN tree : IsStrictPrefix(e, d) => ~tree[e].metrics}
       /\ \A j, k \in DOMAIN discovered : j < k => Earlier(discovered[j], discovered[k])

\* Each case has its labels and each label its case, under an id that names no
\* other (the join of evaluate_batch is total), and only on demand is one left
\* out (_load, unique_case_id).
LabelsJoin ==
  /\ [k \in DOMAIN cases |-> [id |-> cases[k].id, dir |-> cases[k].dir]] = entries
  /\ \A j, k \in DOMAIN cases : j # k => cases[j].id # cases[k].id
  /\ pc = "loaded" => Len(cases) + (IF request.skip THEN skipped ELSE 0) = Len(discovered)

\* Every point of a case lies inside its window, so that the ranking sees all of
\* them, and is a number that was in the file (parse_case).
WindowCovers ==
  \A k \in DOMAIN cases :
    LET one == cases[k]
        rows == tree[one.dir].file.rows IN
    \A c \in DOMAIN one.signals :
      LET points == one.signals[c] IN
      /\ \A i \in DOMAIN points :
           /\ one.window.start <= points[i].at /\ points[i].at < one.window.end
           /\ \E row \in ToSet(rows) : row.at = points[i].at /\ row.cells[c] = points[i].value
      /\ Len(points) = Cardinality({i \in DOMAIN rows : rows[i].cells[c] # Gap})

\* A load has every outermost case of the split once, in the order of the paths,
\* with its own labels under an id of its own, and all the points of its file
\* inside its window (discover_cases, _load, parse_case).
CasesFaithful == WalkComplete /\ LabelsJoin /\ WindowCovers

\* The sidecar is the old one or the complete new one at any moment, in whatever
\* step the process fails or dies.  A load that succeeds has replaced it and left
\* nothing else; one that fails has done neither, unless the unlink itself is what
\* failed; and even then, or where the process was killed, the temporary file is
\* left only if the destination was not replaced (persist_sidecar).
SidecarWhole ==
  /\ destination \in {Absent, Old, entries}
  /\ pc = "loaded" => temporary = Absent
  /\ (pc = "loaded" /\ request.persist) => destination = entries
  /\ pc = "failed" => destination \in {Absent, Old} /\ temporary = Absent
  /\ temporary # Absent => destination \in {Absent, Old}

=============================================================================
