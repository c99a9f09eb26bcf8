------------------------------- MODULE CsvParser -------------------------------
(***************************************************************************)
(* parse_csv() of infrastructure/csv_parser.py: rows are read one by one,  *)
(* a bad row is noted and the next one read, and only a file without any   *)
(* bad row is returned, sorted by time.                                    *)
(*                                                                         *)
(* A row is its four cells and how they read: "text" where a cell is no    *)
(* number or its column is missing, "short" where the row ends before its  *)
(* last column and the first such cell is the first thing wrong with it.   *)
(***************************************************************************)
EXTENDS Elevator, Sequences

CONSTANTS Files,        \* the files parse_csv() may be called with
          ErrorsShown   \* how many errors a rejection lists (10 in the code)

CsvRow == [reads: {"numbers", "text", "short"},
           time: Int, id: STRING, source: Int, dest: Int]

ASSUME FilesAssumption == Files \subseteq Seq(CsvRow) /\ ErrorsShown \in Nat

VARIABLES file,
          bounded,    \* whether the argument num_floors is given
          line,       \* the row the reader stands at
          seen_ids,
          accepted,   \* the rows in the list `requests'
          errors,     \* the list `errors', each entry as the row it is about
          outcome,    \* how parse_csv() ended, "READING" before that
          message,    \* what the InvalidRequestError says
          result      \* the rows of the returned requests, in order

vars == <<file, bounded, line, seen_ids, accepted, errors, outcome, message, result>>

Outcome == {"READING", "RETURNED", "INVALID_REQUEST", "TYPE_ERROR"}

NoMessage == [count |-> 0, listed |-> <<>>, more |-> 0]

Init ==
  /\ file \in Files
  /\ bounded \in BOOLEAN
  /\ line = 1
  /\ seen_ids = {}
  /\ accepted = {}
  /\ errors = <<>>
  /\ outcome = "READING"
  /\ message = NoMessage
  /\ result = <<>>

\* to_domain()
ToRequest(row) == [request_time |-> row.time, passenger_id |-> row.id,
                   source |-> row.source, dest |-> row.dest]

-----------------------------------------------------------------------------
(* The loop over the rows *)

Reading == outcome = "READING" /\ line <= Len(file)

\* int(None) raises TypeError, None.strip() AttributeError: neither is caught.
Crash ==
  /\ Reading /\ file[line].reads = "short"
  /\ outcome' = "TYPE_ERROR"
  /\ UNCHANGED <<file, bounded, line, seen_ids, accepted, errors, message, result>>

\* ValueError of int() and of the validators of CsvRow, KeyError.
Malformed(row) ==
  row.reads = "text" \/ row.time < 0 \/ row.source < 1 \/ row.dest < 1

WellFormed(row) == row.reads = "numbers" /\ ~Malformed(row)

\* Checked once the id counts as seen.
BadTrip(row) ==
  \/ row.source = row.dest
  \/ bounded /\ (row.source > NumFloors \/ row.dest > NumFloors)

\* A fault: what is not going to be shown is not noted.
NoteErrorIfShown ==
  /\ errors' = IF Len(errors) < ErrorsShown THEN Append(errors, line) ELSE errors
  /\ line' = line + 1
  /\ UNCHANGED <<file, bounded, accepted, outcome, message, result>>

NoteError ==
  /\ errors' = Append(errors, line)
  /\ line' = line + 1
  /\ UNCHANGED <<file, bounded, accepted, outcome, message, result>>

RejectMalformed ==
  /\ Reading /\ file[line].reads # "short" /\ Malformed(file[line])
  /\ NoteError
  /\ UNCHANGED seen_ids

RejectDuplicate ==
  /\ Reading /\ WellFormed(file[line]) /\ file[line].id \in seen_ids
  /\ NoteError
  /\ UNCHANGED seen_ids

RejectTrip ==
  /\ Reading /\ WellFormed(file[line]) /\ file[line].id \notin seen_ids
  /\ BadTrip(file[line])
  /\ NoteError
  /\ seen_ids' = seen_ids \cup {file[line].id}

\* A fault: the id is not noted.
AcceptForgetsId ==
  /\ Reading /\ WellFormed(file[line]) /\ file[line].id \notin seen_ids
  /\ ~BadTrip(file[line])
  /\ accepted' = accepted \cup {line}
  /\ line' = line + 1
  /\ UNCHANGED <<file, bounded, seen_ids, errors, outcome, message, result>>

Accept ==
  /\ Reading /\ WellFormed(file[line]) /\ file[line].id \notin seen_ids
  /\ ~BadTrip(file[line])
  /\ seen_ids' = seen_ids \cup {file[line].id}
  /\ accepted' = accepted \cup {line}
  /\ line' = line + 1
  /\ UNCHANGED <<file, bounded, errors, outcome, message, result>>

-----------------------------------------------------------------------------
(* After the loop *)

\* A fault: rows of one time are turned round.
SortedUnstably(rows) ==
  {s \in [1..Cardinality(rows) -> rows] : \A i, j \in DOMAIN s : i < j =>
     \/ file[s[i]].time < file[s[j]].time
     \/ file[s[i]].time = file[s[j]].time /\ s[i] > s[j]}

\* sorted(key=request_time) is stable.
SortedByTime(rows) ==
  {s \in [1..Cardinality(rows) -> rows] : \A i, j \in DOMAIN s : i < j =>
     \/ file[s[i]].time < file[s[j]].time
     \/ file[s[i]].time = file[s[j]].time /\ s[i] < s[j]}

\* errors[:10] and how many there are; "... and N more errors" if not all fit.
Rejection(found) ==
  LET shown == IF Len(found) > ErrorsShown THEN ErrorsShown ELSE Len(found)
  IN  [count |-> Len(found), listed |-> SubSeq(found, 1, shown), more |-> Len(found) - shown]

Finish ==
  /\ outcome = "READING" /\ line > Len(file)
  /\ IF errors # <<>>
     THEN outcome' = "INVALID_REQUEST" /\ message' = Rejection(errors) /\ UNCHANGED result
     ELSE outcome' = "RETURNED" /\ result' \in SortedByTime(accepted) /\ UNCHANGED message
  /\ UNCHANGED <<file, bounded, line, seen_ids, accepted, errors>>

Ended == outcome # "READING" /\ UNCHANGED vars

Next == Crash \/ RejectMalformed \/ RejectDuplicate \/ RejectTrip \/ Accept
          \/ Finish \/ Ended

Spec == Init /\ [][Next]_vars

-----------------------------------------------------------------------------
(* Properties *)

\* Line i has a defect of its own, or repeats the id of an earlier row that
\* could be read, be that one good or bad.
Defective(i) ==
  \/ Malformed(file[i])
  \/ BadTrip(file[i])
  \/ \E j \in 1..(i - 1) : WellFormed(file[j]) /\ file[j].id = file[i].id

DefectiveLines == {i \in 1..Len(file) : Defective(i)}

\* All or nothing: a file is returned only if no line has a defect.  A rejection
\* counts every line that has one, not only the first: it lists the first of them
\* in the order of the file, all if they are few, and says how many are missing.
AccountsForEveryDefect ==
  /\ outcome = "RETURNED" => DefectiveLines = {}
  /\ outcome = "INVALID_REQUEST" =>
       LET listed == {message.listed[k] : k \in DOMAIN message.listed}
       IN  /\ message.count = Cardinality(DefectiveLines) /\ message.count > 0
           /\ message.count = Len(message.listed) + message.more
           /\ Len(message.listed) <= ErrorsShown
           /\ message.more > 0 => Len(message.listed) = ErrorsShown
           /\ listed \subseteq DefectiveLines
           /\ \A i \in listed, j \in DefectiveLines \ listed : i < j
           /\ \A k, m \in DOMAIN message.listed : k < m =>
                message.listed[k] < message.listed[m]

\* What is returned for a building, the engine takes: run() rejects none of it
\* (valid_request), and skips none of it as a duplicate.
EngineTakesIt ==
  outcome = "RETURNED" =>
    LET request == [k \in DOMAIN result |-> ToRequest(file[result[k]])]
    IN  /\ bounded => \A k \in DOMAIN result : ValidRequest(request[k])
        /\ \A k, m \in DOMAIN result :
             request[k].passenger_id = request[m].passenger_id => k = m

\* The list returned is the file, by time, rows of one time in their order.
NothingLostInSorting ==
  outcome = "RETURNED" =>
    /\ Len(result) = Len(file)
    /\ \A i \in 1..Len(file) : \E k \in DOMAIN result : result[k] = i
    /\ \A k, m \in DOMAIN result : k < m =>
         /\ file[result[k]].time <= file[result[m]].time
         /\ file[result[k]].time = file[result[m]].time => result[k] < result[m]

\* "Raises InvalidRequestError on validation failure", whatever the row
\* (infrastructure/csv_parser.py:61).
RaisesOnlyInvalidRequest == outcome # "TYPE_ERROR"
=============================================================================
