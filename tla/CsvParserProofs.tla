---------------------------- MODULE CsvParserProofs ----------------------------
(***************************************************************************)
(* Proofs about parse_csv(), for files of any length.                      *)
(***************************************************************************)
EXTENDS CsvParser, FiniteSetTheorems, TLAPS

\* The list `errors' holds the defective lines read so far, once each and in order.
ListsDefects ==
  /\ \A k \in DOMAIN errors : errors[k] \in DefectiveLines /\ errors[k] < line
  /\ \A i \in DefectiveLines : i < line => \E k \in DOMAIN errors : errors[k] = i
  /\ \A k, m \in DOMAIN errors : k < m => errors[k] < errors[m]

\* What the reader has learned from the rows before `line'.
ReadSoFar ==
  /\ file \in Seq(CsvRow) /\ bounded \in BOOLEAN
  /\ line \in 1..(Len(file) + 1)
  /\ \A i \in 1..(line - 1) : file[i].reads # "short"
  /\ \A id : id \in seen_ids <=>
       \E j \in 1..(line - 1) : WellFormed(file[j]) /\ file[j].id = id
  /\ errors \in Seq(Nat) /\ ListsDefects
  /\ accepted = {i \in 1..(line - 1) : ~Defective(i)}

\* How it ends.
EndsAsRead ==
  /\ outcome \in Outcome
  /\ outcome = "RETURNED" =>
       line = Len(file) + 1 /\ errors = <<>> /\ result \in SortedByTime(accepted)
  /\ outcome = "INVALID_REQUEST" =>
       line = Len(file) + 1 /\ errors # <<>> /\ message = Rejection(errors)

IInv == ReadSoFar /\ EndsAsRead

LEMMA InitIInv == Init => IInv
<1> SUFFICES ASSUME Init PROVE IInv
  OBVIOUS
<1>1. file \in Seq(CsvRow) /\ Len(file) \in Nat
  BY FilesAssumption DEF Init
<1>2. 1..(line - 1) = {}
  BY DEF Init
<1>. QED
  BY <1>1, <1>2 DEF Init, IInv, ReadSoFar, ListsDefects, DefectiveLines, EndsAsRead, Outcome

\* The row at hand is defective exactly if one of the three rejections takes it.
LEMMA DefectiveHere ==
  ASSUME ReadSoFar, Reading
  PROVE  Defective(line) <=>
           \/ Malformed(file[line]) \/ file[line].id \in seen_ids \/ BadTrip(file[line])
  BY DEF ReadSoFar, Reading, Defective

LEMMA NextRow ==
  ASSUME ReadSoFar, Reading, file[line].reads # "short",
         file' = file, bounded' = bounded, line' = line + 1,
         \A id : id \in seen_ids' <=>
           id \in seen_ids \/ (WellFormed(file[line]) /\ id = file[line].id),
         errors' = IF Defective(line) THEN Append(errors, line) ELSE errors,
         accepted' = IF Defective(line) THEN accepted ELSE accepted \cup {line}
  PROVE  ReadSoFar'
<1>1. line \in Nat /\ Len(file) \in Nat /\ line >= 1 /\ line <= Len(file)
  BY DEF ReadSoFar, Reading
<1>2. line' \in 1..(Len(file) + 1) /\ line' - 1 = line
  BY <1>1
<1>3. 1..line = (1..(line - 1)) \cup {line} /\ line \notin 1..(line - 1)
  BY <1>1
<1>4. \A i : Defective(i)' = Defective(i)
  BY DEF Defective, BadTrip
<1>5. file' \in Seq(CsvRow) /\ bounded' \in BOOLEAN
  BY DEF ReadSoFar
<1>6. \A i \in 1..(line' - 1) : file'[i].reads # "short"
  BY <1>2, <1>3 DEF ReadSoFar
<1>7. \A id : id \in seen_ids' <=>
        \E j \in 1..(line' - 1) : WellFormed(file'[j]) /\ file'[j].id = id
  BY <1>2, <1>3 DEF ReadSoFar
<1>8. DefectiveLines' = DefectiveLines /\ DefectiveLines \subseteq Nat
  BY <1>1, <1>4 DEF DefectiveLines
<1>9. errors \in Seq(Nat) /\ ListsDefects
      /\ accepted = {i \in 1..(line - 1) : ~Defective(i)}
  BY DEF ReadSoFar
<1>10. errors' \in Seq(Nat) /\ ListsDefects'
  <2>1. CASE ~Defective(line)
    <3>1. errors' = errors /\ line \notin DefectiveLines /\ line' = line + 1
      BY <2>1 DEF DefectiveLines
    <3>2. \A i \in DefectiveLines : i < line' <=> i < line
      BY <1>1, <1>8, <3>1
    <3>. QED
      BY <1>8, <1>9, <3>1, <3>2 DEF ListsDefects
  <2>2. CASE Defective(line)
    <3> DEFINE n == Len(errors)
    <3>1. /\ n \in Nat /\ DOMAIN errors = 1..n
          /\ errors' \in Seq(Nat) /\ DOMAIN errors' = (1..n) \cup {n + 1}
          /\ \A k \in 1..n : k \in DOMAIN errors' /\ errors'[k] = errors[k] /\ k < n + 1
          /\ errors'[n + 1] = line
      BY <1>1, <1>9, <2>2
    <3>2. line \in DefectiveLines /\ line' = line + 1
      BY <1>1, <2>2 DEF DefectiveLines
    <3>3. ASSUME NEW k \in DOMAIN errors'
          PROVE  errors'[k] \in DefectiveLines /\ errors'[k] < line'
      <4>1. CASE k = n + 1
        BY <1>1, <3>1, <3>2, <4>1
      <4>2. CASE k \in 1..n
        <5>1. errors[k] \in DefectiveLines /\ errors[k] < line
          BY <1>9, <3>1, <4>2 DEF ListsDefects
        <5>. QED
          BY <1>1, <1>8, <3>1, <3>2, <4>2, <5>1
      <4>. QED
        BY <3>1, <4>1, <4>2
    <3>4. ASSUME NEW i \in DefectiveLines, i < line'
          PROVE  \E k \in DOMAIN errors' : errors'[k] = i
      <4>1. i = line \/ i < line
        BY <1>1, <1>8, <3>2, <3>4
      <4>2. CASE i < line
        <5>1. PICK k \in 1..n : errors[k] = i
          BY <1>9, <3>1, <4>2 DEF ListsDefects
        <5>. QED
          BY <3>1, <5>1
      <4>. QED
        BY <3>1, <4>1, <4>2
    <3>5. ASSUME NEW k \in DOMAIN errors', NEW m \in DOMAIN errors', k < m
          PROVE  errors'[k] < errors'[m]
      <4>1. k \in 1..n
        BY <3>1, <3>5
      <4>2. errors[k] < line
        BY <1>9, <3>1, <4>1 DEF ListsDefects
      <4>3. CASE m \in 1..n
        BY <1>9, <3>1, <3>5, <4>1, <4>3 DEF ListsDefects
      <4>. QED
        BY <3>1, <4>1, <4>2, <4>3
    <3>. QED
      BY <1>8, <3>1, <3>3, <3>4, <3>5 DEF ListsDefects
  <2>. QED
    BY <2>1, <2>2
<1>11. accepted' = {i \in 1..(line' - 1) : ~Defective(i)'}
  <2>1. \A i : i \in accepted' <=> i \in 1..line /\ ~Defective(i)
    BY <1>3, <1>9
  <2>. QED
    BY <1>2, <1>4, <2>1
<1>. QED
  BY <1>2, <1>5, <1>6, <1>7, <1>10, <1>11 DEF ReadSoFar

LEMMA StepIInv == IInv /\ [Next]_vars => IInv'
<1> SUFFICES ASSUME IInv, [Next]_vars PROVE IInv'
  OBVIOUS
<1>0. ASSUME UNCHANGED <<file, bounded, line, seen_ids, accepted, errors>>
      PROVE  /\ ReadSoFar' /\ SortedByTime(accepted)' = SortedByTime(accepted)
             /\ Rejection(errors)' = Rejection(errors)
  <2>1. \A i : Defective(i)' = Defective(i)
    BY <1>0 DEF Defective, BadTrip
  <2>2. SortedByTime(accepted)' = SortedByTime(accepted)
    BY <1>0 DEF SortedByTime
  <2>3. Rejection(errors)' = Rejection(errors)
    BY <1>0 DEF Rejection
  <2>4. DefectiveLines' = DefectiveLines
    BY <1>0, <2>1 DEF DefectiveLines
  <2>. QED
    BY <1>0, <2>1, <2>2, <2>3, <2>4 DEF IInv, ReadSoFar, ListsDefects
<1>1. CASE Crash \/ Ended \/ UNCHANGED vars
  <2>1. UNCHANGED <<file, bounded, line, seen_ids, accepted, errors>>
    BY <1>1 DEF Crash, Ended, vars
  <2>2. CASE Crash
    BY <1>0, <2>1, <2>2 DEF Crash, IInv, EndsAsRead, Outcome
  <2>3. CASE UNCHANGED vars
    BY <1>0, <2>1, <2>3 DEF vars, IInv, EndsAsRead, Outcome
  <2>. QED
    BY <1>1, <2>2, <2>3 DEF Ended
<1>2. CASE RejectMalformed
  <2>1. Defective(line) /\ ~WellFormed(file[line])
    BY <1>2 DEF RejectMalformed, Defective, WellFormed
  <2>2. ReadSoFar'
    BY <1>2, <2>1, NextRow DEF RejectMalformed, NoteError, IInv
  <2>3. outcome' = "READING"
    BY <1>2 DEF RejectMalformed, NoteError, Reading
  <2>. QED
    BY <2>2, <2>3 DEF IInv, EndsAsRead, Outcome
<1>3. CASE RejectDuplicate
  <2>1. Defective(line) /\ file[line].reads # "short"
    BY <1>3, DefectiveHere DEF RejectDuplicate, WellFormed, IInv
  <2>2. ReadSoFar'
    BY <1>3, <2>1, NextRow DEF RejectDuplicate, NoteError, IInv
  <2>3. outcome' = "READING"
    BY <1>3 DEF RejectDuplicate, NoteError, Reading
  <2>. QED
    BY <2>2, <2>3 DEF IInv, EndsAsRead, Outcome
<1>4. CASE RejectTrip
  <2>1. Defective(line) /\ file[line].reads # "short"
    BY <1>4 DEF RejectTrip, WellFormed, Defective
  <2>2. ReadSoFar'
    BY <1>4, <2>1, NextRow DEF RejectTrip, NoteError, IInv
  <2>3. outcome' = "READING"
    BY <1>4 DEF RejectTrip, NoteError, Reading
  <2>. QED
    BY <2>2, <2>3 DEF IInv, EndsAsRead, Outcome
<1>5. CASE Accept
  <2>1. ~Defective(line) /\ file[line].reads # "short"
    BY <1>5, DefectiveHere DEF Accept, WellFormed, IInv
  <2>2. ReadSoFar'
    BY <1>5, <2>1, NextRow DEF Accept, IInv
  <2>3. outcome' = "READING"
    BY <1>5 DEF Accept, Reading
  <2>. QED
    BY <2>2, <2>3 DEF IInv, EndsAsRead, Outcome
<1>6. CASE Finish
  <2>1. /\ ReadSoFar' /\ SortedByTime(accepted)' = SortedByTime(accepted)
        /\ Rejection(errors)' = Rejection(errors)
    BY <1>0, <1>6 DEF Finish
  <2>2. line = Len(file) + 1
    BY <1>6 DEF Finish, IInv, ReadSoFar
  <2>. QED
    BY <1>6, <2>1, <2>2 DEF Finish, IInv, EndsAsRead, Outcome
<1>. QED
  BY <1>1, <1>2, <1>3, <1>4, <1>5, <1>6 DEF Next

LEMMA IInvHolds == Spec => []IInv
  BY InitIInv, StepIInv, PTL DEF Spec

\* All or nothing, and a rejection counts every defect, lists the first of them in
\* order and says how many it leaves out (AccountsForEveryDefect).  The list
\* `errors' numbers the defective lines, so there are as many of them as entries.
THEOREM EveryDefectAccounted == Spec => []AccountsForEveryDefect
<1>1. IInv => AccountsForEveryDefect
  <2> SUFFICES ASSUME IInv PROVE AccountsForEveryDefect
    OBVIOUS
  <2> DEFINE n == Len(errors)
  <2>1. Len(file) \in Nat /\ errors \in Seq(Nat) /\ n \in Nat /\ DOMAIN errors = 1..n
    BY DEF IInv, ReadSoFar
  <2>2. ASSUME line = Len(file) + 1
        PROVE  /\ \A k \in 1..n : errors[k] \in DefectiveLines
               /\ \A i \in DefectiveLines : \E k \in 1..n : errors[k] = i
               /\ \A k, m \in 1..n : k < m => errors[k] < errors[m]
    <3>1. \A i \in DefectiveLines : i < line
      BY <2>1, <2>2 DEF DefectiveLines
    <3>. QED
      BY <2>1, <3>1 DEF IInv, ReadSoFar, ListsDefects
  <2>3. ASSUME outcome = "RETURNED"
        PROVE  DefectiveLines = {}
    BY <2>1, <2>2, <2>3 DEF IInv, EndsAsRead
  <2>4. ASSUME outcome = "INVALID_REQUEST"
        PROVE  LET listed == {message.listed[k] : k \in DOMAIN message.listed}
               IN  /\ message.count = Cardinality(DefectiveLines) /\ message.count > 0
                   /\ message.count = Len(message.listed) + message.more
                   /\ Len(message.listed) <= ErrorsShown
                   /\ message.more > 0 => Len(message.listed) = ErrorsShown
                   /\ listed \subseteq DefectiveLines
                   /\ \A i \in listed, j \in DefectiveLines \ listed : i < j
                   /\ \A k, m \in DOMAIN message.listed : k < m =>
                        message.listed[k] < message.listed[m]
    <3> DEFINE shown == IF n > ErrorsShown THEN ErrorsShown ELSE n
               listed == {message.listed[k] : k \in DOMAIN message.listed}
    <3>1. line = Len(file) + 1 /\ errors # <<>> /\ message = Rejection(errors)
      BY <2>4 DEF IInv, EndsAsRead
    <3>2. shown \in 0..n /\ shown <= ErrorsShown /\ ErrorsShown \in Nat /\ n > 0
      BY <2>1, <3>1, FilesAssumption
    <3>3. message.count = n /\ message.more = n - shown
          /\ message.listed = SubSeq(errors, 1, shown)
      BY <3>1 DEF Rejection
    <3>4. /\ message.listed \in Seq(Nat) /\ Len(message.listed) = shown
          /\ DOMAIN message.listed = 1..shown
          /\ \A k \in 1..shown : k \in 1..n /\ message.listed[k] = errors[k]
      BY <2>1, <3>2, <3>3
    <3>5. Cardinality(DefectiveLines) = n
      <4>1. errors \in [1..n -> DefectiveLines]
        BY <2>1, <2>2, <3>1
      <4>2. \A k, m \in 1..n : errors[k] = errors[m] => k = m
        BY <2>1, <2>2, <3>1
      <4>3. errors \in Bijection(1..n, DefectiveLines)
        BY <2>2, <3>1, <4>1, <4>2
           DEF Bijection, Injection, IsInjective, Surjection
      <4>4. ExistsBijection(1..n, DefectiveLines)
        BY <4>3 DEF ExistsBijection
      <4>. QED
        BY <2>1, <4>4, FS_CountingElements
    <3>6. listed \subseteq DefectiveLines
      BY <2>2, <3>1, <3>4
    <3>7. ASSUME NEW i \in listed, NEW j \in DefectiveLines \ listed
          PROVE  i < j
      <4>1. PICK k \in 1..shown : i = errors[k]
        BY <3>4
      <4>2. PICK m \in 1..n : j = errors[m]
        BY <2>2, <3>1
      <4>3. m \notin 1..shown
        BY <3>4, <4>2
      <4>4. k < m /\ k \in 1..n
        BY <2>1, <3>2, <4>3
      <4>. QED
        BY <2>2, <3>1, <4>1, <4>2, <4>4
    <3>8. \A k, m \in DOMAIN message.listed : k < m => message.listed[k] < message.listed[m]
      BY <2>2, <3>1, <3>4
    <3>9. message.count > 0 /\ message.count = Len(message.listed) + message.more
          /\ (message.more > 0 => Len(message.listed) = ErrorsShown)
      BY <2>1, <3>2, <3>3, <3>4
    <3>. QED
      BY <3>2, <3>3, <3>4, <3>5, <3>6, <3>7, <3>8, <3>9
  <2>. QED
    BY <2>3, <2>4 DEF AccountsForEveryDefect
<1>. QED
  BY <1>1, IInvHolds, PTL

\* What is returned for a building run() takes without a complaint and without
\* a duplicate (EngineTakesIt).
THEOREM EngineTakesFiles == Spec => []EngineTakesIt
<1>1. IInv => EngineTakesIt
  <2> SUFFICES ASSUME IInv, outcome = "RETURNED" PROVE EngineTakesIt
    BY DEF EngineTakesIt
  <2>1. /\ result \in [1..Cardinality(accepted) -> accepted]
        /\ \A i, j \in DOMAIN result : i < j =>
             \/ file[result[i]].time < file[result[j]].time
             \/ /\ file[result[i]].time = file[result[j]].time
                /\ result[i] < result[j]
    BY DEF IInv, EndsAsRead, SortedByTime
  <2>2. line = Len(file) + 1 /\ Len(file) \in Nat /\ file \in Seq(CsvRow)
    BY DEF IInv, EndsAsRead, ReadSoFar
  <2>3. ASSUME NEW i \in accepted
        PROVE  /\ i \in 1..Len(file) /\ ~Defective(i) /\ file[i] \in CsvRow
               /\ WellFormed(file[i])
    <3>1. i \in 1..Len(file) /\ ~Defective(i) /\ file[i].reads # "short"
      BY <2>2 DEF IInv, ReadSoFar
    <3>2. file[i] \in CsvRow
      BY <2>2, <3>1
    <3>. QED
      BY <3>1, <3>2 DEF CsvRow, WellFormed, Defective, Malformed
  <2>4. ASSUME bounded, NEW i \in accepted
        PROVE  ValidRequest(ToRequest(file[i]))
    BY <2>3, <2>4, CarAssumption
       DEF CsvRow, ValidRequest, ToRequest, WellFormed, Malformed, Defective, BadTrip, Floors
  <2>5. ASSUME NEW i \in accepted, NEW j \in accepted, file[i].id = file[j].id
        PROVE  i = j
    BY <2>3, <2>5 DEF Defective
  <2>6. ASSUME NEW k \in DOMAIN result, NEW m \in DOMAIN result, result[k] = result[m]
        PROVE  k = m
    <3>1. k \in Int /\ m \in Int /\ result[k] \in Int /\ file[result[k]].time \in Int
      BY <2>1, <2>3 DEF CsvRow
    <3>. QED
      BY <2>1, <2>6, <3>1
  <2>. QED
    BY <2>1, <2>4, <2>5, <2>6 DEF EngineTakesIt, ToRequest
<1>. QED
  BY <1>1, IInvHolds, PTL

\* Sorting a returned file neither drops nor repeats a row, and rows of one
\* time stay in their order (NothingLostInSorting): as many places as rows,
\* each row in at most one place, so each row in one.
THEOREM NothingIsLost == Spec => []NothingLostInSorting
<1>1. IInv => NothingLostInSorting
  <2> SUFFICES ASSUME IInv, outcome = "RETURNED" PROVE NothingLostInSorting
    BY DEF NothingLostInSorting
  <2> DEFINE n == Len(file)
             rows == 1..n
  <2>1. /\ result \in [1..Cardinality(accepted) -> accepted]
        /\ \A i, j \in DOMAIN result : i < j =>
             \/ file[result[i]].time < file[result[j]].time
             \/ /\ file[result[i]].time = file[result[j]].time
                /\ result[i] < result[j]
    BY DEF IInv, EndsAsRead, SortedByTime
  <2>2. /\ n \in Nat /\ accepted = rows
        /\ \A i \in rows : file[i].time \in Int
    <3>1. line = n + 1 /\ n \in Nat /\ errors = <<>>
      BY DEF IInv, EndsAsRead, ReadSoFar
    <3>2. accepted = rows
      BY <3>1 DEF IInv, ReadSoFar, ListsDefects, DefectiveLines
    <3>3. file \in Seq(CsvRow)
      BY DEF IInv, ReadSoFar
    <3>4. \A i \in rows : file[i] \in CsvRow
      BY <3>1, <3>3
    <3>5. \A i \in rows : file[i].time \in Int
      BY <3>4 DEF CsvRow
    <3>. QED
      BY <3>1, <3>2, <3>5
  <2>3. IsFiniteSet(rows) /\ Cardinality(rows) = n
    <3>1. 1 \in Int /\ n \in Int /\ (n >= 1 => n - 1 + 1 = n) /\ (1 > n => n = 0)
      BY <2>2
    <3>. HIDE DEF n
    <3>. QED
      BY <3>1, FS_Interval
  <2>4. result \in [rows -> rows] /\ DOMAIN result = rows
    BY <2>1, <2>2, <2>3
  <2>. HIDE DEF rows
  <2>5. \A i, j \in rows : i < j => result[i] # result[j]
    <3>1. \A i \in rows : result[i] \in Int /\ file[result[i]].time \in Int
      BY <2>2, <2>4 DEF rows
    <3>. QED
      BY <2>1, <2>4, <3>1
  <2>6. result \in Injection(rows, rows)
    BY <2>2, <2>4, <2>5 DEF Injection, IsInjective, rows
  <2>7. result \in Surjection(rows, rows)
    BY <2>3, <2>6, FS_Injection
  <2>8. \A i \in rows : \E k \in DOMAIN result : result[k] = i
    BY <2>4, <2>7 DEF Surjection
  <2>9. Len(result) = n
    BY <2>2, <2>4 DEF rows
  <2>10. ASSUME NEW i \in DOMAIN result, NEW j \in DOMAIN result, i < j
         PROVE  /\ file[result[i]].time <= file[result[j]].time
                /\ file[result[i]].time = file[result[j]].time => result[i] < result[j]
    <3>1. file[result[i]].time \in Int /\ file[result[j]].time \in Int
      BY <2>2, <2>4
    <3>. QED
      BY <2>1, <2>10, <3>1
  <2>. QED
    BY <2>8, <2>9, <2>10 DEF NothingLostInSorting, rows
<1>. QED
  BY <1>1, IInvHolds, PTL
=============================================================================
