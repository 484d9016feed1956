---------------------------- MODULE StorageProofs ----------------------------
(***************************************************************************)
(* What outlives a run: the row of its job in the journal, the rows of its *)
(* requests with their summary, and the volumes of its container.          *)
(***************************************************************************)
EXTENDS Parts, FiniteSetTheorems, SequenceTheorems, TLAPS

(* Induction over the naturals, of a set.                                    *)
LEMMA SetOfAllNumbers ==
  ASSUME NEW T \in SUBSET Nat, 0 \in T, \A n \in T : n + 1 \in T
  PROVE  T = Nat
<1> SUFFICES ASSUME Nat \ T # {} PROVE FALSE
  OBVIOUS
<1>1. PICK n \in Nat \ T : \A m \in Nat \ T : ~(<<m, n>> \in OpToRel(<, Nat))
  BY WFMin, NatLessThanWellFounded
<1>2. n # 0 /\ n - 1 \in Nat
  OBVIOUS
<1>3. n - 1 \notin T
  BY <1>2
<1>4. <<n - 1, n>> \in OpToRel(<, Nat)
  BY <1>2 DEF OpToRel
<1>5. QED
  BY <1>1, <1>2, <1>3, <1>4

(* A set of numbers that is not empty has a least one.                       *)
LEMMA LeastNumber ==
  ASSUME NEW S \in SUBSET Nat, S # {}
  PROVE  \E n \in S : \A m \in S : n <= m
<1>1. PICK n \in S : \A m \in S : ~(<<m, n>> \in OpToRel(<, Nat))
  BY WFMin, NatLessThanWellFounded
<1>2. \A m \in S : ~(m < n)
  BY <1>1 DEF OpToRel
<1>3. QED
  BY <1>2

(* A behaviour of the parts is one of the journal.                           *)
LEMMA JournalPart == Spec => Records!Spec
<1>1. Init => Records!Init
  BY DEF Init
<1>2. [Next]_vars => [Records!Next]_(Records!vars)
  BY DEF Next, vars, journalVars, Records!vars
<1>3. QED
  BY <1>1, <1>2, PTL DEF Spec, Records!Spec

-----------------------------------------------------------------------------
(* A row, and none.                                                          *)
LEMMA RowIs == Records!NoRow \notin Records!Row
BY DEF Records!NoRow, Records!Row

(* What is recorded of a job is a row, and merged into one it stays a row    *)
(* that was made when it was.                                                *)
LEMMA RecordedTypes ==
  ASSUME NEW old \in Records!Row, NEW new \in Records!Record
  PROVE  LET row == Records!MergedRow(old, new)
         IN  /\ row \in Records!Row /\ row.created = old.created
             /\ row.turns = Records!MaxOf(old.turns, new.turns)
             /\ old.idle # Records!Null => row.idle # Records!Null
             /\ old.text => row.text
<1>1. new.turns \in Nat /\ new.cut \in Nat /\ new.idle \in {Records!Null} \cup Nat
      /\ new.text \in BOOLEAN
  BY DEF Records!Record, Records!Null
<1>2. old.turns \in Nat /\ old.cut \in Nat /\ old.idle \in {Records!Null} \cup Nat /\ old.text \in BOOLEAN
      /\ old.created \in Records!Times
  BY DEF Records!Row
<1> DEFINE row == Records!MergedRow(old, new)
<1>3. row = [turns |-> Records!MaxOf(old.turns, new.turns), cut |-> Records!Coalesce(new.cut, old.cut),
             idle |-> Records!Coalesce(new.idle, old.idle),
             text |-> old.text \/ new.text, created |-> old.created]
  <2> DEFINE max  == Records!MaxOf(old.turns, new.turns)
             less == Records!Coalesce(new.cut, old.cut)
             kept == Records!Coalesce(new.idle, old.idle)
             some == old.text \/ new.text
  <2>1. row = [old EXCEPT !.turns = max, !.cut = less, !.idle = kept, !.text = some]
    BY DEF Records!MergedRow
  <2> HIDE DEF max, less, kept, some, row
  <2>2. old = [turns |-> old.turns, cut |-> old.cut, idle |-> old.idle, text |-> old.text, created |-> old.created]
    BY DEF Records!Row
  <2>3. row = [turns |-> max, cut |-> less, idle |-> kept, text |-> some, created |-> old.created]
    BY <2>1, <2>2
  <2>4. QED
    BY <2>3 DEF max, less, kept, some
<1>4. Records!MaxOf(old.turns, new.turns) \in Nat /\ Records!Coalesce(new.cut, old.cut) \in Nat
  BY <1>1, <1>2 DEF Records!MaxOf, Records!Coalesce
<1>5. /\ Records!Coalesce(new.idle, old.idle) \in {Records!Null} \cup Nat
      /\ old.idle # Records!Null => Records!Coalesce(new.idle, old.idle) # Records!Null
  BY <1>1, <1>2 DEF Records!Coalesce
<1>6. row \in Records!Row
  BY <1>1, <1>2, <1>3, <1>4, <1>5 DEF Records!Row
<1>7. /\ row.created = old.created /\ row.turns = Records!MaxOf(old.turns, new.turns)
      /\ row.idle = Records!Coalesce(new.idle, old.idle)
  <2> HIDE DEF row
  <2>1. QED
    BY <1>3
<1>8. old.text => row.text
  <2> DEFINE some == old.text \/ new.text
  <2>1. row.text = some
    <3> HIDE DEF row, some
    <3>1. QED
      BY <1>3 DEF some
  <2> HIDE DEF row
  <2>2. QED
    BY <2>1
<1>9. QED
  BY <1>5, <1>6, <1>7, <1>8

(* The rows have their types, and a counter is what was recorded at most.    *)
JournalInv ==
  /\ day \in Records!Times
  /\ rows \in [Recordings -> {Records!NoRow} \cup Records!Row]
  /\ best \in [Recordings -> Nat]
  /\ \A j \in Recordings :
       best[j] = IF rows[j] = Records!NoRow THEN 0 ELSE rows[j].turns

(* What a record of job j leaves of row i: the same row, or the merged one,  *)
(* and, if texts were swept, without its text when that had expired.         *)
Kept(i, table, swept) ==
  /\ swept => rows'[i] = IF table # Records!NoRow /\ Records!Expired(table.created)
                         THEN [table EXCEPT !.text = FALSE] ELSE table
  /\ ~swept => rows'[i] = table

(* A record that is lost leaves every row, but for the sweep.                *)
LEMMA LostRecordLeaves ==
  ASSUME JournalInv, Records!RecordIsLost
  PROVE  /\ UNCHANGED <<day, best>>
         /\ prunedAt' = (IF Records!PruneIsDue THEN day ELSE prunedAt)
         /\ rows' \in [Recordings -> {Records!NoRow} \cup Records!Row]
         /\ \A i \in Recordings : Kept(i, rows[i], Records!PruneIsDue)
<1>1. /\ UNCHANGED <<day, best>>
      /\ prunedAt' = (IF Records!PruneIsDue THEN day ELSE prunedAt)
      /\ rows' = (IF Records!PruneIsDue THEN Records!PrunedTexts(rows) ELSE rows)
  BY DEF Records!RecordIsLost, Records!PruneIfDue
<1>2. ASSUME NEW i \in Recordings, rows[i] # Records!NoRow
      PROVE  [rows[i] EXCEPT !.text = FALSE] \in Records!Row
  <2>1. rows[i] \in Records!Row
    BY <1>2 DEF JournalInv
  <2>2. QED
    BY <2>1 DEF Records!Row
<1>3. rows' \in [Recordings -> {Records!NoRow} \cup Records!Row]
  BY <1>1, <1>2 DEF JournalInv, Records!PrunedTexts
<1>4. \A i \in Recordings : Kept(i, rows[i], Records!PruneIsDue)
  BY <1>1 DEF Kept, Records!PrunedTexts
<1>5. QED
  BY <1>1, <1>3, <1>4

LEMMA RecordJobLeaves ==
  ASSUME JournalInv, NEW j \in Recordings, Records!RecordJob(j)
  PROVE  \E new \in Records!Record :
           /\ best' = [best EXCEPT ![j] = Records!MaxOf(best[j], new.turns)]
           /\ day' = day
           /\ prunedAt' = (IF Records!PruneIsDue THEN day ELSE prunedAt)
           /\ rows' \in [Recordings -> {Records!NoRow} \cup Records!Row]
           /\ \A i \in Recordings \ {j} : Kept(i, rows[i], Records!PruneIsDue)
           /\ LET row == IF rows[j] = Records!NoRow THEN Records!RowOf(new)
                         ELSE Records!MergedRow(rows[j], new)
              IN  row \in Records!Row /\ Kept(j, row, Records!PruneIsDue)
<1>1. PICK new \in Records!Record :
        /\ best' = [best EXCEPT ![j] = Records!MaxOf(best[j], new.turns)]
        /\ IF Records!PruneIsDue
           THEN /\ rows' = Records!PrunedTexts(Records!Recorded(j, new))
                /\ prunedAt' = day
           ELSE rows' = Records!Recorded(j, new) /\ prunedAt' = prunedAt
        /\ day' = day
  BY DEF Records!RecordJob, Records!PruneIfDue
<1> DEFINE row == IF rows[j] = Records!NoRow THEN Records!RowOf(new)
                  ELSE Records!MergedRow(rows[j], new)
           table == Records!Recorded(j, new)
<1>2. Records!RowOf(new) \in Records!Row
  <2>1. new.turns \in Nat /\ new.cut \in Nat /\ new.idle \in {Records!Null} \cup Nat
        /\ new.text \in BOOLEAN
    BY DEF Records!Record, Records!Null
  <2>2. QED
    BY <2>1 DEF JournalInv, Records!RowOf, Records!Row
<1>3. row \in Records!Row
  BY <1>2, RecordedTypes DEF JournalInv
<1>4. table = [rows EXCEPT ![j] = row]
  BY DEF Records!Recorded, JournalInv
<1> HIDE DEF row, table
<1>5. table \in [Recordings -> {Records!NoRow} \cup Records!Row]
      /\ table[j] = row /\ \A i \in Recordings \ {j} : table[i] = rows[i]
  BY <1>3, <1>4 DEF JournalInv
<1>6. ASSUME NEW i \in Recordings, table[i] # Records!NoRow
      PROVE  [table[i] EXCEPT !.text = FALSE] \in Records!Row
  <2>1. table[i] \in Records!Row
    BY <1>5, <1>6
  <2>2. QED
    BY <2>1 DEF Records!Row
<1>7. rows' \in [Recordings -> {Records!NoRow} \cup Records!Row]
  BY <1>1, <1>5, <1>6 DEF table, Records!PrunedTexts
<1>8. \A i \in Recordings : Kept(i, table[i], Records!PruneIsDue)
  BY <1>1 DEF table, Kept, Records!PrunedTexts
<1>9. QED
  BY <1>1, <1>3, <1>5, <1>7, <1>8 DEF row

(* Sweeping a row takes its text at most, and that when it has expired.      *)
LEMMA KeptRow ==
  ASSUME NEW i \in Recordings, NEW row \in Records!Row, NEW swept \in BOOLEAN, Kept(i, row, swept)
  PROVE  /\ rows'[i] \in Records!Row
         /\ rows'[i].turns = row.turns /\ rows'[i].idle = row.idle
         /\ rows'[i].created = row.created
         /\ row.text /\ ~rows'[i].text => swept /\ Records!Expired(row.created)
         /\ rows'[i].text /\ swept => ~Records!Expired(row.created)
<1>1. row # Records!NoRow
  BY RowIs
<1>2. /\ [row EXCEPT !.text = FALSE] \in Records!Row
      /\ [row EXCEPT !.text = FALSE].turns = row.turns
      /\ [row EXCEPT !.text = FALSE].idle = row.idle
      /\ [row EXCEPT !.text = FALSE].created = row.created
      /\ [row EXCEPT !.text = FALSE].text = FALSE
  BY DEF Records!Row
<1>3. CASE swept /\ Records!Expired(row.created)
  BY <1>1, <1>2, <1>3 DEF Kept
<1>4. CASE ~(swept /\ Records!Expired(row.created))
  <2>1. rows'[i] = row
    BY <1>1, <1>4 DEF Kept
  <2>2. QED
    BY <1>4, <2>1
<1>5. QED
  BY <1>3, <1>4

LEMMA PruneIsBoolean == Records!PruneIsDue \in BOOLEAN
BY DEF Records!PruneIsDue

LEMMA JournalInvariant == Spec => []JournalInv
<1>1. Records!Init => JournalInv
  BY PartsAssumption DEF Records!Init, JournalInv, JournalConstants, Records!Times
<1>2. JournalInv /\ [Records!Next]_(Records!vars) => JournalInv'
  <2> SUFFICES ASSUME JournalInv, [Records!Next]_(Records!vars) PROVE JournalInv'
    OBVIOUS
  <2>1. ASSUME NEW j \in Recordings, Records!RecordJob(j) PROVE JournalInv'
    <3>1. PICK new \in Records!Record :
             /\ best' = [best EXCEPT ![j] = Records!MaxOf(best[j], new.turns)]
             /\ day' = day
             /\ rows' \in [Recordings -> {Records!NoRow} \cup Records!Row]
             /\ \A i \in Recordings \ {j} : Kept(i, rows[i], Records!PruneIsDue)
             /\ LET row == IF rows[j] = Records!NoRow THEN Records!RowOf(new)
                           ELSE Records!MergedRow(rows[j], new)
                IN  row \in Records!Row /\ Kept(j, row, Records!PruneIsDue)
      BY <2>1, RecordJobLeaves
    <3>2. new.turns \in Nat
      BY DEF Records!Record
    <3>3. best' \in [Recordings -> Nat]
      BY <3>1, <3>2 DEF JournalInv, Records!MaxOf
    <3>4. ASSUME NEW i \in Recordings
          PROVE  best'[i] = IF rows'[i] = Records!NoRow THEN 0 ELSE rows'[i].turns
      <4>1. CASE i = j /\ rows[j] = Records!NoRow
        <5>1. Records!RowOf(new) \in Records!Row /\ Records!RowOf(new).turns = new.turns
          BY <3>1, <4>1 DEF Records!RowOf
        <5>2. rows'[j] \in Records!Row /\ rows'[j].turns = new.turns
          BY <3>1, <4>1, <5>1, KeptRow, PruneIsBoolean
        <5>3. best'[j] = new.turns
          BY <3>1, <3>2, <4>1 DEF JournalInv, Records!MaxOf
        <5>4. QED
          BY <4>1, <5>2, <5>3, RowIs
      <4>2. CASE i = j /\ rows[j] # Records!NoRow
        <5>1. rows[j] \in Records!Row /\ best[j] = rows[j].turns
          BY <4>2 DEF JournalInv
        <5> DEFINE row == Records!MergedRow(rows[j], new)
        <5>2. row \in Records!Row /\ row.turns = Records!MaxOf(rows[j].turns, new.turns)
          BY <5>1, RecordedTypes
        <5>3. Kept(j, row, Records!PruneIsDue)
          BY <3>1, <4>2
        <5> HIDE DEF row
        <5>4. rows'[j] \in Records!Row /\ rows'[j].turns = row.turns
          BY <5>2, <5>3, KeptRow, PruneIsBoolean
        <5>5. best'[j] = Records!MaxOf(rows[j].turns, new.turns)
          BY <3>1, <5>1 DEF JournalInv
        <5>6. QED
          BY <4>2, <5>2, <5>4, <5>5, RowIs
      <4>3. CASE i # j /\ rows[i] = Records!NoRow
        BY <3>1, <4>3 DEF JournalInv, Kept
      <4>4. CASE i # j /\ rows[i] # Records!NoRow
        <5>1. rows[i] \in Records!Row /\ best[i] = rows[i].turns
          BY <4>4 DEF JournalInv
        <5>2. rows'[i] \in Records!Row /\ rows'[i].turns = rows[i].turns
          BY <3>1, <4>4, <5>1, KeptRow, PruneIsBoolean
        <5>3. best'[i] = best[i]
          BY <3>1, <4>4 DEF JournalInv
        <5>4. QED
          BY <5>1, <5>2, <5>3, RowIs
      <4>5. QED
        BY <4>1, <4>2, <4>3, <4>4
    <3>5. QED
      BY <3>1, <3>3, <3>4 DEF JournalInv
  <2>2. CASE Records!RecordRequests
    BY <2>2 DEF Records!RecordRequests, JournalInv
  <2>3. CASE Records!Tick
    <3>1. day' \in Records!Times
      BY <2>3, PartsAssumption DEF Records!Tick, JournalInv, JournalConstants, Records!Times
    <3>2. UNCHANGED <<rows, best>>
      BY <2>3 DEF Records!Tick
    <3>3. QED
      BY <3>1, <3>2 DEF JournalInv
  <2>4. CASE UNCHANGED Records!vars
    BY <2>4 DEF Records!vars, JournalInv
  <2>5. CASE Records!RecordIsLost
    <3>1. ASSUME NEW i \in Recordings
          PROVE  best[i] = IF rows'[i] = Records!NoRow THEN 0 ELSE rows'[i].turns
      <4>1. Kept(i, rows[i], Records!PruneIsDue)
        BY <2>5, LostRecordLeaves
      <4>2. CASE rows[i] = Records!NoRow
        BY <4>1, <4>2 DEF JournalInv, Kept
      <4>3. CASE rows[i] # Records!NoRow
        <5>1. rows[i] \in Records!Row /\ best[i] = rows[i].turns
          BY <4>3 DEF JournalInv
        <5>2. rows'[i] \in Records!Row /\ rows'[i].turns = rows[i].turns
          BY <4>1, <5>1, KeptRow, PruneIsBoolean
        <5>3. QED
          BY <5>1, <5>2, RowIs
      <4>4. QED
        BY <4>2, <4>3
    <3>2. UNCHANGED <<day, best>> /\ rows' \in [Recordings -> {Records!NoRow} \cup Records!Row]
      BY <2>5, LostRecordLeaves
    <3>3. QED
      BY <3>1, <3>2 DEF JournalInv
  <2>6. QED
    BY <2>1, <2>2, <2>3, <2>4, <2>5 DEF Records!Next
<1>3. QED
  BY <1>1, <1>2, JournalPart, PTL DEF Records!Spec

(* A counter of the MAX list is the highest any record of its job carried,   *)
(* whichever came last and whatever failed or was swept in between.          *)
THEOREM CountersOnlyRise == Spec => []CountersRise
<1>1. JournalInv => CountersRise
  BY DEF JournalInv, CountersRise, Records!CountersRise, Records!Bucket
<1>2. QED
  BY <1>1, JournalInvariant, PTL

(* What a step does to the row of a job that has one: its measure, and the   *)
(* text of a run that was not swept, stay.                                   *)
LEMMA RowsStay ==
  ASSUME JournalInv, [Records!Next]_(Records!vars), NEW i \in Recordings, rows[i] # Records!NoRow
  PROVE  /\ rows[i] \in Records!Row /\ rows'[i] \in Records!Row
         /\ rows'[i].created = rows[i].created
         /\ rows[i].idle # Records!Null => rows'[i].idle # Records!Null
         /\ rows[i].text /\ ~rows'[i].text => Records!Expired(rows[i].created)
<1>1. rows[i] \in Records!Row
  BY DEF JournalInv
<1>2. ASSUME NEW j \in Recordings, Records!RecordJob(j)
      PROVE  /\ rows'[i] \in Records!Row
             /\ rows'[i].created = rows[i].created
             /\ rows[i].idle # Records!Null => rows'[i].idle # Records!Null
             /\ rows[i].text /\ ~rows'[i].text => Records!Expired(rows[i].created)
  <2>1. PICK new \in Records!Record :
           /\ \A k \in Recordings \ {j} : Kept(k, rows[k], Records!PruneIsDue)
           /\ LET row == IF rows[j] = Records!NoRow THEN Records!RowOf(new)
                         ELSE Records!MergedRow(rows[j], new)
              IN  row \in Records!Row /\ Kept(j, row, Records!PruneIsDue)
    BY <1>2, RecordJobLeaves
  <2>2. CASE i # j
    BY <1>1, <2>1, <2>2, KeptRow, PruneIsBoolean
  <2>3. CASE i = j
    <3> DEFINE row == Records!MergedRow(rows[i], new)
    <3>1. row \in Records!Row /\ Kept(i, row, Records!PruneIsDue)
      BY <2>1, <2>3
    <3>2. /\ row.created = rows[i].created
          /\ rows[i].idle # Records!Null => row.idle # Records!Null
          /\ rows[i].text => row.text
      BY <1>1, RecordedTypes
    <3> HIDE DEF row
    <3>3. /\ rows'[i] \in Records!Row
          /\ rows'[i].idle = row.idle /\ rows'[i].created = row.created
          /\ row.text /\ ~rows'[i].text => Records!Expired(row.created)
      BY <3>1, KeptRow, PruneIsBoolean
    <3>4. QED
      BY <3>2, <3>3
  <2>4. QED
    BY <2>2, <2>3
<1>3. CASE Records!RecordIsLost
  <2>1. Kept(i, rows[i], Records!PruneIsDue)
    BY <1>3, LostRecordLeaves
  <2>2. QED
    BY <1>1, <2>1, KeptRow, PruneIsBoolean
<1>4. CASE ~Records!RecordIsLost /\ ~\E j \in Recordings : Records!RecordJob(j)
  <2>1. rows' = rows
    BY <1>4 DEF Records!Next, Records!RecordRequests, Records!Tick, Records!vars
  <2>2. QED
    BY <1>1, <2>1
<1>5. QED
  BY <1>1, <1>2, <1>3, <1>4

(* A row that comes without a measure adds nothing to what was measured.     *)
LEMMA NothingMeasured ==
  ASSUME JournalInv, [Records!Next]_(Records!vars), NEW i \in Recordings,
         rows[i] = Records!NoRow, rows'[i] # Records!NoRow, rows'[i].idle = Records!Null
  PROVE  Records!IdleTurns' = Records!IdleTurns /\ Records!IdleTurnsOf' = Records!IdleTurnsOf
<1>1. PICK j \in Recordings : Records!RecordJob(j)
  <2>1. ~Records!RecordIsLost
    BY LostRecordLeaves DEF Kept
  <2>2. QED
    BY <2>1 DEF Records!Next, Records!RecordRequests, Records!Tick, Records!vars
<1>2. \A k \in Recordings \ {j} : Kept(k, rows[k], Records!PruneIsDue)
  BY <1>1, RecordJobLeaves
<1>3. i = j
  BY <1>2 DEF Kept
<1>4. ASSUME NEW k \in Recordings, k # i
      PROVE  /\ rows[k] = Records!NoRow => rows'[k] = Records!NoRow
             /\ rows[k] # Records!NoRow =>
                  /\ rows'[k] # Records!NoRow
                  /\ rows'[k].idle = rows[k].idle /\ rows'[k].turns = rows[k].turns
  <2>1. Kept(k, rows[k], Records!PruneIsDue)
    BY <1>2, <1>3, <1>4
  <2>2. CASE rows[k] = Records!NoRow
    BY <2>1, <2>2 DEF Kept
  <2>3. CASE rows[k] # Records!NoRow
    <3>1. rows[k] \in Records!Row
      BY <2>3 DEF JournalInv
    <3>2. rows'[k] \in Records!Row /\ rows'[k].idle = rows[k].idle /\ rows'[k].turns = rows[k].turns
      BY <2>1, <3>1, KeptRow, PruneIsBoolean
    <3>3. QED
      BY <2>3, <3>2, RowIs
  <2>4. QED
    BY <2>2, <2>3
<1>5. Records!Measured' = Records!Measured
  BY <1>4 DEF Records!Measured, Records!Bucket
<1>6. \A k \in Records!Measured : rows'[k].idle = rows[k].idle /\ rows'[k].turns = rows[k].turns
  BY <1>4 DEF Records!Measured, Records!Bucket
<1>7. [k \in Records!Measured |-> rows[k].idle]' = [k \in Records!Measured |-> rows[k].idle]
  BY <1>5, <1>6
<1>8. [k \in Records!Measured |-> rows[k].turns]' = [k \in Records!Measured |-> rows[k].turns]
  BY <1>5, <1>6
<1>9. QED
  BY <1>7, <1>8 DEF Records!IdleTurns, Records!IdleTurnsOf

(* The boundary day counts as later than any moment of it: what expired is   *)
(* older than it may get, and what did not is at most a day older.           *)
LEMMA DaysOfText ==
  ASSUME NEW c \in Nat, NEW d \in Nat, NEW ttl \in Nat
  PROVE  /\ c \div 2 < (d - 2 * ttl) \div 2 => d - c >= 2 * ttl
         /\ ~(c \div 2 < (d - 2 * ttl) \div 2) => d - c < 2 * ttl + 2
OBVIOUS

LEMMA Expiry ==
  ASSUME JournalInv, NEW c \in Records!Times
  PROVE  /\ Records!Expired(c) => day - c >= 2 * TtlDays
         /\ ~Records!Expired(c) => day - c < 2 * TtlDays + 2
<1>1. c \in Nat /\ day \in Nat /\ TtlDays \in Nat
  BY PartsAssumption DEF JournalConstants, Records!Times, JournalInv
<1>2. Records!Expired(c) <=> c \div 2 < (day - 2 * TtlDays) \div 2
  BY DEF Records!Expired, Records!TextBefore, Records!Day, Records!Cutoff
<1>3. QED
  BY <1>1, <1>2, DaysOfText

(* After a sweep no text is left that is a day older than it may get.        *)
LEMMA SweepIsThorough ==
  ASSUME JournalInv, [Records!Next]_(Records!vars), prunedAt' # prunedAt,
         NEW i \in Recordings, rows'[i] # Records!NoRow, rows'[i].text
  PROVE  day - rows'[i].created < 2 * TtlDays + 2
<1>1. \E row \in Records!Row : Kept(i, row, TRUE)
  <2>1. CASE Records!RecordIsLost
    <3>1. Kept(i, rows[i], TRUE)
      BY <2>1, LostRecordLeaves
    <3>2. rows[i] # Records!NoRow
      BY <3>1 DEF Kept
    <3>3. QED
      BY <3>1, <3>2 DEF JournalInv
  <2>2. ASSUME NEW j \in Recordings, Records!RecordJob(j)
        PROVE  \E row \in Records!Row : Kept(i, row, TRUE)
    <3>1. PICK new \in Records!Record :
            /\ prunedAt' = (IF Records!PruneIsDue THEN day ELSE prunedAt)
            /\ \A k \in Recordings \ {j} : Kept(k, rows[k], Records!PruneIsDue)
            /\ LET row == IF rows[j] = Records!NoRow THEN Records!RowOf(new)
                          ELSE Records!MergedRow(rows[j], new)
               IN  row \in Records!Row /\ Kept(j, row, Records!PruneIsDue)
      BY <2>2, RecordJobLeaves
    <3>2. CASE i = j
      BY <3>1, <3>2
    <3>3. CASE i # j
      <4>1. Kept(i, rows[i], TRUE)
        BY <3>1, <3>3
      <4>2. rows[i] # Records!NoRow
        BY <4>1 DEF Kept
      <4>3. QED
        BY <4>1, <4>2 DEF JournalInv
    <3>4. QED
      BY <3>2, <3>3
  <2>3. QED
    BY <2>1, <2>2 DEF Records!Next, Records!RecordRequests, Records!Tick, Records!vars
<1>2. rows'[i] \in Records!Row /\ ~Records!Expired(rows'[i].created)
  BY <1>1, KeptRow
<1>3. QED
  BY <1>2, Expiry DEF Records!Row

(* What was measured is kept and counted as what it is, and a text is kept   *)
(* for as long as it may be and not much longer.                             *)
THEOREM MeasuresAreKept == Spec => MeasuresHold
<1> DEFINE MeasureStays == \A j \in Recordings :
             rows[j] # Records!NoRow /\ rows[j].idle # Records!Null => rows'[j].idle # Records!Null
           Undiluted == \A j \in Recordings :
             rows[j] = Records!NoRow /\ rows'[j] # Records!NoRow /\ rows'[j].idle = Records!Null =>
               Records!IdleTurns' = Records!IdleTurns /\ Records!IdleTurnsOf' = Records!IdleTurnsOf
           TextStays == \A j \in Recordings :
             rows[j] # Records!NoRow /\ rows[j].text /\ ~rows'[j].text =>
               day - rows[j].created >= 2 * TtlDays
           TextGoes == prunedAt' # prunedAt =>
             \A j \in Recordings : rows'[j] # Records!NoRow /\ rows'[j].text =>
               day - rows'[j].created < 2 * TtlDays + 2
<1>1. JournalInv /\ [Records!Next]_(Records!vars) => MeasureStays
  BY RowsStay
<1>2. JournalInv /\ [Records!Next]_(Records!vars) => Undiluted
  BY NothingMeasured
<1>3. JournalInv /\ [Records!Next]_(Records!vars) => TextStays
  <2> SUFFICES ASSUME JournalInv, [Records!Next]_(Records!vars), NEW j \in Recordings,
                      rows[j] # Records!NoRow, rows[j].text, ~rows'[j].text
               PROVE  day - rows[j].created >= 2 * TtlDays
    OBVIOUS
  <2>1. rows[j] \in Records!Row /\ Records!Expired(rows[j].created)
    BY RowsStay
  <2>2. rows[j].created \in Records!Times
    BY <2>1 DEF Records!Row
  <2>3. QED
    BY <2>1, <2>2, Expiry
<1>4. JournalInv /\ [Records!Next]_(Records!vars) => TextGoes
  BY SweepIsThorough
<1> HIDE DEF MeasureStays, Undiluted, TextStays, TextGoes
<1>5. Spec => [][MeasureStays]_(Records!vars) /\ [][Undiluted]_(Records!vars)
              /\ [][TextStays]_(Records!vars) /\ [][TextGoes]_(Records!vars)
  BY <1>1, <1>2, <1>3, <1>4, JournalPart, JournalInvariant, PTL DEF Records!Spec
<1>6. QED
  BY <1>5 DEF MeasureStays, Undiluted, TextStays, TextGoes, MeasuresHold, Records!MeasuresHold,
              Records!MeasureKept, Records!UnmeasuredDoNotDilute, Records!TextsExpire
-----------------------------------------------------------------------------
(* A behaviour of the parts is one of the recorder.                          *)
LEMMA RecorderPart == Spec => Recorder!Spec
<1>1. Init => Recorder!Init
  BY DEF Init
<1>2. [Next]_vars => [Recorder!Next]_(Recorder!vars)
  BY DEF Next, vars, recorderVars, Recorder!vars
<1>3. QED
  BY <1>1, <1>2, PTL DEF Spec, Recorder!Spec

(* Requests from i to j that are the same answer again as far as lengths     *)
(* tell, and how many of them answered.                                      *)
SameAgain(h, i, j) ==
  \A k \in i .. j :
    /\ ~h[k].failed
    /\ h[k].out = Recorder!Unknown \/ h[k].out >= Long
    /\ h[k].out # Recorder!Unknown => h[k].out - h[i].out \in -1 .. 1

Answered(h, i, j) == {k \in i .. j : h[k].out # Recorder!Unknown}

Counted(h, i, j) == Cardinality(Answered(h, i, j))

LEMMA RequestTypes ==
  ASSUME NEW r \in Recorder!Request
  PROVE  /\ r.out \in Nat \cup {Recorder!Unknown} /\ r.out \in Lengths \cup {Recorder!Unknown}
         /\ r.failed \in BOOLEAN /\ (r.failed => r.out = Recorder!Unknown)
         /\ r.out >= Long => r.out \in Nat /\ ~r.failed
         /\ Recorder!Unknown = -1 /\ Recorder!Null = -1
<1>1. Lengths \subseteq Nat /\ Long \in Nat \ {0}
  BY PartsAssumption DEF RecorderConstants
<1>2. /\ r.out \in Lengths \cup {Recorder!Unknown}
      /\ r.failed \in BOOLEAN /\ (r.failed => r.out = Recorder!Unknown)
  BY DEF Recorder!Request
<1>3. Recorder!Unknown = -1 /\ Recorder!Null = -1
  BY DEF Recorder!Unknown, Recorder!Null
<1>4. CASE r.out = -1
  BY <1>1, <1>2, <1>3, <1>4
<1>5. CASE r.out \in Lengths
  <2>1. r.out \in Nat
    BY <1>1, <1>5
  <2>2. ~r.failed
    BY <1>2, <1>3, <2>1
  <2>3. QED
    BY <1>2, <1>3, <1>5, <2>1, <2>2
<1>6. QED
  BY <1>2, <1>3, <1>4, <1>5

LEMMA CountedTypes ==
  ASSUME NEW h, NEW i \in Nat, NEW j \in Nat
  PROVE  /\ IsFiniteSet(Answered(h, i, j)) /\ Counted(h, i, j) \in Nat
         /\ i > j => Counted(h, i, j) = 0
         /\ i \in 1 .. j => Counted(h, i, j) <= j
<1>1. IsFiniteSet(i .. j) /\ Cardinality(i .. j) = IF i > j THEN 0 ELSE j - i + 1
  BY FS_Interval
<1>2. Answered(h, i, j) \in SUBSET (i .. j)
  BY DEF Answered
<1>3. IsFiniteSet(Answered(h, i, j)) /\ Cardinality(Answered(h, i, j)) <= Cardinality(i .. j)
  BY <1>1, <1>2, FS_Subset
<1>4. Cardinality(Answered(h, i, j)) \in Nat
  BY <1>3, FS_CardinalityType
<1>5. QED
  BY <1>1, <1>3, <1>4 DEF Counted

(* What another request adds to those before it.                             *)
LEMMA AnotherRequest ==
  ASSUME NEW h \in Seq(Recorder!Request), NEW r \in Recorder!Request
  PROVE  LET n == Len(h)
             g == Append(h, r)
         IN  /\ n \in Nat /\ g \in Seq(Recorder!Request) /\ Len(g) = n + 1 /\ g[n + 1] = r
             /\ \A k \in 1 .. n : g[k] = h[k]
             /\ \A i, j \in 1 .. n : /\ Counted(g, i, j) = Counted(h, i, j)
                                     /\ SameAgain(g, i, j) <=> SameAgain(h, i, j)
             /\ \A i \in 1 .. n : Counted(g, i, n + 1) =
                                    IF r.out = Recorder!Unknown THEN Counted(h, i, n) ELSE Counted(h, i, n) + 1
             /\ Counted(g, n + 1, n + 1) = IF r.out = Recorder!Unknown THEN 0 ELSE 1
<1> DEFINE n == Len(h)
           g == Append(h, r)
<1>1. n \in Nat /\ g \in Seq(Recorder!Request) /\ Len(g) = n + 1 /\ g[n + 1] = r
      /\ \A k \in 1 .. n : g[k] = h[k]
  OBVIOUS
<1> HIDE DEF n, g
<1>2. ASSUME NEW i \in 1 .. n, NEW j \in 1 .. n
      PROVE  Answered(g, i, j) = Answered(h, i, j) /\ (SameAgain(g, i, j) <=> SameAgain(h, i, j))
  <2>1. \A k \in i .. j : g[k] = h[k]
    BY <1>1
  <2>2. g[i] = h[i]
    BY <1>1
  <2>3. QED
    BY <2>1, <2>2 DEF Answered, SameAgain
<1>3. ASSUME NEW i \in 1 .. n + 1
      PROVE  Counted(g, i, n + 1) =
               IF r.out = Recorder!Unknown THEN Counted(g, i, n) ELSE Counted(g, i, n) + 1
  <2>1. CASE r.out = Recorder!Unknown
    <3>1. Answered(g, i, n + 1) = Answered(g, i, n)
      BY <1>1, <2>1 DEF Answered
    <3>2. QED
      BY <2>1, <3>1 DEF Counted
  <2>2. CASE r.out # Recorder!Unknown
    <3>1. Answered(g, i, n + 1) = Answered(g, i, n) \cup {n + 1} /\ n + 1 \notin Answered(g, i, n)
      BY <1>1, <2>2 DEF Answered
    <3>2. IsFiniteSet(Answered(g, i, n))
      BY <1>1, CountedTypes
    <3>3. QED
      BY <2>2, <3>1, <3>2, FS_AddElement DEF Counted
  <2>3. QED
    BY <2>1, <2>2
<1>4. ASSUME NEW i \in 1 .. n PROVE Counted(g, i, n) = Counted(h, i, n)
  BY <1>1, <1>2 DEF Counted
<1>5. Counted(g, n + 1, n) = 0
  BY <1>1, CountedTypes
<1>6. \A i \in 1 .. n : Counted(g, i, n + 1) =
        IF r.out = Recorder!Unknown THEN Counted(h, i, n) ELSE Counted(h, i, n) + 1
  BY <1>1, <1>3, <1>4
<1>7. Counted(g, n + 1, n + 1) = IF r.out = Recorder!Unknown THEN 0 ELSE 1
  BY <1>1, <1>3, <1>5
<1>8. QED
  BY <1>1, <1>2, <1>6, <1>7 DEF Counted, n, g

(* The series that is running is one of the requests, from its anchor to the *)
(* last of them, and the summary tells of one that was.                      *)
Running(h, i, anchor, count) ==
  h[i].out = anchor /\ SameAgain(h, i, Len(h)) /\ Counted(h, i, Len(h)) = count

Seen(h, i, j, count) ==
  i <= j /\ h[i].out >= Long /\ h[j].out >= Long /\ SameAgain(h, i, j) /\ Counted(h, i, j) = count

SeriesInv ==
  /\ history \in Seq(Recorder!Request)
  /\ repeatRun \in Nat /\ summary.repeatRun \in Nat /\ repeatRun <= summary.repeatRun
  /\ repeatRun = 0 => repeatLastOut = Recorder!Null
  /\ repeatRun > 0 => /\ repeatLastOut \in Nat /\ repeatLastOut >= Long
                      /\ \E i \in 1 .. Len(history) : Running(history, i, repeatLastOut, repeatRun)
  /\ summary.repeatRun > 0 =>
       \E i, j \in 1 .. Len(history) : Seen(history, i, j, summary.repeatRun)
  /\ (\E i \in 1 .. Len(history) : history[i].out >= Long) => summary.repeatRun > 0

LEMMA SeriesInvariant == Spec => []SeriesInv
<1>1. Recorder!Init => SeriesInv
  <2> SUFFICES ASSUME Recorder!Init PROVE SeriesInv
    OBVIOUS
  <2>1. history \in Seq(Recorder!Request) /\ Len(history) = 0
    BY EmptySeq DEF Recorder!Init
  <2>2. summary.repeatRun = 0 /\ repeatRun = 0 /\ repeatLastOut = Recorder!Null
    BY DEF Recorder!Init
  <2>3. QED
    BY <2>1, <2>2 DEF SeriesInv
<1>2. SeriesInv /\ [Recorder!Next]_(Recorder!vars) => SeriesInv'
  <2> SUFFICES ASSUME SeriesInv, [Recorder!Next]_(Recorder!vars) PROVE SeriesInv'
    OBVIOUS
  <2>1. CASE Recorder!Record
    <3>1. PICK r \in Recorder!Request :
            /\ history' = Append(history, r)
            /\ repeatRun' = Recorder!NextSeries(r).run
            /\ repeatLastOut' = Recorder!NextSeries(r).anchor
            /\ summary'.repeatRun = IF Recorder!NextSeries(r).run > summary.repeatRun
                                    THEN Recorder!NextSeries(r).run ELSE summary.repeatRun
      BY <2>1 DEF Recorder!Record
    <3> DEFINE n == Len(history)
               g == history'
    <3>2. /\ n \in Nat /\ g \in Seq(Recorder!Request) /\ Len(g) = n + 1 /\ g[n + 1] = r
          /\ \A k \in 1 .. n : g[k] = history[k]
          /\ \A i, j \in 1 .. n :
               /\ Counted(g, i, j) = Counted(history, i, j)
               /\ SameAgain(g, i, j) <=> SameAgain(history, i, j)
          /\ \A i \in 1 .. n : Counted(g, i, n + 1) =
               IF r.out = Recorder!Unknown THEN Counted(history, i, n) ELSE Counted(history, i, n) + 1
          /\ Counted(g, n + 1, n + 1) = IF r.out = Recorder!Unknown THEN 0 ELSE 1
      BY <3>1, AnotherRequest DEF SeriesInv
    <3> HIDE DEF n, g
    <3>3. Long \in Nat \ {0} /\ Recorder!Unknown = -1 /\ Recorder!Null = -1
      BY PartsAssumption DEF RecorderConstants, Recorder!Unknown, Recorder!Null
    <3>4. r.out \in Nat \cup {-1} /\ (r.failed => r.out = -1) /\ r.failed \in BOOLEAN
      BY <3>3, RequestTypes
    <3>5. /\ repeatRun \in Nat /\ summary.repeatRun \in Nat /\ repeatRun <= summary.repeatRun
          /\ repeatRun = 0 => repeatLastOut = -1
          /\ repeatRun > 0 => repeatLastOut \in Nat /\ repeatLastOut >= Long
      BY <3>3 DEF SeriesInv
    <3>6. ASSUME NEW i \in 1 .. n, NEW j \in 1 .. n, NEW count, Seen(history, i, j, count)
          PROVE  Seen(g, i, j, count)
      BY <3>2, <3>6 DEF Seen
    <3>7. (\E i \in 1 .. n + 1 : g[i].out >= Long)
            <=> r.out >= Long \/ \E i \in 1 .. n : history[i].out >= Long
      <4>1. \A i \in 1 .. n + 1 : i = n + 1 \/ i \in 1 .. n
        BY <3>2
      <4>2. n + 1 \in 1 .. n + 1 /\ \A i \in 1 .. n : i \in 1 .. n + 1
        BY <3>2
      <4>3. QED
        BY <3>2, <4>1, <4>2
    (* A request that is not long: the summary stays. *)
    <3>8. ASSUME repeatRun' \in Nat, repeatRun' <= summary.repeatRun, ~(r.out >= Long)
          PROVE  /\ summary'.repeatRun = summary.repeatRun
                 /\ summary.repeatRun > 0 => \E i, j \in 1 .. n + 1 : Seen(g, i, j, summary.repeatRun)
                 /\ (\E i \in 1 .. n + 1 : g[i].out >= Long) => summary.repeatRun > 0
      <4>1. summary'.repeatRun = summary.repeatRun
        BY <3>1, <3>5, <3>8
      <4>2. ASSUME summary.repeatRun > 0
            PROVE  \E i, j \in 1 .. n + 1 : Seen(g, i, j, summary.repeatRun)
        <5>1. PICK i, j \in 1 .. n : Seen(history, i, j, summary.repeatRun)
          BY <4>2 DEF SeriesInv, n
        <5>2. Seen(g, i, j, summary.repeatRun) /\ i \in 1 .. n + 1 /\ j \in 1 .. n + 1
          BY <3>2, <3>6, <5>1
        <5>3. QED
          BY <5>2
      <4>3. (\E i \in 1 .. n + 1 : g[i].out >= Long) => summary.repeatRun > 0
        BY <3>7, <3>8 DEF SeriesInv, n
      <4>4. QED
        BY <4>1, <4>2, <4>3
    (* A long request: it ends the series that is running now. *)
    <3>9. ASSUME NEW i \in 1 .. n + 1, NEW anchor \in Nat, NEW count \in Nat, count > 0,
                 r.out >= Long, repeatRun' = count, g[i].out >= Long,
                 Running(g, i, anchor, count)
          PROVE  /\ repeatRun' <= summary'.repeatRun /\ summary'.repeatRun \in Nat
                 /\ summary'.repeatRun > 0
                 /\ \E k, j \in 1 .. n + 1 : Seen(g, k, j, summary'.repeatRun)
      <4>1. summary'.repeatRun = IF count > summary.repeatRun THEN count ELSE summary.repeatRun
        BY <3>1, <3>9
      <4>2. CASE count > summary.repeatRun
        <5>1. Seen(g, i, n + 1, count)
          BY <3>2, <3>9 DEF Running, Seen
        <5>2. n + 1 \in 1 .. n + 1
          BY <3>2
        <5>3. QED
          BY <3>9, <4>1, <4>2, <5>1, <5>2
      <4>3. CASE ~(count > summary.repeatRun)
        <5>1. summary.repeatRun > 0 /\ summary'.repeatRun = summary.repeatRun
          BY <3>5, <3>9, <4>1, <4>3
        <5>2. PICK k, j \in 1 .. n : Seen(history, k, j, summary.repeatRun)
          BY <5>1 DEF SeriesInv, n
        <5>3. Seen(g, k, j, summary.repeatRun) /\ k \in 1 .. n + 1 /\ j \in 1 .. n + 1
          BY <3>2, <3>6, <5>2
        <5>4. QED
          BY <3>5, <3>9, <4>3, <5>1, <5>3
      <4>4. QED
        BY <4>2, <4>3
    <3>10. CASE r.failed \/ (~r.failed /\ ~(r.out >= Long) /\ r.out \in 0 .. Long - 1)
      <4>1. repeatRun' = 0 /\ repeatLastOut' = -1
        BY <3>1, <3>3, <3>4, <3>10 DEF Recorder!NextSeries
      <4>2. ~(r.out >= Long)
        BY <3>3, <3>4, <3>10
      <4>3. QED
        BY <3>2, <3>3, <3>5, <3>8, <4>1, <4>2 DEF SeriesInv, g
    <3>11. CASE ~r.failed /\ r.out = -1
      <4>1. repeatRun' = repeatRun /\ repeatLastOut' = repeatLastOut /\ ~(r.out >= Long)
        <5>1. ~(r.out >= Long) /\ r.out \notin 0 .. Long - 1
          BY <3>3, <3>11
        <5>2. Recorder!NextSeries(r) = [run |-> repeatRun, anchor |-> repeatLastOut]
          BY <3>11, <5>1 DEF Recorder!NextSeries
        <5>3. QED
          BY <3>1, <5>1, <5>2
      <4>2. ASSUME repeatRun > 0
            PROVE  \E i \in 1 .. n + 1 : Running(g, i, repeatLastOut, repeatRun)
        <5>1. PICK i \in 1 .. n : Running(history, i, repeatLastOut, repeatRun)
          BY <4>2 DEF SeriesInv, n
        <5>2. g[i].out = repeatLastOut /\ Counted(g, i, n + 1) = repeatRun
          BY <3>2, <3>3, <3>11, <5>1 DEF Running, n
        <5>3. SameAgain(g, i, n + 1)
          <6>1. SameAgain(g, i, n)
            BY <3>2, <5>1 DEF Running, n
          <6>2. \A k \in i .. n + 1 : k \in i .. n \/ k = n + 1
            BY <3>2
          <6>3. QED
            BY <3>2, <3>3, <3>11, <6>1, <6>2 DEF SameAgain
        <5>4. i \in 1 .. n + 1
          BY <3>2
        <5>5. QED
          BY <3>2, <5>2, <5>3, <5>4 DEF Running
      <4>3. QED
        BY <3>2, <3>3, <3>5, <3>8, <4>1, <4>2 DEF SeriesInv, g
    <3>12. CASE ~r.failed /\ r.out >= Long /\ Recorder!Near(r.out, repeatLastOut)
      <4>1. repeatRun' = repeatRun + 1 /\ repeatLastOut' = repeatLastOut
        <5>1. r.out \notin 0 .. Long - 1
          BY <3>3, <3>12
        <5>2. Recorder!NextSeries(r) =
                IF Recorder!Near(r.out, repeatLastOut)
                THEN [run |-> repeatRun + 1, anchor |-> repeatLastOut]
                ELSE [run |-> 1, anchor |-> r.out]
          BY <3>12, <5>1 DEF Recorder!NextSeries
        <5>3. Recorder!NextSeries(r) = [run |-> repeatRun + 1, anchor |-> repeatLastOut]
          BY <3>12, <5>2
        <5>4. QED
          BY <3>1, <5>3
      <4>2. repeatRun > 0 /\ r.out - repeatLastOut \in -1 .. 1
        BY <3>3, <3>5, <3>12 DEF Recorder!Near
      <4>3. PICK i \in 1 .. n : Running(history, i, repeatLastOut, repeatRun)
        BY <4>2 DEF SeriesInv, n
      <4>4. i \in 1 .. n + 1 /\ r.out # -1
        BY <3>2, <3>3, <3>12
      <4>5. g[i].out = repeatLastOut /\ Counted(g, i, n + 1) = repeatRun + 1
        BY <3>2, <3>3, <4>3, <4>4 DEF Running, n
      <4>6. SameAgain(g, i, n + 1)
        <5>1. SameAgain(g, i, n)
          BY <3>2, <4>3 DEF Running, n
        <5>2. \A k \in i .. n + 1 : k \in i .. n \/ k = n + 1
          BY <3>2
        <5>3. ~g[n + 1].failed /\ g[n + 1].out >= Long /\ g[n + 1].out - g[i].out \in -1 .. 1
          BY <3>2, <3>12, <4>2, <4>5
        <5>4. QED
          BY <5>1, <5>2, <5>3 DEF SameAgain
      <4>7. Running(g, i, repeatLastOut, repeatRun + 1)
        BY <3>2, <4>5, <4>6 DEF Running
      <4>8. g[i].out >= Long /\ repeatLastOut \in Nat /\ repeatLastOut >= Long
            /\ repeatRun + 1 \in Nat /\ repeatRun + 1 > 0
        BY <3>5, <4>2, <4>5
      <4>9. /\ repeatRun' <= summary'.repeatRun /\ summary'.repeatRun \in Nat
            /\ summary'.repeatRun > 0
            /\ \E k, j \in 1 .. n + 1 : Seen(g, k, j, summary'.repeatRun)
        BY <3>9, <3>12, <4>1, <4>4, <4>7, <4>8
      <4>10. QED
        BY <3>2, <3>5, <4>1, <4>4, <4>7, <4>8, <4>9 DEF SeriesInv, g
    <3>13. CASE ~r.failed /\ r.out >= Long /\ ~Recorder!Near(r.out, repeatLastOut)
      <4>1. repeatRun' = 1 /\ repeatLastOut' = r.out
        <5>1. r.out \notin 0 .. Long - 1
          BY <3>3, <3>13
        <5>2. Recorder!NextSeries(r) =
                IF Recorder!Near(r.out, repeatLastOut)
                THEN [run |-> repeatRun + 1, anchor |-> repeatLastOut]
                ELSE [run |-> 1, anchor |-> r.out]
          BY <3>13, <5>1 DEF Recorder!NextSeries
        <5>3. Recorder!NextSeries(r) = [run |-> 1, anchor |-> r.out]
          BY <3>13, <5>2
        <5>4. QED
          BY <3>1, <5>3
      <4>2. n + 1 \in 1 .. n + 1 /\ g[n + 1].out = r.out /\ r.out \in Nat /\ r.out >= Long
        BY <3>2, <3>3, <3>4, <3>13
      <4>3. Counted(g, n + 1, n + 1) = 1
        BY <3>2, <3>3, <4>2
      <4>4. SameAgain(g, n + 1, n + 1)
        <5>1. \A k \in n + 1 .. n + 1 : k = n + 1
          BY <3>2
        <5>2. r.out - r.out \in -1 .. 1
          BY <4>2
        <5>3. QED
          BY <3>2, <3>13, <4>2, <5>1, <5>2 DEF SameAgain
      <4>5. Running(g, n + 1, r.out, 1)
        BY <3>2, <4>2, <4>3, <4>4 DEF Running
      <4>6. /\ repeatRun' <= summary'.repeatRun /\ summary'.repeatRun \in Nat
            /\ summary'.repeatRun > 0
            /\ \E k, j \in 1 .. n + 1 : Seen(g, k, j, summary'.repeatRun)
        BY <3>2, <3>9, <4>1, <4>2, <4>5
      <4>7. QED
        BY <3>2, <4>1, <4>2, <4>5, <4>6 DEF SeriesInv, g
    <3>14. QED
      BY <3>3, <3>4, <3>10, <3>11, <3>12, <3>13
  <2>2. CASE UNCHANGED <<history, repeatRun, repeatLastOut, summary>>
    BY <2>2 DEF SeriesInv
  <2>3. QED
    BY <2>1, <2>2 DEF Recorder!Next, Recorder!TimerFires, Recorder!Close, Recorder!vars
<1>3. QED
  BY <1>1, <1>2, RecorderPart, PTL DEF Recorder!Spec

(* A bounded set of numbers that is not empty has a greatest one.            *)
LEMMA GreatestNumber ==
  ASSUME NEW S \in SUBSET Nat, S # {}, NEW b \in Nat, \A x \in S : x <= b
  PROVE  Recorder!Max(S) \in S /\ \A x \in S : Recorder!Max(S) >= x
<1> DEFINE T == {y \in Nat : b - y \in S}
<1>1. T # {}
  <2>1. PICK x \in S : TRUE
    OBVIOUS
  <2>2. b - x \in Nat /\ b - (b - x) = x
    OBVIOUS
  <2>3. b - x \in T
    BY <2>2
  <2>4. QED
    BY <2>3
<1>2. PICK y \in T : \A z \in T : y <= z
  <2>1. T \in SUBSET Nat
    OBVIOUS
  <2> HIDE DEF T
  <2>2. QED
    BY <1>1, <2>1, LeastNumber
<1>3. ASSUME NEW x \in S PROVE b - y >= x
  <2>1. b - x \in Nat /\ b - (b - x) = x
    OBVIOUS
  <2>2. b - x \in T
    BY <2>1
  <2>3. y <= b - x /\ y \in Nat
    BY <1>2, <2>2
  <2> HIDE DEF T
  <2>4. QED
    BY <2>1, <2>3
<1>4. \E m \in S : \A x \in S : m >= x
  BY <1>2, <1>3
<1>5. Recorder!Max(S) = CHOOSE m \in S : \A x \in S : m >= x
  BY DEF Recorder!Max
<1>6. QED
  BY <1>4, <1>5

LEMMA AnswersAre ==
  \A i, j : Recorder!Answers(i, j) = Counted(history, i, j)
<1>1. \A S : Recorder!Cardinality(S) = Cardinality(S)
  BY DEF Recorder!Cardinality, Cardinality
<1>2. QED
  BY <1>1 DEF Recorder!Answers, Counted, Answered

LEMMA SeriesAre ==
  \A i, j : Recorder!Series(i, j) <=>
    history[i].out >= Long /\ history[j].out >= Long /\ SameAgain(history, i, j)
BY DEF Recorder!Series, SameAgain

(* The repetition that is reported is that of a series, and where there is a *)
(* series one is reported.                                                   *)
LEMMA RepetitionIsThere == SeriesInv => Recorder!NoFalseRepetition
<1> SUFFICES ASSUME SeriesInv PROVE Recorder!NoFalseRepetition
  OBVIOUS
<1> DEFINE n == Len(history)
           series == {s \in (DOMAIN history) \X (DOMAIN history) :
                        s[1] <= s[2] /\ Recorder!Series(s[1], s[2])}
           counts == {Recorder!Answers(s[1], s[2]) : s \in series} \cup {0}
<1>1. n \in Nat /\ DOMAIN history = 1 .. n /\ summary.repeatRun \in Nat
  BY LenProperties DEF SeriesInv
<1>2. ASSUME NEW x \in counts PROVE x \in Nat /\ x <= n
  <2>1. CASE x = 0
    BY <1>1, <2>1
  <2>2. ASSUME NEW s \in series, x = Recorder!Answers(s[1], s[2]) PROVE x \in Nat /\ x <= n
    <3>1. s[1] \in 1 .. n /\ s[2] \in 1 .. n /\ s[1] <= s[2]
      BY <1>1
    <3>2. s[1] \in Nat /\ s[2] \in Nat /\ s[1] \in 1 .. s[2]
      BY <1>1, <3>1
    <3>3. x = Counted(history, s[1], s[2])
      BY <2>2, AnswersAre
    <3>4. x \in Nat /\ x <= s[2]
      BY <3>2, <3>3, CountedTypes
    <3>5. QED
      BY <1>1, <3>1, <3>4
  <2>3. QED
    BY <2>1, <2>2
<1>3. /\ Recorder!Max(counts) \in counts
      /\ \A x \in counts : Recorder!Max(counts) >= x
  <2>1. counts \in SUBSET Nat /\ counts # {} /\ \A x \in counts : x <= n
    BY <1>2
  <2> HIDE DEF counts
  <2>2. QED
    BY <1>1, <2>1, GreatestNumber
<1>4. summary.repeatRun \in counts
  <2>1. CASE summary.repeatRun = 0
    BY <2>1
  <2>2. CASE summary.repeatRun > 0
    <3>1. PICK i, j \in 1 .. n : Seen(history, i, j, summary.repeatRun)
      BY <2>2 DEF SeriesInv
    <3>2. <<i, j>> \in series
      BY <1>1, <3>1, SeriesAre DEF Seen
    <3>3. summary.repeatRun = Recorder!Answers(<<i, j>>[1], <<i, j>>[2])
      BY <3>1, AnswersAre DEF Seen
    <3>4. QED
      BY <3>2, <3>3
  <2>3. QED
    BY <1>1, <2>1, <2>2
<1>5. summary.repeatRun <= Recorder!Max(counts)
  <2>1. Recorder!Max(counts) \in Nat
    BY <1>2, <1>3
  <2>2. Recorder!Max(counts) >= summary.repeatRun
    BY <1>3, <1>4
  <2> HIDE DEF counts
  <2>3. QED
    BY <1>1, <2>1, <2>2
<1>6. series # {} => summary.repeatRun > 0
  <2> SUFFICES ASSUME NEW s \in series PROVE summary.repeatRun > 0
    OBVIOUS
  <2>1. s[1] \in 1 .. n /\ history[s[1]].out >= Long
    BY <1>1, SeriesAre
  <2>2. QED
    BY <2>1 DEF SeriesInv
<1>7. QED
  BY <1>5, <1>6 DEF Recorder!NoFalseRepetition

(* A row waits or is written, and not both; and what waits has a timer.      *)
RowsInv ==
  /\ history \in Seq(Recorder!Request)
  /\ pending \in Seq(1 .. Len(history)) /\ written \subseteq 1 .. Len(history)
  /\ Len(pending) < FlushAt
  /\ Recorder!Range(pending) \cap written = {}
  /\ pending # <<>> => timer
  /\ history # <<>> => summary.lastCut = history[Len(history)].cut

LEMMA FlushedRows ==
  ASSUME NEW n, NEW batch \in Seq(1 .. n), written \subseteq 1 .. n, Recorder!Flushed(batch)
  PROVE  /\ pending' = <<>> /\ written' \subseteq 1 .. n
         /\ Recorder!Range(pending') = {} /\ Len(pending') = 0
<1>1. Recorder!Range(batch) \subseteq 1 .. n
  <2>1. \A i \in DOMAIN batch : batch[i] \in 1 .. n
    BY LenProperties, ElementOfSeq
  <2>2. QED
    BY <2>1 DEF Recorder!Range
<1>2. pending' = <<>> /\ written' \subseteq 1 .. n
  BY <1>1 DEF Recorder!Flushed
<1>3. Recorder!Range(<<>>) = {} /\ Len(<<>>) = 0
  BY EmptySeq DEF Recorder!Range
<1>4. QED
  BY <1>2, <1>3

LEMMA RowsInvariant == Spec => []RowsInv
<1>1. Recorder!Init => RowsInv
  <2> SUFFICES ASSUME Recorder!Init PROVE RowsInv
    OBVIOUS
  <2>1. history = <<>> /\ pending = <<>> /\ written = {}
    BY DEF Recorder!Init
  <2>2. Len(pending) = 0 /\ pending \in Seq(1 .. Len(history)) /\ history \in Seq(Recorder!Request)
    BY <2>1, EmptySeq
  <2>3. 0 < FlushAt
    BY PartsAssumption DEF RecorderConstants
  <2>4. QED
    BY <2>1, <2>2, <2>3 DEF RowsInv
<1>2. RowsInv /\ [Recorder!Next]_(Recorder!vars) => RowsInv'
  <2> SUFFICES ASSUME RowsInv, [Recorder!Next]_(Recorder!vars) PROVE RowsInv'
    OBVIOUS
  <2>1. FlushAt \in Nat \ {0} /\ Len(history) \in Nat
    BY PartsAssumption, LenProperties DEF RecorderConstants, RowsInv
  <2>2. CASE Recorder!Record
    <3> DEFINE n == Len(history)
               batch == Append(pending, n + 1)
    <3>1. PICK r \in Recorder!Request :
            /\ history' = Append(history, r) /\ summary'.lastCut = r.cut
            /\ IF Len(batch) >= FlushAt THEN Recorder!Flushed(batch) /\ UNCHANGED timer
               ELSE pending' = batch /\ timer' = TRUE /\ UNCHANGED written
      BY <2>2 DEF Recorder!Record, Recorder!LastCut
    <3>2. /\ history' \in Seq(Recorder!Request) /\ Len(history') = n + 1 /\ history'[n + 1] = r
          /\ history' # <<>>
      BY <3>1 DEF RowsInv
    <3>3. 1 .. n \subseteq 1 .. n + 1 /\ n + 1 \in 1 .. n + 1 /\ n + 1 \notin 1 .. n
      BY <2>1
    <3>4. pending \in Seq(1 .. n + 1) /\ written \subseteq 1 .. n + 1 /\ written \subseteq 1 .. n
      BY <3>3 DEF RowsInv
    <3>5. batch \in Seq(1 .. n + 1) /\ Len(batch) \in Nat
          /\ Recorder!Range(batch) = Recorder!Range(pending) \cup {n + 1}
      <4>1. batch \in Seq(1 .. n + 1) /\ Len(batch) = Len(pending) + 1 /\ Len(pending) \in Nat
            /\ batch[Len(pending) + 1] = n + 1
            /\ \A i \in 1 .. Len(pending) : batch[i] = pending[i]
        BY <3>3, <3>4
      <4>2. DOMAIN batch = 1 .. Len(pending) + 1 /\ DOMAIN pending = 1 .. Len(pending)
        BY <3>4, <4>1, LenProperties
      <4>3. 1 .. Len(pending) + 1 = 1 .. Len(pending) \cup {Len(pending) + 1}
        BY <4>1
      <4> HIDE DEF batch, n
      <4>4. QED
        BY <4>1, <4>2, <4>3 DEF Recorder!Range
    <3> HIDE DEF batch, n
    <3>6. CASE Len(batch) >= FlushAt
      <4>1. Recorder!Flushed(batch)
        BY <3>1, <3>6
      <4>2. /\ pending' = <<>> /\ written' \subseteq 1 .. n + 1
            /\ Recorder!Range(pending') = {} /\ Len(pending') = 0
        BY <3>4, <3>5, <4>1, FlushedRows
      <4>3. pending' \in Seq(1 .. n + 1)
        BY <4>2, EmptySeq
      <4>4. QED
        BY <2>1, <3>1, <3>2, <4>2, <4>3 DEF RowsInv
    <3>7. CASE ~(Len(batch) >= FlushAt)
      <4>1. pending' = batch /\ timer' = TRUE /\ written' = written
        BY <3>1, <3>7
      <4>2. Recorder!Range(batch) \cap written = {}
        BY <3>3, <3>4, <3>5 DEF RowsInv
      <4>3. Len(batch) < FlushAt
        BY <2>1, <3>5, <3>7
      <4>4. QED
        BY <3>1, <3>2, <3>4, <3>5, <4>1, <4>2, <4>3 DEF RowsInv
    <3>8. QED
      BY <3>6, <3>7
  <2>3. CASE Recorder!TimerFires \/ Recorder!Close
    <3>1. Recorder!Flushed(pending) /\ history' = history /\ summary' = summary
      BY <2>3 DEF Recorder!TimerFires, Recorder!Close
    <3>2. /\ pending' = <<>> /\ written' \subseteq 1 .. Len(history)
          /\ Recorder!Range(pending') = {} /\ Len(pending') = 0
      BY <3>1, FlushedRows DEF RowsInv
    <3>3. pending' \in Seq(1 .. Len(history))
      BY <3>2, EmptySeq
    <3>4. QED
      BY <2>1, <3>1, <3>2, <3>3 DEF RowsInv
  <2>4. CASE UNCHANGED Recorder!vars
    BY <2>4 DEF Recorder!vars, RowsInv
  <2>5. QED
    BY <2>2, <2>3, <2>4 DEF Recorder!Next
<1>3. QED
  BY <1>1, <1>2, RecorderPart, PTL DEF Recorder!Spec

(* What the summary and the table tell of a run's requests is what happened: *)
(* a repetition is a series of long answers that has that many, and a row is *)
(* written or waits, with a timer, among fewer than are flushed at a time.   *)
THEOREM SummaryIsTrue == Spec => []RepetitionIsReal
<1>1. RowsInv => Recorder!BatchIsSmall
  BY DEF RowsInv, Recorder!BatchIsSmall, Recorder!Last
<1>2. SeriesInv /\ RowsInv => RepetitionIsReal
  BY <1>1, RepetitionIsThere DEF RepetitionIsReal, Recorder!RepetitionIsReal
<1>3. QED
  BY <1>2, SeriesInvariant, RowsInvariant, PTL
-----------------------------------------------------------------------------
(* A behaviour of the parts is one of the sandbox.                           *)
LEMMA SandboxPart == Spec => Sandboxes!Spec
<1>1. Init => Sandboxes!Init
  BY DEF Init
<1>2. [Next]_vars => [Sandboxes!Next]_(Sandboxes!vars)
  BY DEF Next, vars, sandboxVars, Sandboxes!vars
<1>3. QED
  BY <1>1, <1>2, PTL DEF Spec, Sandboxes!Spec

(* Mounts laid over mounts are mounts.                                       *)
LEMMA MergedMounts ==
  ASSUME NEW base \in Sandboxes!Mounts, NEW layer \in Sandboxes!Mounts
  PROVE  Sandboxes!Merged(base, layer) \in Sandboxes!Mounts
<1>1. PICK S \in SUBSET Sandboxes!Targets : base \in [S -> Sandboxes!Mount]
  BY DEF Sandboxes!Mounts
<1>2. PICK T \in SUBSET Sandboxes!Targets : layer \in [T -> Sandboxes!Mount]
  BY DEF Sandboxes!Mounts
<1>3. Sandboxes!Merged(base, layer) \in [S \cup T -> Sandboxes!Mount]
  BY <1>1, <1>2 DEF Sandboxes!Merged, Sandboxes!Over
<1>4. QED
  BY <1>3 DEF Sandboxes!Mounts

LEMMA NoMountsAreMounts == Sandboxes!NoMounts \in Sandboxes!Mounts
BY DEF Sandboxes!NoMounts, Sandboxes!Mounts

(* One call of normalizeSandbox, given what the others return.               *)
Calls == Profiles \X SUBSET Profiles

Base(g, call) ==
  IF config.profiles[call[1]].base = Sandboxes!Unset
  THEN [mounts |-> Sandboxes!NoMounts, agentDir |-> "volume"]
  ELSE g[<<config.profiles[call[1]].base, call[2] \cup {call[1]}>>]

Normalized(g, call) ==
  IF call[1] \in call[2] \/ Base(g, call) = Sandboxes!Absent THEN Sandboxes!Absent
  ELSE [mounts   |-> Sandboxes!Merged(Base(g, call).mounts, config.profiles[call[1]].mounts),
        agentDir |-> IF config.profiles[call[1]].agentDir = Sandboxes!Unset
                     THEN Base(g, call).agentDir ELSE config.profiles[call[1]].agentDir]

Solves(g) == g = [call \in Calls |-> Normalized(g, call)]

(* The profiles a call may still come to.                                    *)
Left(call) == Cardinality(Profiles \ call[2])

LEMMA LeftIsLess ==
  ASSUME NEW call \in Calls
  PROVE  /\ Left(call) \in Nat
         /\ call[1] \notin call[2] =>
              \A p \in Profiles :
                /\ <<p, call[2] \cup {call[1]}>> \in Calls
                /\ Left(<<p, call[2] \cup {call[1]}>>) = Left(call) - 1
         /\ Left(call) = 0 => call[1] \in call[2]
<1>1. call[1] \in Profiles /\ call[2] \in SUBSET Profiles
  BY DEF Calls
<1>2. IsFiniteSet(Profiles \ call[2])
  BY PartsAssumption, FS_Subset DEF SandboxConstants
<1>3. Left(call) \in Nat
  BY <1>2, FS_CardinalityType DEF Left
<1>4. Left(call) = 0 => call[1] \in call[2]
  BY <1>1, <1>2, FS_EmptySet DEF Left
<1>5. ASSUME call[1] \notin call[2], NEW p \in Profiles
      PROVE  /\ <<p, call[2] \cup {call[1]}>> \in Calls
             /\ Left(<<p, call[2] \cup {call[1]}>>) = Left(call) - 1
  <2>1. Profiles \ (call[2] \cup {call[1]}) = (Profiles \ call[2]) \ {call[1]}
    OBVIOUS
  <2>2. Cardinality((Profiles \ call[2]) \ {call[1]}) = Cardinality(Profiles \ call[2]) - 1
    BY <1>1, <1>2, <1>5, FS_RemoveElement
  <2>3. QED
    BY <1>1, <2>1, <2>2 DEF Left, Calls
<1>6. QED
  BY <1>3, <1>4, <1>5

Fcn(g) == g = [call \in Calls |-> g[call]]

(* Chains of profiles end, so that there is an answer to every call: at the  *)
(* latest in a profile that was seen before.                                 *)
LEMMA ChainsEnd ==
  ASSUME config \in Sandboxes!Config
  PROVE  Solves(Sandboxes!Resolved)
<1> DEFINE Answers(g, n) == \A call \in Calls : Left(call) <= n => g[call] = Normalized(g, call)
           Depths == {n \in Nat : \E g : Fcn(g) /\ Answers(g, n)}
<1>1. 0 \in Depths
  <2> DEFINE g == [call \in Calls |-> Sandboxes!Absent]
  <2>1. Answers(g, 0)
    BY LeftIsLess DEF Normalized
  <2>2. Fcn(g)
    BY DEF Fcn
  <2> HIDE DEF g, Answers
  <2>3. QED
    BY <2>1, <2>2
<1>2. ASSUME NEW n \in Depths PROVE n + 1 \in Depths
  <2>1. PICK g : Fcn(g) /\ Answers(g, n)
    BY <1>2
  <2> DEFINE h == [call \in Calls |-> Normalized(g, call)]
  <2>2. ASSUME NEW call \in Calls, Left(call) <= n + 1 PROVE h[call] = Normalized(h, call)
    <3>1. CASE call[1] \in call[2]
      BY <3>1 DEF Normalized
    <3>2. CASE call[1] \notin call[2]
      <4>1. Base(h, call) = Base(g, call)
        <5>1. CASE config.profiles[call[1]].base = Sandboxes!Unset
          BY <5>1 DEF Base
        <5>2. CASE config.profiles[call[1]].base # Sandboxes!Unset
          <6> DEFINE sub == <<config.profiles[call[1]].base, call[2] \cup {call[1]}>>
          <6>1. config.profiles[call[1]].base \in Profiles
            BY <5>2 DEF Sandboxes!Config, Sandboxes!Profile, Calls
          <6>2. sub \in Calls /\ Left(sub) = Left(call) - 1
            BY <3>2, <6>1, LeftIsLess
          <6>3. Left(sub) <= n
            BY <2>2, <6>2, LeftIsLess
          <6>4. g[sub] = Normalized(g, sub)
            BY <2>1, <6>2, <6>3
          <6>5. h[sub] = Normalized(g, sub)
            BY <6>2
          <6>6. QED
            BY <5>2, <6>4, <6>5 DEF Base
        <5>3. QED
          BY <5>1, <5>2
      <4>2. Normalized(h, call) = Normalized(g, call)
        BY <4>1 DEF Normalized
      <4>3. QED
        BY <4>2
    <3>3. QED
      BY <3>1, <3>2
  <2>3. Fcn(h) /\ Answers(h, n + 1)
    BY <2>2 DEF Fcn
  <2> HIDE DEF h, Answers
  <2>4. QED
    BY <2>3
<1>3. Depths = Nat
  <2> HIDE DEF Answers
  <2>1. Depths \in SUBSET Nat
    OBVIOUS
  <2> HIDE DEF Depths
  <2>2. QED
    BY <1>1, <1>2, <2>1, SetOfAllNumbers
<1>4. Cardinality(Profiles) \in Nat
  BY PartsAssumption, FS_CardinalityType DEF SandboxConstants
<1>5. PICK g : Fcn(g) /\ Answers(g, Cardinality(Profiles))
  <2> HIDE DEF Answers
  <2>1. QED
    BY <1>3, <1>4
<1>6. \A call \in Calls : Left(call) <= Cardinality(Profiles)
  BY PartsAssumption, FS_Subset DEF SandboxConstants, Left, Calls
<1>7. Solves(g)
  <2>1. \A call \in Calls : g[call] = Normalized(g, call)
    BY <1>5, <1>6
  <2>2. QED
    BY <1>5, <2>1 DEF Solves, Fcn
<1>8. Sandboxes!Resolved = CHOOSE r : Solves(r)
  BY DEF Sandboxes!Resolved, Solves, Normalized, Base, Calls
<1>9. QED
  BY <1>7, <1>8

(* What normalizeSandbox returns: mounts and an agent directory, or an error *)
(* for a chain that comes back to itself.                                    *)
Answer == [mounts : Sandboxes!Mounts, agentDir : {"volume", "host"}]

LEMMA ResolvedTypes ==
  ASSUME config \in Sandboxes!Config
  PROVE  \A call \in Calls : Sandboxes!Resolved[call] \in {Sandboxes!Absent} \cup Answer
<1> DEFINE r == Sandboxes!Resolved
           Typed(call) == r[call] \in {Sandboxes!Absent} \cup Answer
           Depths == {n \in Nat : \A call \in Calls : Left(call) <= n => Typed(call)}
<1>1. \A call \in Calls : r[call] = Normalized(r, call)
  <2>1. Solves(r)
    BY ChainsEnd
  <2> HIDE DEF r
  <2>2. QED
    BY <2>1 DEF Solves
<1> HIDE DEF r
<1>2. ASSUME NEW call \in Calls, call[1] \in call[2] PROVE Typed(call)
  BY <1>1, <1>2 DEF Normalized
<1>3. 0 \in Depths
  <2>1. \A call \in Calls : Left(call) <= 0 => Typed(call)
    BY <1>2, LeftIsLess
  <2> HIDE DEF Typed
  <2>2. QED
    BY <2>1
<1>4. ASSUME NEW n \in Depths PROVE n + 1 \in Depths
  <2>1. ASSUME NEW call \in Calls, Left(call) <= n + 1, call[1] \notin call[2] PROVE Typed(call)
    <3> DEFINE own == config.profiles[call[1]]
               base == Base(r, call)
    <3>1. own \in Sandboxes!Profile
      BY DEF Sandboxes!Config, Calls
    <3>2. base \in {Sandboxes!Absent} \cup Answer
      <4>1. CASE own.base = Sandboxes!Unset
        BY <4>1, NoMountsAreMounts DEF Base, Answer
      <4>2. CASE own.base # Sandboxes!Unset
        <5> DEFINE sub == <<own.base, call[2] \cup {call[1]}>>
        <5>1. own.base \in Profiles
          BY <3>1, <4>2 DEF Sandboxes!Profile
        <5>2. sub \in Calls /\ Left(sub) <= n
          BY <2>1, <5>1, LeftIsLess
        <5>3. Typed(sub)
          BY <1>4, <5>2
        <5>4. base = r[sub]
          BY <4>2 DEF Base
        <5>5. QED
          BY <5>3, <5>4
      <4>3. QED
        BY <4>1, <4>2
    <3>3. r[call] = IF base = Sandboxes!Absent THEN Sandboxes!Absent
                    ELSE [mounts   |-> Sandboxes!Merged(base.mounts, own.mounts),
                          agentDir |-> IF own.agentDir = Sandboxes!Unset
                                       THEN base.agentDir ELSE own.agentDir]
      BY <1>1, <2>1 DEF Normalized
    <3> HIDE DEF own, base
    <3>4. CASE base = Sandboxes!Absent
      BY <3>3, <3>4
    <3>5. CASE base # Sandboxes!Absent
      <4>1. base.mounts \in Sandboxes!Mounts /\ base.agentDir \in {"volume", "host"}
        BY <3>2, <3>5 DEF Answer
      <4>2. Sandboxes!Merged(base.mounts, own.mounts) \in Sandboxes!Mounts
        BY <3>1, <4>1, MergedMounts DEF Sandboxes!Profile
      <4>3. (IF own.agentDir = Sandboxes!Unset THEN base.agentDir ELSE own.agentDir) \in {"volume", "host"}
        BY <3>1, <4>1 DEF Sandboxes!Profile
      <4>4. QED
        BY <3>3, <3>5, <4>2, <4>3 DEF Answer
    <3>6. QED
      BY <3>4, <3>5
  <2>2. \A call \in Calls : Left(call) <= n + 1 => Typed(call)
    BY <1>2, <2>1
  <2> HIDE DEF Typed
  <2>3. QED
    BY <2>2
<1>5. Depths = Nat
  <2>1. Depths \in SUBSET Nat
    OBVIOUS
  <2> HIDE DEF Depths
  <2>2. QED
    BY <1>3, <1>4, <2>1, SetOfAllNumbers
<1>6. ASSUME NEW call \in Calls PROVE Typed(call)
  <2>1. Left(call) \in Nat
    BY LeftIsLess
  <2>2. Left(call) \in Depths
    BY <1>5, <2>1
  <2> HIDE DEF Typed
  <2>3. QED
    BY <2>1, <2>2
<1>7. QED
  BY <1>6 DEF r

(* The sandbox of a run is none, that of the settings' own default, or one   *)
(* of the profiles.                                                          *)
LEMMA LayersTypes ==
  ASSUME config \in Sandboxes!Config, NEW ws
  PROVE  /\ Sandboxes!Picked(ws) \in Profiles \cup {Sandboxes!None, "docker"}
         /\ Sandboxes!OwnMounts(ws) \in Sandboxes!Mounts
<1>1. /\ config.defaults \in Sandboxes!Layer /\ config.preset \in Sandboxes!Layer
      /\ config.project \in Sandboxes!Layer /\ config.flags \in Sandboxes!Layer
  BY DEF Sandboxes!Config
<1>2. Sandboxes!MergedPreset(ws) \in Sandboxes!Layer
  <2>1. Sandboxes!Merged(config.preset.mounts, config.project.mounts) \in Sandboxes!Mounts
    BY <1>1, MergedMounts DEF Sandboxes!Layer
  <2>2. QED
    BY <1>1, <2>1 DEF Sandboxes!MergedPreset, Sandboxes!Layer
<1>3. Sandboxes!OwnMounts(ws) \in Sandboxes!Mounts
  <2>1. Sandboxes!Merged(config.defaults.mounts, Sandboxes!MergedPreset(ws).mounts) \in Sandboxes!Mounts
    BY <1>1, <1>2, MergedMounts DEF Sandboxes!Layer
  <2>2. QED
    BY <1>1, <2>1, MergedMounts DEF Sandboxes!Layer, Sandboxes!OwnMounts
<1>4. \A i \in 1 .. 3 : Sandboxes!Layers(ws)[i] \in Sandboxes!Layer
  BY <1>1, <1>2 DEF Sandboxes!Layers
<1> DEFINE set == {i \in 1 .. 3 : Sandboxes!Layers(ws)[i].sandbox # Sandboxes!Unset}
<1>5. CASE set # {}
  <2>1. \E i \in set : \A k \in set : k <= i
    <3>1. \/ 3 \in set
          \/ 3 \notin set /\ 2 \in set
          \/ 3 \notin set /\ 2 \notin set /\ 1 \in set
      BY <1>5
    <3>2. set \subseteq 1 .. 3
      OBVIOUS
    <3> HIDE DEF set
    <3>3. QED
      BY <3>1, <3>2
  <2> DEFINE top == CHOOSE i \in set : \A k \in set : k <= i
  <2>2. top \in set
    <3> HIDE DEF set
    <3>1. QED
      BY <2>1
  <2>3. Sandboxes!Picked(ws) = Sandboxes!Layers(ws)[top].sandbox
    BY <1>5 DEF Sandboxes!Picked
  <2> HIDE DEF top
  <2>4. Sandboxes!Layers(ws)[top].sandbox \in Profiles \cup {Sandboxes!None, "docker"}
    BY <1>4, <2>2 DEF Sandboxes!Layer
  <2>5. QED
    BY <1>3, <2>3, <2>4
<1>6. CASE set = {}
  BY <1>3, <1>6 DEF Sandboxes!Picked
<1>7. QED
  BY <1>5, <1>6

LEMMA PlannedTypes ==
  ASSUME config \in Sandboxes!Config, NEW ws,
         Sandboxes!Picked(ws) # Sandboxes!None, Sandboxes!Sandbox(ws) # Sandboxes!Absent
  PROVE  Sandboxes!Planned(ws) \in Sandboxes!Mounts
<1>1. Sandboxes!Sandbox(ws) \in Answer
  <2>1. CASE Sandboxes!Picked(ws) = "docker"
    BY <2>1, NoMountsAreMounts DEF Sandboxes!Sandbox, Answer
  <2>2. CASE Sandboxes!Picked(ws) # "docker"
    <3>1. <<Sandboxes!Picked(ws), {}>> \in Calls
      BY <2>2, LayersTypes DEF Calls
    <3>2. QED
      BY <2>2, <3>1, ResolvedTypes DEF Sandboxes!Sandbox
  <2>3. QED
    BY <2>1, <2>2
<1>2. QED
  BY <1>1, LayersTypes, MergedMounts DEF Answer, Sandboxes!Planned

(* The volumes a container is started with, by where each comes from: the    *)
(* agent directory, a mount of the plan, the .gitconfig of the git proxy.    *)
LEMMA VolumesAre ==
  ASSUME NEW j \in Boxed, NEW ws, NEW v \in Sandboxes!Volumes(j, ws)
  PROVE  \/ /\ v.target = Sandboxes!Agent
            /\ v.source \in {<<"host">>, IF Sandboxes!Isolates(ws) THEN <<"agent", ws>> ELSE <<"agent">>}
         \/ \E t \in DOMAIN Sandboxes!Planned(ws) :
              /\ v.target = t /\ v.ro = Sandboxes!Planned(ws)[t].ro
              /\ v.source = IF Sandboxes!Separated(ws, Sandboxes!Planned(ws)[t]) THEN << j >>
                            ELSE <<Sandboxes!Planned(ws)[t].source, t>>
         \/ v.target = Gitconfig /\ v.ro = TRUE /\ v.source = <<"proxy", j>>
BY DEF Sandboxes!Volumes, Sandboxes!PerRun

(* What a source is known by in another run.                                 *)
Foreign == {"path", "host", "missing"}

LEMMA SourcesAre ==
  ASSUME NEW k \in Boxed, NEW ws, NEW x, Sandboxes!Planned(ws) \in Sandboxes!Mounts,
         NEW v \in Sandboxes!Volumes(k, ws), v.source = x, x[1] \notin Foreign
  PROVE  \/ x = IF Sandboxes!Isolates(ws) THEN <<"agent", ws>> ELSE <<"agent">>
         \/ x = << k >>
         \/ \E t \in Sandboxes!Targets : x = <<"volume", t>>
         \/ x = <<"proxy", k>>
<1>1. CASE v.source = <<"host">>
  BY <1>1 DEF Foreign
<1>2. ASSUME NEW t \in DOMAIN Sandboxes!Planned(ws), x = <<Sandboxes!Planned(ws)[t].source, t>>
      PROVE  t \in Sandboxes!Targets /\ x = <<"volume", t>>
  <2>1. PICK S \in SUBSET Sandboxes!Targets : Sandboxes!Planned(ws) \in [S -> Sandboxes!Mount]
    BY DEF Sandboxes!Mounts
  <2>2. t \in Sandboxes!Targets /\ Sandboxes!Planned(ws)[t].source \in {"volume", "path", "missing"}
    BY <2>1 DEF Sandboxes!Mount
  <2>3. x[1] = Sandboxes!Planned(ws)[t].source
    BY <1>2
  <2>4. QED
    BY <1>2, <2>2, <2>3 DEF Foreign
<1>3. QED
  BY <1>1, <1>2, VolumesAre

(* What a run can write to and no one vouches for is its own, and bears the  *)
(* name of its workspace.                                                    *)
LEMMA WritableAre ==
  ASSUME NEW j \in Boxed, NEW ws, Sandboxes!Planned(ws) \in Sandboxes!Mounts, Sandboxes!Isolates(ws),
         NEW v \in Sandboxes!Volumes(j, ws), ~v.ro, v.source[1] \notin Foreign
  PROVE  v.source = <<"agent", ws>> \/ v.source = << j >>
<1>1. CASE v.target = Sandboxes!Agent /\ v.source \in {<<"host">>, <<"agent", ws>>}
  BY <1>1 DEF Foreign
<1>2. ASSUME NEW t \in DOMAIN Sandboxes!Planned(ws), v.ro = Sandboxes!Planned(ws)[t].ro,
             v.source = <<Sandboxes!Planned(ws)[t].source, t>>,
             ~Sandboxes!Separated(ws, Sandboxes!Planned(ws)[t])
      PROVE  FALSE
  <2>1. PICK S \in SUBSET Sandboxes!Targets : Sandboxes!Planned(ws) \in [S -> Sandboxes!Mount]
    BY DEF Sandboxes!Mounts
  <2>2. Sandboxes!Planned(ws)[t].source \in {"volume", "path", "missing"}
    BY <2>1 DEF Sandboxes!Mount
  <2>3. Sandboxes!Planned(ws)[t].source # "volume"
    BY <1>2 DEF Sandboxes!Separated, Sandboxes!Replaceable
  <2>4. v.source[1] = Sandboxes!Planned(ws)[t].source
    BY <1>2
  <2>5. QED
    BY <2>2, <2>3, <2>4 DEF Foreign
<1>3. QED
  BY <1>1, <1>2, VolumesAre

(* Names of volumes that differ.                                             *)
LEMMA NamesDiffer ==
  ASSUME NEW j \in Boxed, NEW k \in Boxed, j # k, NEW x
  PROVE  /\ << j >> # << k >> /\ <<"proxy", j>> # <<"proxy", k>>
         /\ \A t : << j >> # <<t, x>> /\ <<"proxy", j>> # <<"volume", t>> /\ <<"proxy", j>> # <<"agent", t>>
         /\ << j >> # <<"agent">> /\ <<"proxy", j>> # << k >> /\ <<"proxy", j>> # <<"agent">>
         /\ \A w : w # x => <<"agent", x>> # <<"agent", w>>
         /\ \A t : <<"agent", x>> # <<t>> /\ <<"agent", x>> # <<"volume", t>> /\ <<"agent", x>> # <<"proxy", t>>
BY PartsAssumption DEF SandboxConstants

(* The settings of a workspace pass the refusals, and what each job was      *)
(* started with comes of such settings.                                      *)
Admitted(ws) ==
  /\ Sandboxes!Picked(ws) # Sandboxes!None
  /\ Sandboxes!Sandbox(ws) # Sandboxes!Absent
  /\ ~Sandboxes!Gap(Sandboxes!Planned(ws))
  /\ \A t \in DOMAIN Sandboxes!Planned(ws) :
       Sandboxes!Planned(ws)[t].isolate =>
         Sandboxes!Replaceable(Sandboxes!Planned(ws)[t]) \/ (config.git /\ t = Gitconfig)

Launched(j) ==
  \E ws \in Workspaces, up \in BOOLEAN :
    /\ containers[j] = [at |-> ws, up |-> up, volumes |-> Sandboxes!Volumes(j, ws)]
    /\ Admitted(ws)

SandboxInv ==
  /\ config \in Sandboxes!Config
  /\ containers = [j \in Boxed |-> containers[j]]
  /\ \A j \in Boxed : containers[j] = Sandboxes!Absent \/ Launched(j)

LEMMA SandboxInvariant == Spec => []SandboxInv
<1>1. Sandboxes!Init => SandboxInv
  BY PartsAssumption DEF Sandboxes!Init, SandboxInv, SandboxConstants
<1>2. SandboxInv /\ [Sandboxes!Next]_(Sandboxes!vars) => SandboxInv'
  <2> SUFFICES ASSUME SandboxInv, [Sandboxes!Next]_(Sandboxes!vars) PROVE SandboxInv'
    OBVIOUS
  <2>1. config' = config
    BY DEF Sandboxes!Next, Sandboxes!Launch, Sandboxes!Ends, Sandboxes!vars
  <2>2. \A ws : Admitted(ws)' <=> Admitted(ws)
    BY <2>1 DEF Admitted, Sandboxes!Planned, Sandboxes!Sandbox, Sandboxes!OwnMounts,
                Sandboxes!MergedPreset, Sandboxes!Picked, Sandboxes!Layers, Sandboxes!Resolved,
                Sandboxes!Gap
  <2>3. \A j, ws : Sandboxes!Volumes(j, ws)' = Sandboxes!Volumes(j, ws)
    BY <2>1 DEF Sandboxes!Volumes, Sandboxes!Planned, Sandboxes!Sandbox, Sandboxes!OwnMounts,
                Sandboxes!MergedPreset, Sandboxes!Picked, Sandboxes!Layers, Sandboxes!Resolved
  <2>4. ASSUME NEW j \in Boxed, containers'[j] = containers[j]
        PROVE  containers'[j] = Sandboxes!Absent \/ Launched(j)'
    BY <2>1, <2>2, <2>3, <2>4 DEF SandboxInv, Launched
  <2>5. ASSUME NEW j \in Boxed, Sandboxes!Launch(j) PROVE SandboxInv'
    <3>1. PICK ws \in Workspaces :
            /\ Admitted(ws)
            /\ containers' = [containers EXCEPT ![j] =
                 [at |-> ws, up |-> TRUE, volumes |-> Sandboxes!Volumes(j, ws)]]
      BY <2>5 DEF Sandboxes!Launch, Admitted
    <3>3. containers'[j] = [at |-> ws, up |-> TRUE, volumes |-> Sandboxes!Volumes(j, ws)]
      BY <3>1 DEF SandboxInv
    <3>4. Launched(j)'
      BY <2>2, <2>3, <3>1, <3>3 DEF Launched
    <3>5. \A i \in Boxed \ {j} : containers'[i] = containers[i]
      BY <3>1 DEF SandboxInv
    <3>6. containers' = [i \in Boxed |-> containers'[i]]
      BY <3>1 DEF SandboxInv
    <3>7. QED
      BY <2>1, <2>4, <3>4, <3>5, <3>6 DEF SandboxInv
  <2>6. ASSUME NEW j \in Boxed, Sandboxes!Ends(j) PROVE SandboxInv'
    <3>1. containers' = [containers EXCEPT ![j].up = FALSE] /\ containers[j] # Sandboxes!Absent
      BY <2>6 DEF Sandboxes!Ends
    <3>2. PICK ws \in Workspaces, up \in BOOLEAN :
            /\ containers[j] = [at |-> ws, up |-> up, volumes |-> Sandboxes!Volumes(j, ws)]
            /\ Admitted(ws)
      BY <3>1 DEF SandboxInv, Launched
    <3>3. containers'[j] = [at |-> ws, up |-> FALSE, volumes |-> Sandboxes!Volumes(j, ws)]
      <4> DEFINE volumes == Sandboxes!Volumes(j, ws)
                 down    == FALSE
      <4>1. containers[j] = [at |-> ws, up |-> up, volumes |-> volumes]
        BY <3>2
      <4> HIDE DEF volumes
      <4>2. containers'[j] = [containers[j] EXCEPT !.up = down]
        BY <3>1 DEF SandboxInv
      <4> HIDE DEF down
      <4>3. containers'[j] = [at |-> ws, up |-> down, volumes |-> volumes]
        BY <4>1, <4>2
      <4>4. QED
        BY <4>3 DEF volumes, down
    <3>4. Launched(j)'
      BY <2>2, <2>3, <3>2, <3>3 DEF Launched
    <3>5. \A i \in Boxed \ {j} : containers'[i] = containers[i]
      BY <3>1 DEF SandboxInv
    <3>6. containers' = [i \in Boxed |-> containers'[i]]
      BY <3>1 DEF SandboxInv
    <3>7. QED
      BY <2>1, <2>4, <3>4, <3>5, <3>6 DEF SandboxInv
  <2>7. CASE UNCHANGED Sandboxes!vars
    <3>1. containers' = containers
      BY <2>7 DEF Sandboxes!vars
    <3>2. QED
      BY <2>1, <2>4, <3>1 DEF SandboxInv
  <2>8. QED
    BY <2>5, <2>6, <2>7 DEF Sandboxes!Next
<1>3. QED
  BY <1>1, <1>2, SandboxPart, PTL DEF Sandboxes!Spec

LEMMA AdmittedTypes ==
  \A ws : SandboxInv /\ Admitted(ws) => Sandboxes!Planned(ws) \in Sandboxes!Mounts
BY PlannedTypes DEF SandboxInv, Admitted

(* What a run in a workspace the user does not vouch for could write, and    *)
(* what is marked ":isolate", no other run is given, for every configuration *)
(* and every chain of profiles.                                              *)
THEOREM NothingIsShared == Spec => []StateStaysApart
<1>1. ASSUME SandboxInv, NEW j \in Sandboxes!Started, NEW k \in Sandboxes!Started, j # k
      PROVE  /\ containers[j].at \notin Trusted /\ containers[k].at # containers[j].at
                  => Sandboxes!WritableOf(j) \cap Sandboxes!SourcesOf(k) = {}
             /\ \A v \in containers[j].volumes :
                  v.target \in Sandboxes!Targets /\ v.target \in DOMAIN Sandboxes!Planned(containers[j].at)
                    /\ Sandboxes!Planned(containers[j].at)[v.target].isolate
                    => v.source \notin Sandboxes!SourcesOf(k)
  <2>1. j \in Boxed /\ k \in Boxed /\ Launched(j) /\ Launched(k)
    BY <1>1 DEF Sandboxes!Started, SandboxInv
  <2>2. PICK here \in Workspaces :
          /\ containers[j].at = here /\ containers[j].volumes = Sandboxes!Volumes(j, here)
          /\ Admitted(here) /\ Sandboxes!Planned(here) \in Sandboxes!Mounts
    BY <1>1, <2>1, AdmittedTypes DEF Launched
  <2>3. PICK there \in Workspaces :
          /\ containers[k].at = there /\ containers[k].volumes = Sandboxes!Volumes(k, there)
          /\ Sandboxes!Planned(there) \in Sandboxes!Mounts
    BY <1>1, <2>1, AdmittedTypes DEF Launched
  <2>4. ASSUME NEW x \in Sandboxes!SourcesOf(k)
        PROVE  \/ x = IF Sandboxes!Isolates(there) THEN <<"agent", there>> ELSE <<"agent">>
               \/ x = << k >>
               \/ \E t \in Sandboxes!Targets : x = <<"volume", t>>
               \/ x = <<"proxy", k>>
    <3>1. PICK v \in Sandboxes!Volumes(k, there) : v.source = x /\ x[1] \notin Foreign
      BY <2>3 DEF Sandboxes!SourcesOf, Foreign
    <3>2. QED
      BY <2>1, <2>3, <3>1, SourcesAre
  <2>5. ASSUME here \notin Trusted, there # here,
               NEW x \in Sandboxes!WritableOf(j) \cap Sandboxes!SourcesOf(k)
        PROVE  FALSE
    <3>1. PICK v \in Sandboxes!Volumes(j, here) : v.source = x /\ ~v.ro /\ x[1] \notin Foreign
      BY <2>2 DEF Sandboxes!WritableOf, Foreign
    <3>2. x = <<"agent", here>> \/ x = << j >>
      BY <2>1, <2>2, <2>5, <3>1, WritableAre DEF Sandboxes!Isolates
    <3>3. QED
      BY <1>1, <2>1, <2>4, <2>5, <3>2, NamesDiffer
  <2>6. ASSUME NEW v \in Sandboxes!Volumes(j, here), v.target \in Sandboxes!Targets,
               v.target \in DOMAIN Sandboxes!Planned(here),
               Sandboxes!Planned(here)[v.target].isolate, v.source \in Sandboxes!SourcesOf(k)
        PROVE  FALSE
    <3>1. v.target # Sandboxes!Agent
      BY <2>6, PartsAssumption DEF SandboxConstants
    <3>2. v.source = << j >> \/ v.source = <<"proxy", j>>
      BY <2>1, <2>6, <3>1, VolumesAre DEF Sandboxes!Separated
    <3>3. QED
      BY <1>1, <2>1, <2>4, <2>6, <3>2, NamesDiffer
  <2>7. QED
    BY <2>2, <2>3, <2>5, <2>6
<1>2. SandboxInv => StateStaysApart
  BY <1>1 DEF StateStaysApart, Sandboxes!StateStaysApart
<1>3. QED
  BY <1>2, SandboxInvariant, PTL
-----------------------------------------------------------------------------
(* A chain of layers, the nearest first, and what it says: a path is mounted *)
(* that any of them mounts, as the nearest of those says.                    *)
Says(mounts, chain) ==
  /\ mounts \in Sandboxes!Mounts /\ chain \in Seq(Sandboxes!Mounts)
  /\ \A t : t \in DOMAIN mounts <=> \E i \in 1 .. Len(chain) : t \in DOMAIN chain[i]
  /\ \A t : \A i \in 1 .. Len(chain) :
       t \in DOMAIN chain[i] /\ (\A k \in 1 .. i - 1 : t \notin DOMAIN chain[k]) =>
         mounts[t] = chain[i][t]

LEMMA NoLayer == Says(Sandboxes!NoMounts, <<>>)
<1>1. Len(<<>>) = 0 /\ <<>> \in Seq(Sandboxes!Mounts)
  BY EmptySeq
<1>2. 1 .. Len(<<>>) = {}
  BY <1>1
<1>3. DOMAIN Sandboxes!NoMounts = {}
  BY DEF Sandboxes!NoMounts
<1>4. QED
  BY <1>1, <1>2, <1>3, NoMountsAreMounts DEF Says

LEMMA OneNearer ==
  ASSUME NEW mounts, NEW chain, Says(mounts, chain), NEW own \in Sandboxes!Mounts
  PROVE  Says(Sandboxes!Merged(mounts, own), << own >> \o chain)
<1> DEFINE all  == Sandboxes!Merged(mounts, own)
           more == << own >> \o chain
<1>1. /\ DOMAIN all = DOMAIN mounts \cup DOMAIN own
      /\ \A t \in DOMAIN own : all[t] = own[t]
      /\ \A t \in DOMAIN mounts \ DOMAIN own : all[t] = mounts[t]
  BY DEF Sandboxes!Merged, Sandboxes!Over
<1>2. all \in Sandboxes!Mounts
  BY MergedMounts DEF Says
<1>3. /\ more \in Seq(Sandboxes!Mounts) /\ Len(more) = Len(chain) + 1 /\ Len(chain) \in Nat
      /\ more[1] = own
      /\ \A i \in 1 .. Len(chain) : more[i + 1] = chain[i]
  <2>1. chain \in Seq(Sandboxes!Mounts) /\ << own >> \in Seq(Sandboxes!Mounts)
        /\ Len(<< own >>) = 1 /\ << own >>[1] = own /\ Len(chain) \in Nat
    BY DEF Says
  <2>2. more \in Seq(Sandboxes!Mounts) /\ Len(more) = 1 + Len(chain)
        /\ \A i \in 1 .. Len(more) : more[i] = IF i <= 1 THEN << own >>[i] ELSE chain[i - 1]
    BY <2>1, ConcatProperties
  <2> HIDE DEF more
  <2>3. QED
    BY <2>1, <2>2
<1> HIDE DEF all, more
<1>4. ASSUME NEW t
      PROVE  t \in DOMAIN all <=> \E i \in 1 .. Len(more) : t \in DOMAIN more[i]
  <2>1. CASE t \in DOMAIN own
    BY <1>1, <1>3, <2>1
  <2>2. ASSUME t \notin DOMAIN own, NEW i \in 1 .. Len(chain), t \in DOMAIN chain[i]
        PROVE  \E n \in 1 .. Len(more) : t \in DOMAIN more[n]
    <3>1. i + 1 \in 1 .. Len(more)
      BY <1>3
    <3>2. more[i + 1] = chain[i]
      BY <1>3
    <3>3. QED
      BY <2>2, <3>1, <3>2
  <2>3. ASSUME t \notin DOMAIN own, NEW n \in 1 .. Len(more), t \in DOMAIN more[n]
        PROVE  \E i \in 1 .. Len(chain) : t \in DOMAIN chain[i]
    <3>1. n # 1
      BY <1>3, <2>3
    <3>2. PICK i \in 1 .. Len(chain) : n = i + 1
      <4>1. n - 1 \in 1 .. Len(chain) /\ n = (n - 1) + 1
        BY <1>3, <3>1
      <4>2. QED
        BY <4>1
    <3>3. QED
      BY <1>3, <2>3, <3>2
  <2>4. QED
    BY <1>1, <2>1, <2>2, <2>3 DEF Says
<1>5. ASSUME NEW t, NEW n \in 1 .. Len(more), t \in DOMAIN more[n],
             \A k \in 1 .. n - 1 : t \notin DOMAIN more[k]
      PROVE  all[t] = more[n][t]
  <2>1. CASE n = 1
    BY <1>1, <1>3, <1>5, <2>1
  <2>2. CASE n # 1
    <3>1. PICK i \in 1 .. Len(chain) : n = i + 1
      <4>1. n - 1 \in 1 .. Len(chain) /\ n = (n - 1) + 1
        BY <1>3, <2>2
      <4>2. QED
        BY <4>1
    <3>2. more[n] = chain[i]
      BY <1>3, <3>1
    <3>3. t \notin DOMAIN own
      <4>1. 1 \in 1 .. n - 1
        BY <1>3, <3>1
      <4>2. QED
        BY <1>3, <1>5, <4>1
    <3>4. ASSUME NEW k \in 1 .. i - 1 PROVE t \notin DOMAIN chain[k]
      <4>1. k + 1 \in 1 .. n - 1 /\ k \in 1 .. Len(chain)
        BY <1>3, <3>1
      <4>2. QED
        BY <1>3, <1>5, <4>1
    <3>5. mounts[t] = chain[i][t] /\ t \in DOMAIN mounts
      BY <1>5, <3>2, <3>4 DEF Says
    <3>6. QED
      BY <1>1, <3>2, <3>3, <3>5
  <2>3. QED
    BY <2>1, <2>2
<1>6. QED
  BY <1>2, <1>3, <1>4, <1>5 DEF Says, all, more

(* Laying over is associative.                                               *)
LEMMA MergedAgain ==
  ASSUME NEW a1, NEW b1, NEW c1
  PROVE  Sandboxes!Merged(a1, Sandboxes!Merged(b1, c1)) = Sandboxes!Merged(Sandboxes!Merged(a1, b1), c1)
BY DEF Sandboxes!Merged, Sandboxes!Over

(* The layers a profile consists of, given those of the others.              *)
LinedUp(g, call) ==
  IF call[1] \in call[2] THEN <<>>
  ELSE << config.profiles[call[1]].mounts >> \o
         (IF config.profiles[call[1]].base = Sandboxes!Unset THEN <<>>
          ELSE g[<<config.profiles[call[1]].base, call[2] \cup {call[1]}>>])

LinesUp(g) == g = [call \in Calls |-> LinedUp(g, call)]

LEMMA ChainsAreThere ==
  ASSUME config \in Sandboxes!Config
  PROVE  LinesUp(Sandboxes!Chain)
<1> DEFINE Does(g, n) == \A call \in Calls : Left(call) <= n => g[call] = LinedUp(g, call)
           Depths == {n \in Nat : \E g : Fcn(g) /\ Does(g, n)}
<1>1. 0 \in Depths
  <2> DEFINE g == [call \in Calls |-> <<>>]
  <2>1. Does(g, 0)
    BY LeftIsLess DEF LinedUp
  <2>2. Fcn(g)
    BY DEF Fcn
  <2> HIDE DEF g, Does
  <2>3. QED
    BY <2>1, <2>2
<1>2. ASSUME NEW n \in Depths PROVE n + 1 \in Depths
  <2>1. PICK g : Fcn(g) /\ Does(g, n)
    BY <1>2
  <2> DEFINE h == [call \in Calls |-> LinedUp(g, call)]
  <2>2. ASSUME NEW call \in Calls, Left(call) <= n + 1 PROVE h[call] = LinedUp(h, call)
    <3>1. CASE call[1] \in call[2] \/ config.profiles[call[1]].base = Sandboxes!Unset
      BY <3>1 DEF LinedUp
    <3>2. CASE call[1] \notin call[2] /\ config.profiles[call[1]].base # Sandboxes!Unset
      <4> DEFINE sub == <<config.profiles[call[1]].base, call[2] \cup {call[1]}>>
      <4>1. config.profiles[call[1]].base \in Profiles
        BY <3>2 DEF Sandboxes!Config, Sandboxes!Profile, Calls
      <4>2. sub \in Calls /\ Left(sub) = Left(call) - 1
        BY <3>2, <4>1, LeftIsLess
      <4>3. Left(sub) <= n
        BY <2>2, <4>2, LeftIsLess
      <4>4. g[sub] = LinedUp(g, sub)
        BY <2>1, <4>2, <4>3
      <4>5. h[sub] = LinedUp(g, sub)
        BY <4>2
      <4>6. h[sub] = g[sub]
        BY <4>4, <4>5
      <4>7. h[call] = LinedUp(g, call)
        OBVIOUS
      <4> HIDE DEF h
      <4>8. LinedUp(h, call) = LinedUp(g, call)
        BY <4>6 DEF LinedUp
      <4>9. QED
        BY <4>7, <4>8
    <3>3. QED
      BY <3>1, <3>2
  <2>3. Fcn(h) /\ Does(h, n + 1)
    BY <2>2 DEF Fcn
  <2> HIDE DEF h, Does
  <2>4. QED
    BY <2>3
<1>3. Depths = Nat
  <2> HIDE DEF Does
  <2>1. Depths \in SUBSET Nat
    OBVIOUS
  <2> HIDE DEF Depths
  <2>2. QED
    BY <1>1, <1>2, <2>1, SetOfAllNumbers
<1>4. Cardinality(Profiles) \in Nat
  BY PartsAssumption, FS_CardinalityType DEF SandboxConstants
<1>5. PICK g : Fcn(g) /\ Does(g, Cardinality(Profiles))
  <2> HIDE DEF Does
  <2>1. QED
    BY <1>3, <1>4
<1>6. \A call \in Calls : Left(call) <= Cardinality(Profiles)
  BY PartsAssumption, FS_Subset DEF SandboxConstants, Left, Calls
<1>7. LinesUp(g)
  <2>1. \A call \in Calls : g[call] = LinedUp(g, call)
    BY <1>5, <1>6
  <2>2. QED
    BY <1>5, <2>1 DEF LinesUp, Fcn
<1>8. Sandboxes!Chain = CHOOSE r : LinesUp(r)
  BY DEF Sandboxes!Chain, LinesUp, LinedUp, Calls
<1>9. QED
  BY <1>7, <1>8

(* What normalizeSandbox returns of a profile says what its chain says.      *)
LEMMA ProfilesSay ==
  ASSUME config \in Sandboxes!Config
  PROVE  \A call \in Calls :
           Sandboxes!Resolved[call] # Sandboxes!Absent =>
             Says(Sandboxes!Resolved[call].mounts, Sandboxes!Chain[call])
<1> DEFINE r == Sandboxes!Resolved
           c == Sandboxes!Chain
           Agree(call) == r[call] # Sandboxes!Absent => Says(r[call].mounts, c[call])
           Depths == {n \in Nat : \A call \in Calls : Left(call) <= n => Agree(call)}
<1>1. \A call \in Calls : r[call] = Normalized(r, call) /\ c[call] = LinedUp(c, call)
  <2>1. Solves(r) /\ LinesUp(c)
    BY ChainsEnd, ChainsAreThere
  <2> HIDE DEF r, c
  <2>2. QED
    BY <2>1 DEF Solves, LinesUp
<1> HIDE DEF r, c
<1>2. ASSUME NEW call \in Calls, call[1] \in call[2] PROVE Agree(call)
  BY <1>1, <1>2 DEF Normalized
<1>3. 0 \in Depths
  <2>1. \A call \in Calls : Left(call) <= 0 => Agree(call)
    BY <1>2, LeftIsLess
  <2> HIDE DEF Agree
  <2>2. QED
    BY <2>1
<1>4. ASSUME NEW n \in Depths PROVE n + 1 \in Depths
  <2>1. ASSUME NEW call \in Calls, Left(call) <= n + 1, call[1] \notin call[2],
               r[call] # Sandboxes!Absent
        PROVE  Says(r[call].mounts, c[call])
    <3> DEFINE own  == config.profiles[call[1]]
               base == Base(r, call)
               rest == IF own.base = Sandboxes!Unset THEN <<>>
                       ELSE c[<<own.base, call[2] \cup {call[1]}>>]
    <3>1. own \in Sandboxes!Profile
      BY DEF Sandboxes!Config, Calls
    <3>2. base # Sandboxes!Absent /\ r[call].mounts = Sandboxes!Merged(base.mounts, own.mounts)
      <4>1. r[call] = Normalized(r, call)
        BY <1>1
      <4>2. base # Sandboxes!Absent
        BY <2>1, <4>1 DEF Normalized
      <4>3. r[call] = [mounts   |-> Sandboxes!Merged(base.mounts, own.mounts),
                       agentDir |-> IF own.agentDir = Sandboxes!Unset
                                    THEN base.agentDir ELSE own.agentDir]
        BY <2>1, <4>1, <4>2 DEF Normalized
      <4>4. QED
        BY <4>2, <4>3
    <3>3. c[call] = << own.mounts >> \o rest
      BY <1>1, <2>1 DEF LinedUp
    <3>4. Says(base.mounts, rest)
      <4>1. CASE own.base = Sandboxes!Unset
        BY <4>1, NoLayer DEF Base
      <4>2. CASE own.base # Sandboxes!Unset
        <5> DEFINE sub == <<own.base, call[2] \cup {call[1]}>>
        <5>1. own.base \in Profiles
          BY <3>1, <4>2 DEF Sandboxes!Profile
        <5>2. sub \in Calls /\ Left(sub) <= n
          BY <2>1, <5>1, LeftIsLess
        <5>3. Agree(sub)
          BY <1>4, <5>2
        <5>4. base = r[sub] /\ rest = c[sub]
          BY <4>2 DEF Base
        <5>5. QED
          BY <3>2, <5>3, <5>4
      <4>3. QED
        BY <4>1, <4>2
    <3>5. own.mounts \in Sandboxes!Mounts
      BY <3>1 DEF Sandboxes!Profile
    <3> HIDE DEF own, base, rest
    <3>6. QED
      BY <3>2, <3>3, <3>4, <3>5, OneNearer
  <2>2. \A call \in Calls : Left(call) <= n + 1 => Agree(call)
    BY <1>2, <2>1
  <2> HIDE DEF Agree
  <2>3. QED
    BY <2>2
<1>5. Depths = Nat
  <2>1. Depths \in SUBSET Nat
    OBVIOUS
  <2> HIDE DEF Depths
  <2>2. QED
    BY <1>3, <1>4, <2>1, SetOfAllNumbers
<1>6. ASSUME NEW call \in Calls PROVE Agree(call)
  <2>1. Left(call) \in Nat
    BY LeftIsLess
  <2>2. Left(call) \in Depths
    BY <1>5, <2>1
  <2> HIDE DEF Agree
  <2>3. QED
    BY <2>1, <2>2
<1>7. QED
  BY <1>6 DEF r, c

(* The mounts of a run say what the layers that could decide say.            *)
LEMMA PlanSays ==
  ASSUME config \in Sandboxes!Config, NEW ws,
         Sandboxes!Picked(ws) # Sandboxes!None, Sandboxes!Sandbox(ws) # Sandboxes!Absent
  PROVE  Says(Sandboxes!Planned(ws), Sandboxes!Nearest(ws))
<1> DEFINE M(a1, b1) == Sandboxes!Merged(a1, b1)
           box  == Sandboxes!Sandbox(ws).mounts
           rest == IF Sandboxes!Picked(ws) = "docker" THEN <<>>
                   ELSE Sandboxes!Chain[<<Sandboxes!Picked(ws), {}>>]
           def  == config.defaults.mounts
           pre  == config.preset.mounts
           pro  == config.project.mounts
           fla  == config.flags.mounts
<1>1. Says(box, rest)
  <2>1. CASE Sandboxes!Picked(ws) = "docker"
    BY <2>1, NoLayer DEF Sandboxes!Sandbox
  <2>2. CASE Sandboxes!Picked(ws) # "docker"
    <3>1. <<Sandboxes!Picked(ws), {}>> \in Calls
      BY <2>2, LayersTypes DEF Calls
    <3>2. QED
      BY <2>2, <3>1, ProfilesSay DEF Sandboxes!Sandbox
  <2>3. QED
    BY <2>1, <2>2
<1>2. {def, pre, pro, fla} \subseteq Sandboxes!Mounts
  BY DEF Sandboxes!Config, Sandboxes!Layer
<1>3. Sandboxes!Planned(ws) = M(box, M(M(def, Sandboxes!MergedPreset(ws).mounts), fla))
  BY DEF Sandboxes!Planned, Sandboxes!OwnMounts
<1>4. Sandboxes!MergedPreset(ws).mounts = IF ws \in Trusted THEN M(pre, pro) ELSE pre
  BY DEF Sandboxes!MergedPreset
<1>5. Sandboxes!Nearest(ws) =
        ((<< fla >> \o (IF ws \in Trusted THEN << pro >> ELSE <<>>)) \o <<pre, def>>) \o rest
  BY DEF Sandboxes!Nearest
<1>6. rest \in Seq(Sandboxes!Mounts)
  BY <1>1 DEF Says
<1> HIDE DEF box, rest, def, pre, pro, fla, M
<1>7. <<pre, def>> \o rest = << pre >> \o (<< def >> \o rest)
  <2>1. <<pre, def>> = << pre >> \o << def >>
    OBVIOUS
  <2>2. << pre >> \in Seq(Sandboxes!Mounts) /\ << def >> \in Seq(Sandboxes!Mounts)
    BY <1>2
  <2>3. (<< pre >> \o << def >>) \o rest = << pre >> \o (<< def >> \o rest)
    BY <1>6, <2>2, ConcatAssociative
  <2>4. QED
    BY <2>1, <2>3, Zenon
<1>8. Says(M(M(box, def), pre), <<pre, def>> \o rest)
  <2>1. Says(M(box, def), << def >> \o rest)
    BY <1>1, <1>2, OneNearer DEF M
  <2>2. Says(M(M(box, def), pre), << pre >> \o (<< def >> \o rest))
    BY <1>2, <2>1, OneNearer DEF M
  <2>3. QED
    BY <1>7, <2>2
<1>9. <<pre, def>> \in Seq(Sandboxes!Mounts) /\ << pro >> \in Seq(Sandboxes!Mounts)
      /\ << fla >> \in Seq(Sandboxes!Mounts) /\ <<>> \in Seq(Sandboxes!Mounts)
      /\ <<pre, def>> \o rest \in Seq(Sandboxes!Mounts)
  BY <1>2, <1>6, ConcatProperties, EmptySeq
<1>10. CASE ws \in Trusted
  <2>1. Sandboxes!Planned(ws) = M(M(M(M(box, def), pre), pro), fla)
    BY <1>3, <1>4, <1>10, MergedAgain DEF M
  <2>2. Sandboxes!Nearest(ws) = << fla >> \o (<< pro >> \o (<<pre, def>> \o rest))
    <3>1. ((<< fla >> \o << pro >>) \o <<pre, def>>) \o rest
            = (<< fla >> \o << pro >>) \o (<<pre, def>> \o rest)
      <4>1. << fla >> \o << pro >> \in Seq(Sandboxes!Mounts)
        BY <1>9, ConcatProperties
      <4>2. QED
        BY <1>6, <1>9, <4>1, ConcatAssociative
    <3>2. (<< fla >> \o << pro >>) \o (<<pre, def>> \o rest)
            = << fla >> \o (<< pro >> \o (<<pre, def>> \o rest))
      BY <1>9, ConcatAssociative
    <3>3. QED
      BY <1>5, <1>10, <3>1, <3>2
  <2>3. Says(M(M(M(box, def), pre), pro), << pro >> \o (<<pre, def>> \o rest))
    BY <1>2, <1>8, OneNearer DEF M
  <2>4. Says(M(M(M(M(box, def), pre), pro), fla), << fla >> \o (<< pro >> \o (<<pre, def>> \o rest)))
    BY <1>2, <2>3, OneNearer DEF M
  <2>5. QED
    BY <2>1, <2>2, <2>4
<1>11. CASE ws \notin Trusted
  <2>1. Sandboxes!Planned(ws) = M(M(M(box, def), pre), fla)
    BY <1>3, <1>4, <1>11, MergedAgain DEF M
  <2>2. Sandboxes!Nearest(ws) = << fla >> \o (<<pre, def>> \o rest)
    <3>1. << fla >> \o <<>> = << fla >>
      BY <1>9, ConcatEmptySeq
    <3>2. (<< fla >> \o <<pre, def>>) \o rest = << fla >> \o (<<pre, def>> \o rest)
      BY <1>6, <1>9, ConcatAssociative
    <3>3. QED
      BY <1>5, <1>11, <3>1, <3>2
  <2>3. QED
    BY <1>2, <1>8, <2>1, <2>2, OneNearer DEF M
<1>12. QED
  BY <1>10, <1>11

(* The volume on a path, and none: that of the git proxy instead of a mount. *)
MountedOn(j, ws, t) ==
  [target |-> t, ro |-> Sandboxes!Planned(ws)[t].ro,
   source |-> IF Sandboxes!Separated(ws, Sandboxes!Planned(ws)[t]) THEN << j >>
              ELSE <<Sandboxes!Planned(ws)[t].source, t>>]

ProxyVolume(j) == [target |-> Gitconfig, ro |-> TRUE, source |-> <<"proxy", j>>]

LEMMA VolumesOn ==
  ASSUME NEW j \in Boxed, NEW ws, NEW t \in Sandboxes!Targets
  PROVE  {v \in Sandboxes!Volumes(j, ws) : v.target = t}
           = IF config.git /\ t = Gitconfig THEN {ProxyVolume(j)}
             ELSE IF t \in DOMAIN Sandboxes!Planned(ws) THEN {MountedOn(j, ws, t)} ELSE {}
<1> DEFINE absent == IF config.git THEN {Gitconfig} ELSE {}
           proxied == IF config.git THEN {ProxyVolume(j)} ELSE {}
           mounted == {MountedOn(j, ws, x) : x \in DOMAIN Sandboxes!Planned(ws) \ absent}
<1>1. PICK agent : /\ agent.target = Sandboxes!Agent
                   /\ Sandboxes!Volumes(j, ws) = ({agent} \cup mounted) \cup proxied
  <2> DEFINE agent == [target |-> Sandboxes!Agent, ro |-> FALSE,
                       source |-> IF Sandboxes!Sandbox(ws).agentDir = "host" THEN <<"host">>
                                  ELSE IF Sandboxes!Isolates(ws) THEN <<"agent", ws>> ELSE <<"agent">>]
  <2>1. Sandboxes!Volumes(j, ws) = ({agent} \cup mounted) \cup proxied
    BY Zenon DEF Sandboxes!Volumes, Sandboxes!PerRun, MountedOn, ProxyVolume
  <2>2. agent.target = Sandboxes!Agent
    OBVIOUS
  <2> HIDE DEF agent, mounted, proxied
  <2>3. QED
    BY <2>1, <2>2
<1>2. agent.target # t
  BY <1>1, PartsAssumption DEF SandboxConstants
<1>3. \A x : MountedOn(j, ws, x).target = x
  BY DEF MountedOn
<1>4. ProxyVolume(j).target = Gitconfig
  BY DEF ProxyVolume
<1>5. {v \in Sandboxes!Volumes(j, ws) : v.target = t}
        = {v \in mounted : v.target = t} \cup {v \in proxied : v.target = t}
  <2> HIDE DEF mounted, proxied
  <2>1. QED
    BY <1>1, <1>2
<1>6. {v \in mounted : v.target = t}
        = IF t \in DOMAIN Sandboxes!Planned(ws) \ absent THEN {MountedOn(j, ws, t)} ELSE {}
  <2> HIDE DEF absent
  <2>1. QED
    BY <1>3
<1>7. {v \in proxied : v.target = t} = IF config.git /\ t = Gitconfig THEN {ProxyVolume(j)} ELSE {}
  BY <1>4
<1>8. QED
  BY <1>5, <1>6, <1>7

(* What is mounted elsewhere is the agent directory, and there is one.       *)
LEMMA OneAgent ==
  ASSUME NEW j \in Boxed, NEW ws, Sandboxes!Planned(ws) \in Sandboxes!Mounts,
         NEW v \in Sandboxes!Volumes(j, ws), v.target \notin Sandboxes!Targets,
         NEW w \in Sandboxes!Volumes(j, ws), w.target \notin Sandboxes!Targets
  PROVE  v = w
<1> DEFINE agent == [target |-> Sandboxes!Agent, ro |-> FALSE,
                     source |-> IF Sandboxes!Sandbox(ws).agentDir = "host" THEN <<"host">>
                                ELSE IF Sandboxes!Isolates(ws) THEN <<"agent", ws>> ELSE <<"agent">>]
           absent == IF config.git THEN {Gitconfig} ELSE {}
           proxied == IF config.git THEN {ProxyVolume(j)} ELSE {}
           mounted == {MountedOn(j, ws, x) : x \in DOMAIN Sandboxes!Planned(ws) \ absent}
<1>1. Sandboxes!Volumes(j, ws) = ({agent} \cup mounted) \cup proxied
  BY Zenon DEF Sandboxes!Volumes, Sandboxes!PerRun, MountedOn, ProxyVolume
<1>2. ASSUME NEW x \in mounted PROVE x.target \in Sandboxes!Targets
  <2>1. PICK S \in SUBSET Sandboxes!Targets : Sandboxes!Planned(ws) \in [S -> Sandboxes!Mount]
    BY DEF Sandboxes!Mounts
  <2>2. \A t : MountedOn(j, ws, t).target = t
    BY DEF MountedOn
  <2>3. QED
    BY <2>1, <2>2
<1>3. \A x \in proxied : x.target \in Sandboxes!Targets
  BY DEF ProxyVolume, Sandboxes!Targets
<1> HIDE DEF agent, mounted, proxied
<1>4. QED
  BY <1>1, <1>2, <1>3

(* Equipment adds up over the layers and the profiles a profile starts from, *)
(* however long the chain is: the container is given what the nearest layer  *)
(* says, from where it says, or an empty volume where it may not be shared;  *)
(* a path is mounted once; and skills stay behind in no other way than in a  *)
(* volume that is replaced (sandboxMountGaps, anonymousVolumeFor).           *)
THEOREM NothingStaysBehind == Spec => []EquipmentAddsUp
<1>1. ASSUME SandboxInv, NEW j \in Sandboxes!Started
      PROVE  LET ws     == containers[j].at
                 chain  == Sandboxes!Nearest(ws)
                 who(t) == {i \in DOMAIN chain : t \in DOMAIN chain[i]}
             IN  /\ \A v, w \in containers[j].volumes : v.target = w.target => v = w
                 /\ \A t \in Sandboxes!Targets \ (IF config.git THEN {Gitconfig} ELSE {}) :
                      /\ who(t) = {} <=> ~\E v \in containers[j].volumes : v.target = t
                      /\ who(t) # {} =>
                           \E v \in containers[j].volumes, i \in who(t) :
                             /\ \A k \in who(t) : i <= k
                             /\ v.target = t /\ v.ro = chain[i][t].ro
                             /\ v.source = IF Sandboxes!ReplacedAt(chain[i][t], ws) THEN << j >>
                                           ELSE <<chain[i][t].source, t>>
                 /\ config.skills =>
                      \/ Sandboxes!Equipped(j)
                      \/ \E i \in who(Equipment) :
                           /\ \A k \in who(Equipment) : i <= k
                           /\ Sandboxes!ReplacedAt(chain[i][Equipment], ws)
  <2>1. j \in Boxed /\ Launched(j)
    BY <1>1 DEF Sandboxes!Started, SandboxInv
  <2>2. PICK ws \in Workspaces :
          /\ containers[j].at = ws /\ containers[j].volumes = Sandboxes!Volumes(j, ws)
          /\ Admitted(ws)
    BY <2>1 DEF Launched
  <2> DEFINE chain  == Sandboxes!Nearest(ws)
             plan   == Sandboxes!Planned(ws)
             who(t) == {i \in DOMAIN chain : t \in DOMAIN chain[i]}
             on(t)  == {v \in Sandboxes!Volumes(j, ws) : v.target = t}
  <2>3. Says(plan, chain)
    BY <1>1, <2>2, PlanSays DEF Admitted, SandboxInv
  <2>4. Len(chain) \in Nat /\ DOMAIN chain = 1 .. Len(chain)
    BY <2>3, LenProperties DEF Says
  <2>5. \A t : t \in DOMAIN plan <=> who(t) # {}
    BY <2>3, <2>4 DEF Says
  <2>6. ASSUME NEW t \in DOMAIN plan
        PROVE  \E i \in who(t) : (\A k \in who(t) : i <= k) /\ plan[t] = chain[i][t]
    <3>1. who(t) \in SUBSET Nat /\ who(t) # {}
      BY <2>4, <2>5
    <3>2. PICK i \in who(t) : \A k \in who(t) : i <= k
      <4> HIDE DEF who
      <4>1. QED
        BY <3>1, LeastNumber
    <3>3. \A k \in 1 .. i - 1 : t \notin DOMAIN chain[k]
      BY <2>4, <3>2
    <3>4. plan[t] = chain[i][t]
      BY <2>3, <2>4, <3>2, <3>3 DEF Says
    <3>5. QED
      BY <3>2, <3>4
  <2>7. ASSUME NEW v \in Sandboxes!Volumes(j, ws), NEW w \in Sandboxes!Volumes(j, ws),
               v.target = w.target
        PROVE  v = w
    <3>1. plan \in Sandboxes!Mounts
      BY <2>3 DEF Says
    <3>2. CASE v.target \in Sandboxes!Targets
      <4>1. on(v.target) = {} \/ \E x : on(v.target) = {x}
        BY <2>1, <3>2, VolumesOn
      <4>2. v \in on(v.target) /\ w \in on(v.target)
        BY <2>7
      <4> HIDE DEF on
      <4>3. QED
        BY <4>1, <4>2
    <3>3. CASE v.target \notin Sandboxes!Targets
      BY <2>1, <2>7, <3>1, <3>3, OneAgent
    <3>4. QED
      BY <3>2, <3>3
  <2>8. ASSUME NEW t \in Sandboxes!Targets, ~(config.git /\ t = Gitconfig)
        PROVE  on(t) = IF t \in DOMAIN plan THEN {MountedOn(j, ws, t)} ELSE {}
    BY <2>1, <2>8, VolumesOn
  <2>9. ASSUME NEW t \in Sandboxes!Targets, ~(config.git /\ t = Gitconfig)
        PROVE  /\ who(t) = {} <=> ~\E v \in Sandboxes!Volumes(j, ws) : v.target = t
               /\ who(t) # {} =>
                    \E v \in Sandboxes!Volumes(j, ws), i \in who(t) :
                      /\ \A k \in who(t) : i <= k
                      /\ v.target = t /\ v.ro = chain[i][t].ro
                      /\ v.source = IF Sandboxes!ReplacedAt(chain[i][t], ws) THEN << j >>
                                    ELSE <<chain[i][t].source, t>>
    <3>1. who(t) = {} <=> on(t) = {}
      <4>1. t \in DOMAIN plan <=> who(t) # {}
        BY <2>5
      <4> HIDE DEF who, on
      <4>2. QED
        BY <2>8, <2>9, <4>1
    <3>2. ASSUME who(t) # {}
          PROVE  \E v \in Sandboxes!Volumes(j, ws), i \in who(t) :
                   /\ \A k \in who(t) : i <= k
                   /\ v.target = t /\ v.ro = chain[i][t].ro
                   /\ v.source = IF Sandboxes!ReplacedAt(chain[i][t], ws) THEN << j >>
                                 ELSE <<chain[i][t].source, t>>
      <4>1. t \in DOMAIN plan
        BY <2>5, <3>2
      <4>2. PICK i \in who(t) : (\A k \in who(t) : i <= k) /\ plan[t] = chain[i][t]
        BY <2>6, <4>1
      <4> DEFINE v == MountedOn(j, ws, t)
      <4>3. v \in Sandboxes!Volumes(j, ws)
        BY <2>8, <2>9, <4>1
      <4>4. /\ v.target = t /\ v.ro = plan[t].ro
            /\ v.source = IF Sandboxes!ReplacedAt(plan[t], ws) THEN << j >> ELSE <<plan[t].source, t>>
        BY DEF MountedOn, Sandboxes!Separated, Sandboxes!Isolates, Sandboxes!Replaceable,
               Sandboxes!ReplacedAt
      <4> HIDE DEF v, plan, chain, who
      <4>5. QED
        BY <4>2, <4>3, <4>4
    <3>3. QED
      BY <3>1, <3>2
  <2>10. ASSUME config.skills
         PROVE  \/ Sandboxes!Equipped(j)
                \/ \E i \in who(Equipment) :
                     /\ \A k \in who(Equipment) : i <= k
                     /\ Sandboxes!ReplacedAt(chain[i][Equipment], ws)
    <3>1. Equipment \in DOMAIN plan /\ plan[Equipment].source # "missing"
      BY <2>2, <2>10 DEF Admitted, Sandboxes!Gap
    <3>2. Equipment \in Sandboxes!Targets /\ ~(config.git /\ Equipment = Gitconfig)
      BY PartsAssumption DEF Sandboxes!Targets, SandboxConstants
    <3>3. plan[Equipment].source \in {"volume", "path"}
      <4>1. plan[Equipment] \in Sandboxes!Mount
        BY <2>3, <3>1 DEF Says, Sandboxes!Mounts
      <4>2. QED
        BY <3>1, <4>1 DEF Sandboxes!Mount
    <3>4. PICK i \in who(Equipment) : (\A k \in who(Equipment) : i <= k) /\ plan[Equipment] = chain[i][Equipment]
      BY <2>6, <3>1
    <3>5. CASE Sandboxes!ReplacedAt(plan[Equipment], ws)
      BY <3>4, <3>5
    <3>6. CASE ~Sandboxes!ReplacedAt(plan[Equipment], ws)
      <4> DEFINE v == MountedOn(j, ws, Equipment)
      <4>1. v \in Sandboxes!Volumes(j, ws)
        BY <2>8, <3>1, <3>2
      <4>2. v.target = Equipment /\ v.source = <<plan[Equipment].source, Equipment>>
        BY <3>6 DEF MountedOn, Sandboxes!Separated, Sandboxes!Isolates, Sandboxes!Replaceable,
                    Sandboxes!ReplacedAt
      <4> HIDE DEF v
      <4>3. Sandboxes!Equipped(j)
        BY <2>2, <3>3, <4>1, <4>2 DEF Sandboxes!Equipped
      <4>4. QED
        BY <4>3
    <3>7. QED
      BY <3>5, <3>6
  <2>11. QED
    BY <2>2, <2>7, <2>9, <2>10
<1>2. SandboxInv => EquipmentAddsUp
  BY <1>1 DEF EquipmentAddsUp, Sandboxes!EquipmentAddsUp
<1>3. QED
  BY <1>2, SandboxInvariant, PTL
-----------------------------------------------------------------------------
(* What else the journal keeps has its type.                                 *)
PrunedInv == requests \subseteq Records!Times /\ prunedAt \in {Records!Never} \cup Records!Times

LEMMA JournalTypes == Spec => []Records!TypeOK
<1>1. Records!Init => PrunedInv
  BY DEF Records!Init, PrunedInv
<1>2. JournalInv /\ PrunedInv /\ [Records!Next]_(Records!vars) => PrunedInv'
  <2> SUFFICES ASSUME JournalInv, PrunedInv, [Records!Next]_(Records!vars) PROVE PrunedInv'
    OBVIOUS
  <2>1. day \in Records!Times
    BY DEF JournalInv
  <2>2. \/ UNCHANGED <<requests, prunedAt>>
        \/ requests' = Records!PrunedRequests /\ prunedAt' = day
        \/ requests' = requests \cup {day} /\ prunedAt' = prunedAt
    BY DEF Records!Next, Records!vars, Records!RecordJob, Records!RecordIsLost,
           Records!PruneIfDue, Records!RecordRequests, Records!Tick
  <2>3. QED
    BY <2>1, <2>2 DEF PrunedInv, Records!PrunedRequests, Records!Times
<1>3. JournalInv /\ PrunedInv => Records!TypeOK
  BY DEF JournalInv, PrunedInv, Records!TypeOK
<1>4. QED
  BY <1>1, <1>2, <1>3, JournalPart, JournalInvariant, PTL DEF Records!Spec

(* What else the recorder keeps, and that its requests are bounded.          *)
SummaryInv ==
  /\ timer \in BOOLEAN /\ closed \in BOOLEAN
  /\ summary \in [failed : Nat, truncated : Nat, lastCut : BOOLEAN, repeatRun : Nat]
  /\ repeatRun \in Nat /\ repeatLastOut \in Lengths \cup {Recorder!Null}
  /\ history \in Seq(Recorder!Request) /\ Len(history) <= MaxRequests

LEMMA NextSeriesTypes ==
  ASSUME SummaryInv, NEW r \in Recorder!Request
  PROVE  /\ Recorder!NextSeries(r).run \in Nat
         /\ Recorder!NextSeries(r).anchor \in Lengths \cup {Recorder!Null}
<1>1. r.failed \in BOOLEAN /\ r.out \in Lengths \cup {Recorder!Unknown}
  BY DEF Recorder!Request
<1>2. Long \in Nat \ {0} /\ Recorder!Unknown = -1 /\ Lengths \subseteq Nat
  BY PartsAssumption DEF RecorderConstants, Recorder!Unknown
<1>3. CASE r.failed
  BY <1>3 DEF Recorder!NextSeries, Recorder!Null
<1>4. CASE ~r.failed /\ r.out >= Long /\ Recorder!Near(r.out, repeatLastOut)
  BY <1>4 DEF Recorder!NextSeries, SummaryInv
<1>5. CASE ~r.failed /\ r.out >= Long /\ ~Recorder!Near(r.out, repeatLastOut)
  BY <1>1, <1>2, <1>5 DEF Recorder!NextSeries
<1>6. CASE ~r.failed /\ ~(r.out >= Long)
  BY <1>6 DEF Recorder!NextSeries, SummaryInv, Recorder!Null
<1>7. QED
  BY <1>1, <1>3, <1>4, <1>5, <1>6

LEMMA RecorderTypes == Spec => []Recorder!TypeOK
<1>1. Recorder!Init => SummaryInv
  <2> SUFFICES ASSUME Recorder!Init PROVE SummaryInv
    OBVIOUS
  <2>1. history \in Seq(Recorder!Request) /\ Len(history) = 0 /\ MaxRequests \in Nat
    BY PartsAssumption, EmptySeq DEF Recorder!Init, RecorderConstants
  <2>2. summary \in [failed : Nat, truncated : Nat, lastCut : BOOLEAN, repeatRun : Nat]
    BY DEF Recorder!Init
  <2>3. timer \in BOOLEAN /\ closed \in BOOLEAN
    BY DEF Recorder!Init
  <2>4. repeatRun \in Nat /\ repeatLastOut = Recorder!Null
    BY DEF Recorder!Init
  <2>5. QED
    BY <2>1, <2>2, <2>3, <2>4 DEF SummaryInv
<1>2. SummaryInv /\ [Recorder!Next]_(Recorder!vars) => SummaryInv'
  <2> SUFFICES ASSUME SummaryInv, [Recorder!Next]_(Recorder!vars) PROVE SummaryInv'
    OBVIOUS
  <2>1. CASE Recorder!Record
    <3>1. PICK r \in Recorder!Request :
            /\ Len(history) < MaxRequests /\ history' = Append(history, r)
            /\ repeatRun' = Recorder!NextSeries(r).run
            /\ repeatLastOut' = Recorder!NextSeries(r).anchor
            /\ summary' = [failed |-> summary.failed + Recorder!One(r.failed),
                           truncated |-> summary.truncated + Recorder!One(r.cut),
                           lastCut |-> r.cut,
                           repeatRun |-> IF Recorder!NextSeries(r).run > summary.repeatRun
                                         THEN Recorder!NextSeries(r).run ELSE summary.repeatRun]
            /\ timer' \in {timer, TRUE} /\ closed' = closed
      BY <2>1 DEF Recorder!Record, Recorder!LastCut
    <3>2. repeatRun' \in Nat /\ repeatLastOut' \in Lengths \cup {Recorder!Null}
      BY <3>1, NextSeriesTypes
    <3>3. r.failed \in BOOLEAN /\ r.cut \in BOOLEAN
      BY DEF Recorder!Request
    <3>4. summary' \in [failed : Nat, truncated : Nat, lastCut : BOOLEAN, repeatRun : Nat]
      <4>1. summary.failed \in Nat /\ summary.truncated \in Nat /\ summary.repeatRun \in Nat
        BY DEF SummaryInv
      <4>2. \A b \in BOOLEAN : Recorder!One(b) \in Nat
        BY DEF Recorder!One
      <4> DEFINE f == summary.failed + Recorder!One(r.failed)
                 t == summary.truncated + Recorder!One(r.cut)
                 n == IF Recorder!NextSeries(r).run > summary.repeatRun
                      THEN Recorder!NextSeries(r).run ELSE summary.repeatRun
      <4>3. f \in Nat /\ t \in Nat
        BY <3>3, <4>1, <4>2
      <4>4. n \in Nat
        BY <3>1, <3>2, <4>1
      <4> HIDE DEF f, t, n
      <4>5. summary' = [failed |-> f, truncated |-> t, lastCut |-> r.cut, repeatRun |-> n]
        BY <3>1 DEF f, t, n
      <4>6. QED
        BY <3>3, <4>3, <4>4, <4>5
    <3>5. history' \in Seq(Recorder!Request) /\ Len(history') <= MaxRequests
      <4>1. MaxRequests \in Nat /\ history \in Seq(Recorder!Request) /\ Len(history) \in Nat
        BY PartsAssumption, LenProperties DEF RecorderConstants, SummaryInv
      <4>2. history' \in Seq(Recorder!Request) /\ Len(history') = Len(history) + 1
        BY <3>1, <4>1
      <4>3. QED
        BY <3>1, <4>1, <4>2
    <3>6. timer' \in BOOLEAN /\ closed' \in BOOLEAN
      BY <3>1 DEF SummaryInv
    <3>7. QED
      BY <3>2, <3>4, <3>5, <3>6 DEF SummaryInv
  <2>2. CASE Recorder!TimerFires \/ Recorder!Close
    <3>1. /\ UNCHANGED <<summary, repeatRun, repeatLastOut, history>>
          /\ timer' = FALSE /\ closed' \in {closed, TRUE}
      BY <2>2 DEF Recorder!TimerFires, Recorder!Close
    <3>2. QED
      BY <3>1 DEF SummaryInv
  <2>3. CASE UNCHANGED Recorder!vars
    BY <2>3 DEF Recorder!vars, SummaryInv
  <2>4. QED
    BY <2>1, <2>2, <2>3 DEF Recorder!Next
<1>3. SummaryInv /\ RowsInv => Recorder!TypeOK
  <2> SUFFICES ASSUME SummaryInv, RowsInv PROVE Recorder!TypeOK
    OBVIOUS
  <2>1. 1 .. Len(history) \subseteq 1 .. MaxRequests
    BY PartsAssumption, LenProperties DEF RecorderConstants, SummaryInv
  <2>2. pending \in Seq(1 .. MaxRequests)
    <3>1. \A S, T : S \subseteq T => \A s \in Seq(S) : s \in Seq(T)
      OBVIOUS
    <3> DEFINE S == 1 .. Len(history)
               T == 1 .. MaxRequests
    <3>2. pending \in Seq(S) /\ S \subseteq T
      BY <2>1 DEF RowsInv
    <3> HIDE DEF S, T
    <3>3. pending \in Seq(T)
      BY <3>1, <3>2
    <3>4. QED
      BY <3>3 DEF T
  <2>3. written \subseteq 1 .. MaxRequests
    BY <2>1 DEF RowsInv
  <2>4. QED
    BY <2>2, <2>3 DEF SummaryInv, Recorder!TypeOK
<1>4. QED
  BY <1>1, <1>2, <1>3, RecorderPart, RowsInvariant, PTL DEF Recorder!Spec

LEMMA SandboxTypes == Spec => []Sandboxes!TypeOK
<1>1. ASSUME SandboxInv, NEW j \in Boxed, containers[j] # Sandboxes!Absent
      PROVE  /\ containers[j].at \in Workspaces /\ containers[j].up \in BOOLEAN
             /\ \A v \in containers[j].volumes : v.target \in Sandboxes!Targets \cup {Sandboxes!Agent}
  <2>1. PICK ws \in Workspaces, up \in BOOLEAN :
          /\ containers[j] = [at |-> ws, up |-> up, volumes |-> Sandboxes!Volumes(j, ws)]
          /\ Admitted(ws)
    BY <1>1 DEF SandboxInv, Launched
  <2>2. Sandboxes!Planned(ws) \in Sandboxes!Mounts
    BY <1>1, <2>1, AdmittedTypes
  <2>3. DOMAIN Sandboxes!Planned(ws) \subseteq Sandboxes!Targets
    BY <2>2 DEF Sandboxes!Mounts
  <2>4. \A v \in Sandboxes!Volumes(j, ws) : v.target \in Sandboxes!Targets \cup {Sandboxes!Agent}
    BY <2>3, VolumesAre DEF Sandboxes!Targets
  <2> DEFINE volumes == Sandboxes!Volumes(j, ws)
  <2>5. containers[j] = [at |-> ws, up |-> up, volumes |-> volumes]
    BY <2>1
  <2> HIDE DEF volumes
  <2>6. containers[j].at = ws /\ containers[j].up = up /\ containers[j].volumes = volumes
    BY <2>5
  <2>7. QED
    BY <2>4, <2>6 DEF volumes
<1>2. SandboxInv => Sandboxes!TypeOK
  BY <1>1 DEF SandboxInv, Sandboxes!TypeOK
<1>3. QED
  BY <1>2, SandboxInvariant, PTL
=============================================================================
