------------------------- MODULE IntegrityLedgerProofs -------------------------
(***************************************************************************)
(* What the ledger of verdicts, reassessments and memories guarantees for  *)
(* any number of runs, days, horizons and verdicts.                        *)
(***************************************************************************)
EXTENDS IntegrityLedger, FiniteSetTheorems, WellFoundedInduction, TLAPS

\* There is a row for the run from before verdicts were given.
RowsAssumption == MaxRuns \in Nat \ {0}

Fields == {"status", "day", "retryOf", "cleanOf", "batch", "snapshot", "verdicts", "matured"}

\* A function on the fields of a run.
IsRow(row) == DOMAIN row = Fields /\ row = [x \in Fields |-> row[x]]

Statuses == {"waiting", "queued", "admitted", "succeeded", "failed"}

Shape ==
    /\ ledger = [r \in Runs |-> ledger[r]]
    /\ \A r \in Runs : IsRow(ledger[r]) /\ ledger[r].status \in Statuses \cup {"absent"}

\* What refers to a run refers to one that is there.
RefersToRuns ==
    \A r \in Created : {ledger[r].retryOf, ledger[r].cleanOf} \subseteq Created \cup {0}

OneClean ==
    \A c, d \in Created : ledger[c].cleanOf = ledger[d].cleanOf =>
        c = d \/ ledger[c].cleanOf = 0

\* Memory is pinned by the admission, not before.
PinnedOnce ==
    \A r \in Runs : ledger[r].status \in {"waiting", "queued"} => ledger[r].snapshot = {}

\* Batches and snapshots are those of the runs there are.
NothingIsLeft ==
    /\ {b.key : b \in batches} = {ledger[r].batch : r \in Created}
    /\ snapshots = UNION {ledger[r].snapshot : r \in Created}

IInv == Shape /\ RefersToRuns /\ OneClean /\ PinnedOnce /\ NothingIsLeft

-----------------------------------------------------------------------------

\* The least number of a set.
LEMMA LeastOf ==
    ASSUME NEW S \in SUBSET Nat, S # {}
    PROVE  \E x \in S : \A y \in S : x <= y
<1>1. PICK x \in S : \A y \in S : ~(<<y, x>> \in OpToRel(<, Nat))
  BY NatLessThanWellFounded, WFMin
<1>2. \A a, b \in Nat : a < b => <<a, b>> \in OpToRel(<, Nat)
  BY DEF OpToRel
<1>3. ASSUME NEW y \in S PROVE x <= y
  <2>1. x \in Nat /\ y \in Nat
    OBVIOUS
  <2>2. ~(y < x)
    BY <1>1, <1>2, <2>1, Zenon
  <2> QED
    BY <2>1, <2>2
<1> QED
  BY <1>3

\* A new row takes a place that is free.
LEMMA FreshIs ==
    ASSUME RowsAssumption, Fresh # {}
    PROVE  NextFresh \in Runs /\ ~Present(NextFresh)
<1>1. Fresh \in SUBSET Nat
  BY DEF Fresh, Runs, RowsAssumption
<1>2. \E r \in Fresh : \A q \in Fresh : r <= q
  BY <1>1, LeastOf
<1>3. NextFresh \in Fresh
  BY <1>2 DEF NextFresh
<1> QED
  BY <1>3 DEF Fresh

LEMMA RunsAre == RowsAssumption => 0 \notin Runs /\ 1 \in Runs
BY DEF Runs, RowsAssumption

LEMMA AbsentIs == IsRow(Absent)
BY DEF Absent, IsRow, Fields

LEMMA InitInv == ASSUME RowsAssumption, Init PROVE IInv
<1>1. PICK content :
         /\ ledger = [r \in Runs |-> IF r # 1 THEN Absent
                        ELSE [Absent EXCEPT !.day = content.day, !.batch = OwnKey(1),
                                !.status = "succeeded", !.snapshot = {content}]]
         /\ snapshots = {content}
  <2>1. PICK day \in AnalysisDays :
          LET content == [day |-> day, mode |-> "historical", memory |-> {}]
          IN /\ ledger = [r \in Runs |->
                            IF r # 1 THEN Absent
                            ELSE [Absent EXCEPT !.day = day, !.batch = OwnKey(1),
                                    !.status = "succeeded", !.snapshot = {content}]]
             /\ snapshots = {content}
    BY DEF Init
  <2>2. [day |-> day, mode |-> "historical", memory |-> {}].day = day
    OBVIOUS
  <2> QED
    BY <2>1, <2>2
<1>2. batches = {[key |-> OwnKey(1), mode |-> "historical"]}
  BY DEF Init
<1> DEFINE first == [Absent EXCEPT !.day = content.day, !.batch = OwnKey(1),
                                   !.status = "succeeded", !.snapshot = {content}]
<1>3. /\ IsRow(first) /\ first.status = "succeeded" /\ first.retryOf = 0 /\ first.cleanOf = 0
      /\ first.batch = OwnKey(1) /\ first.snapshot = {content}
  BY DEF Absent, IsRow, Fields
<1>4. /\ IsRow(Absent) /\ Absent.status = "absent"
  BY AbsentIs DEF Absent
<1>5. ledger = [r \in Runs |-> IF r # 1 THEN Absent ELSE first]
  BY <1>1
<1> HIDE DEF first
<1>6. Created = {1}
  BY <1>3, <1>4, <1>5, RunsAre DEF Created, Present
<1>7. ledger[1] = first /\ \A r \in Runs : ledger[r] = IF r # 1 THEN Absent ELSE first
  BY <1>5, RunsAre
<1>8. Shape
  BY <1>3, <1>4, <1>5, <1>7 DEF Shape, Statuses
<1>9. RefersToRuns /\ OneClean
  BY <1>3, <1>6, <1>7 DEF RefersToRuns, OneClean
<1>10. PinnedOnce
  BY <1>3, <1>4, <1>7 DEF PinnedOnce
<1>11. NothingIsLeft
  <2>1. {b.key : b \in batches} = {OwnKey(1)}
    BY <1>2
  <2>2. {ledger[r].batch : r \in Created} = {OwnKey(1)}
    BY <1>3, <1>6, <1>7
  <2>3. UNION {ledger[r].snapshot : r \in Created} = {content}
    BY <1>3, <1>6, <1>7
  <2> QED
    BY <1>1, <2>1, <2>2, <2>3 DEF NothingIsLeft
<1> QED
  BY <1>8, <1>9, <1>10, <1>11 DEF IInv

-----------------------------------------------------------------------------
(* Steps of a run that is there *)

\* Two rows of the same day and batch that come from the same run.
SameOrigin(row, old) ==
    /\ row.retryOf = old.retryOf /\ row.cleanOf = old.cleanOf
    /\ row.batch = old.batch /\ row.day = old.day

\* Verdicts, validations and ends change neither what a run refers to nor what it
\* has pinned.
LEMMA InPlace ==
    ASSUME IInv, NEW r \in Runs, Present(r), NEW row, ledger' = [ledger EXCEPT ![r] = row],
           IsRow(row), row.status \in Statuses,
           row.status \in {"waiting", "queued"} => ledger[r].status \in {"waiting", "queued"},
           SameOrigin(row, ledger[r]), row.snapshot = ledger[r].snapshot,
           UNCHANGED <<batches, snapshots>>
    PROVE  IInv'
<1>1. ledger = [q \in Runs |-> ledger[q]]
  BY DEF IInv, Shape
<1>2. \A q \in Runs : ledger'[q] = IF q = r THEN row ELSE ledger[q]
  BY <1>1
<1>3. Created' = Created
  BY <1>2 DEF Created, Present, Statuses
<1>4. \A q \in Created : /\ ledger'[q].retryOf = ledger[q].retryOf
                         /\ ledger'[q].cleanOf = ledger[q].cleanOf
                         /\ ledger'[q].batch = ledger[q].batch
                         /\ ledger'[q].snapshot = ledger[q].snapshot
  BY <1>2 DEF Created, SameOrigin
<1>5. Shape'
  BY <1>1, <1>2 DEF IInv, Shape
<1>6. RefersToRuns' /\ OneClean'
  BY <1>3, <1>4 DEF IInv, RefersToRuns, OneClean
<1>7. PinnedOnce'
  BY <1>2 DEF IInv, PinnedOnce
<1>8. NothingIsLeft'
  <2>1. {ledger'[q].batch : q \in Created} = {ledger[q].batch : q \in Created}
    BY <1>4
  <2>2. {ledger'[q].snapshot : q \in Created} = {ledger[q].snapshot : q \in Created}
    BY <1>4
  <2> QED
    BY <1>3, <2>1, <2>2 DEF IInv, NothingIsLeft
<1> QED
  BY <1>5, <1>6, <1>7, <1>8 DEF IInv

LEMMA LifeIs ==
    ASSUME IInv, NEW r \in Runs,
           \/ AuditOne(r) \/ DataReady(r) \/ Succeed(r) \/ Fail(r)
           \/ \E h \in Horizons : Mature(r, h)
    PROVE  /\ Present(r) /\ UNCHANGED <<batches, snapshots>>
           /\ \E row :
                  /\ ledger' = [ledger EXCEPT ![r] = row] /\ IsRow(row) /\ row.status \in Statuses
                  /\ row.status \in {"waiting", "queued"} => ledger[r].status \in {"waiting", "queued"}
                  /\ SameOrigin(row, ledger[r]) /\ row.snapshot = ledger[r].snapshot
<1>1. /\ ledger = [q \in Runs |-> ledger[q]] /\ IsRow(ledger[r])
      /\ ledger[r].status \in Statuses \cup {"absent"}
  BY DEF IInv, Shape
<1>2. UNCHANGED <<batches, snapshots>>
  BY DEF AuditOne, DataReady, Succeed, Fail, Mature
<1>3. CASE AuditOne(r)
  <2>1. PICK rows : ledger' = [ledger EXCEPT ![r].verdicts = rows]
    BY <1>1, <1>3 DEF AuditOne, Audited
  <2> DEFINE row == [ledger[r] EXCEPT !.verdicts = rows]
  <2>2. /\ IsRow(row) /\ row.status = ledger[r].status /\ SameOrigin(row, ledger[r])
        /\ row.snapshot = ledger[r].snapshot
    BY <1>1 DEF IsRow, Fields, SameOrigin
  <2>3. ledger' = [ledger EXCEPT ![r] = row]
    BY <1>1, <2>1
  <2>4. ledger[r].status = "succeeded" /\ Present(r)
    BY <1>3 DEF AuditOne, Succeeded, Present
  <2> HIDE DEF row
  <2> QED
    BY <1>1, <1>2, <2>2, <2>3, <2>4  DEF Statuses
<1>4. CASE DataReady(r) \/ Fail(r)
  <2>1. PICK s \in {"queued", "failed"} :
           /\ ledger' = [ledger EXCEPT ![r].status = s]
           /\ ledger[r].status = "waiting" \/ (ledger[r].status = "admitted" /\ s = "failed")
    BY <1>4 DEF DataReady, Fail
  <2> DEFINE row == [ledger[r] EXCEPT !.status = s]
  <2>2. /\ IsRow(row) /\ row.status = s /\ SameOrigin(row, ledger[r])
        /\ row.snapshot = ledger[r].snapshot
    BY <1>1 DEF IsRow, Fields, SameOrigin
  <2>3. ledger' = [ledger EXCEPT ![r] = row]
    BY <1>1, <2>1
  <2>4. Present(r)
    BY <2>1 DEF Present
  <2> HIDE DEF row
  <2> QED
    BY <1>2, <2>1, <2>2, <2>3, <2>4  DEF Statuses
<1>5. CASE Succeed(r)
  <2>1. PICK rows : ledger' = [ledger EXCEPT ![r].status = "succeeded", ![r].verdicts = rows]
    BY <1>1, <1>5 DEF Succeed
  <2> DEFINE row == [ledger[r] EXCEPT !.status = "succeeded", !.verdicts = rows]
  <2>2. /\ IsRow(row) /\ row.status = "succeeded" /\ SameOrigin(row, ledger[r])
        /\ row.snapshot = ledger[r].snapshot
    BY <1>1 DEF IsRow, Fields, SameOrigin
  <2>3. ledger' = [ledger EXCEPT ![r] = row]
    BY <1>1, <2>1
  <2>4. Present(r)
    BY <1>5 DEF Succeed, Present
  <2> HIDE DEF row
  <2> QED
    BY <1>2, <2>2, <2>3, <2>4  DEF Statuses
<1>6. ASSUME NEW h \in Horizons, Mature(r, h)
      PROVE  /\ Present(r)
             /\ \E row :
                    /\ ledger' = [ledger EXCEPT ![r] = row] /\ IsRow(row) /\ row.status \in Statuses
                    /\ row.status \in {"waiting", "queued"} => ledger[r].status \in {"waiting", "queued"}
                    /\ SameOrigin(row, ledger[r]) /\ row.snapshot = ledger[r].snapshot
  <2>1. PICK hs : ledger' = [ledger EXCEPT ![r].matured = hs]
    BY <1>1, <1>6 DEF Mature
  <2> DEFINE row == [ledger[r] EXCEPT !.matured = hs]
  <2>2. /\ IsRow(row) /\ row.status = ledger[r].status /\ SameOrigin(row, ledger[r])
        /\ row.snapshot = ledger[r].snapshot
    BY <1>1 DEF IsRow, Fields, SameOrigin
  <2>3. ledger' = [ledger EXCEPT ![r] = row]
    BY <1>1, <2>1
  <2>4. ledger[r].status = "succeeded" /\ Present(r)
    BY <1>6 DEF Mature, Succeeded, Present
  <2> HIDE DEF row
  <2> QED
    BY <1>1, <1>2, <2>2, <2>3, <2>4  DEF Statuses
<1> QED
  BY <1>2, <1>3, <1>4, <1>5, <1>6

LEMMA LifeInv ==
    ASSUME IInv, NEW r \in Runs,
           \/ AuditOne(r) \/ DataReady(r) \/ Succeed(r) \/ Fail(r)
           \/ \E h \in Horizons : Mature(r, h)
    PROVE  IInv'
BY LifeIs, InPlace

-----------------------------------------------------------------------------
(* Admission *)

LEMMA AdmitInv == ASSUME IInv, NEW r \in Runs, Admit(r) PROVE IInv'
<1>1. PICK content : /\ ledger' = [ledger EXCEPT ![r].status = "admitted",
                                                 ![r].snapshot = {content}]
                     /\ snapshots' = snapshots \cup {content}
  BY DEF Admit
<1>2. ledger[r].status = "queued" /\ batches' = batches /\ Present(r)
  BY DEF Admit, Present
<1>3. ledger = [q \in Runs |-> ledger[q]] /\ IsRow(ledger[r]) /\ ledger[r].snapshot = {}
  BY <1>2 DEF IInv, Shape, PinnedOnce
<1> DEFINE row == [ledger[r] EXCEPT !.status = "admitted", !.snapshot = {content}]
<1>4. /\ IsRow(row) /\ row.status = "admitted" /\ row.retryOf = ledger[r].retryOf
      /\ row.cleanOf = ledger[r].cleanOf /\ row.batch = ledger[r].batch
      /\ row.snapshot = {content}
  BY <1>3 DEF IsRow, Fields
<1>5. \A q \in Runs : ledger'[q] = IF q = r THEN row ELSE ledger[q]
  BY <1>1, <1>3
<1>5a. ledger' = [q \in Runs |-> ledger'[q]]
  BY <1>1, <1>3
<1> HIDE DEF row
<1>6. Created' = Created /\ r \in Created
  BY <1>2, <1>4, <1>5 DEF Created, Present
<1>7. \A q \in Created : /\ ledger'[q].retryOf = ledger[q].retryOf
                         /\ ledger'[q].cleanOf = ledger[q].cleanOf
                         /\ ledger'[q].batch = ledger[q].batch
  BY <1>4, <1>5 DEF Created
<1>8. Shape'
  BY <1>4, <1>5, <1>5a DEF IInv, Shape, Statuses
<1>9. RefersToRuns' /\ OneClean'
  BY <1>6, <1>7 DEF IInv, RefersToRuns, OneClean
<1>10. PinnedOnce'
  BY <1>4, <1>5 DEF IInv, PinnedOnce
<1>11. NothingIsLeft'
  <2>1. {ledger'[q].batch : q \in Created} = {ledger[q].batch : q \in Created}
    BY <1>7
  <2>2. \A c : c \in snapshots <=> \E q \in Created : c \in ledger[q].snapshot
    BY DEF IInv, NothingIsLeft
  <2>3. \A c : c \in snapshots' <=> \E q \in Created : c \in ledger'[q].snapshot
    <3>1. \A q \in Created : ledger'[q].snapshot = IF q = r THEN {content}
                                                   ELSE ledger[q].snapshot
      BY <1>4, <1>5 DEF Created
    <3>2. \A c : c \in snapshots' <=> c \in snapshots \/ c = content
      BY <1>1
    <3>3. ASSUME NEW c PROVE (\E q \in Created : c \in ledger'[q].snapshot)
                             <=> (\E q \in Created : c \in ledger[q].snapshot) \/ c = content
      <4>1. \A q \in Created \ {r} : c \in ledger'[q].snapshot <=> c \in ledger[q].snapshot
        BY <3>1
      <4>2. /\ c \in ledger'[r].snapshot <=> c = content
            /\ c \notin ledger[r].snapshot
        BY <1>3, <1>6, <3>1
      <4> QED
        BY <1>6, <4>1, <4>2
    <3> QED
      BY <2>2, <3>2, <3>3
  <2> QED
    BY <1>2, <1>6, <2>1, <2>3 DEF IInv, NothingIsLeft
<1> QED
  BY <1>8, <1>9, <1>10, <1>11 DEF IInv

-----------------------------------------------------------------------------
(* New runs *)

LEMMA NewRow ==
    ASSUME RowsAssumption, IInv, NEW n \in Runs, ~Present(n), NEW row, IsRow(row),
           ledger' = [ledger EXCEPT ![n] = row],
           row.status \in {"queued", "waiting"}, row.snapshot = {},
           row.retryOf \in Created \cup {0}, row.cleanOf \in Created \cup {0},
           row.cleanOf # 0 => CleanOf(row.cleanOf) = {},
           UNCHANGED snapshots,
           {b.key : b \in batches'} = {b.key : b \in batches} \cup {row.batch}
    PROVE  IInv'
<1>1. ledger = [q \in Runs |-> ledger[q]]
  BY DEF IInv, Shape
<1>2. \A q \in Runs : ledger'[q] = IF q = n THEN row ELSE ledger[q]
  BY <1>1
<1>3. Created' = Created \cup {n} /\ n \notin Created
  BY <1>2 DEF Created, Present
<1>4. \A q \in Created : ledger'[q] = ledger[q]
  BY <1>2, <1>3 DEF Created
<1>5. Shape'
  BY <1>1, <1>2 DEF IInv, Shape, Statuses
<1>6. RefersToRuns'
  BY <1>2, <1>3, <1>4 DEF IInv, RefersToRuns
<1>7. OneClean'
  <2>1. \A c \in Created : row.cleanOf # 0 => ledger[c].cleanOf # row.cleanOf
    BY DEF CleanOf
  <2> QED
    BY <1>2, <1>3, <1>4, <2>1 DEF IInv, OneClean
<1>8. PinnedOnce'
  BY <1>2 DEF IInv, PinnedOnce
<1>9. NothingIsLeft'
  <2>1. {ledger'[q].batch : q \in Created'} = {ledger[q].batch : q \in Created} \cup {row.batch}
    BY <1>2, <1>3, <1>4
  <2>2. UNION {ledger'[q].snapshot : q \in Created'} = UNION {ledger[q].snapshot : q \in Created}
    BY <1>2, <1>3, <1>4
  <2> QED
    BY <2>1, <2>2 DEF IInv, NothingIsLeft
<1> QED
  BY <1>5, <1>6, <1>7, <1>8, <1>9 DEF IInv

LEMMA CreateInv ==
    ASSUME RowsAssumption, IInv,
           Submit \/ \E r \in Runs : CreateRetry(r) \/ CleanReassess(r)
    PROVE  IInv'
<1>1. Fresh # {} /\ UNCHANGED snapshots
  BY DEF Submit, CreateRetry, CleanReassess
<1> DEFINE n == NextFresh
<1>2. n \in Runs /\ ~Present(n)
  BY <1>1, FreshIs
<1> HIDE DEF n
<1>4. \A r \in Runs : Succeeded(r) \/ ledger[r].status = "failed" => r \in Created
  BY DEF Succeeded, Created, Present
<1>5. CASE Submit
  <2>1. PICK day \in AnalysisDays, s \in {"queued", "waiting"} :
           /\ ledger' = [ledger EXCEPT ![n] = [Absent EXCEPT !.status = s, !.day = day,
                                                             !.batch = OwnKey(n)]]
           /\ batches' = batches \cup {[key |-> OwnKey(n), mode |-> "historical"]}
    BY <1>5 DEF Submit, n
  <2> DEFINE row == [Absent EXCEPT !.status = s, !.day = day, !.batch = OwnKey(n)]
  <2>2. /\ IsRow(row) /\ row.status = s /\ row.snapshot = {} /\ row.batch = OwnKey(n)
        /\ row.retryOf = 0 /\ row.cleanOf = 0
    BY DEF Absent, IsRow, Fields
  <2>3. {b.key : b \in batches'} = {b.key : b \in batches} \cup {OwnKey(n)}
    <3> DEFINE batch == [key |-> OwnKey(n), mode |-> "historical"]
    <3>1. batch.key = OwnKey(n) /\ batches' = batches \cup {batch}
      BY <2>1
    <3> HIDE DEF batch
    <3> QED
      BY <3>1
  <2> HIDE DEF row
  <2> QED
    BY <1>1, <1>2, <2>1, <2>2, <2>3, NewRow DEF row
<1>6. ASSUME NEW r \in Runs, CreateRetry(r) PROVE IInv'
  <2>1. PICK s \in {"queued", "waiting"} :
           ledger' = [ledger EXCEPT ![n] = [Absent EXCEPT !.status = s, !.day = ledger[r].day,
                                              !.retryOf = r, !.batch = ledger[r].batch]]
    BY <1>6 DEF CreateRetry, n
  <2> DEFINE row == [Absent EXCEPT !.status = s, !.day = ledger[r].day, !.retryOf = r,
                                   !.batch = ledger[r].batch]
  <2>2. /\ IsRow(row) /\ row.status = s /\ row.snapshot = {} /\ row.batch = ledger[r].batch
        /\ row.retryOf = r /\ row.cleanOf = 0
    BY DEF Absent, IsRow, Fields
  <2>3. r \in Created /\ batches' = batches
    BY <1>4, <1>6 DEF CreateRetry
  <2>4. {b.key : b \in batches'} = {b.key : b \in batches} \cup {ledger[r].batch}
    BY <2>3 DEF IInv, NothingIsLeft
  <2> QED
    BY <1>1, <1>2, <2>1, <2>2, <2>3, <2>4, NewRow
<1>7. ASSUME NEW r \in Runs, CleanReassess(r) PROVE IInv'
  <2>1. PICK s \in {"queued", "waiting"} :
           ledger' = [ledger EXCEPT ![n] = [Absent EXCEPT !.status = s, !.day = ledger[r].day,
                                              !.cleanOf = r, !.batch = CleanKey(r)]]
    BY <1>7 DEF CleanReassess, n
  <2> DEFINE row == [Absent EXCEPT !.status = s, !.day = ledger[r].day, !.cleanOf = r,
                                   !.batch = CleanKey(r)]
  <2>2. /\ IsRow(row) /\ row.status = s /\ row.snapshot = {} /\ row.batch = CleanKey(r)
        /\ row.retryOf = 0 /\ row.cleanOf = r
    BY DEF Absent, IsRow, Fields
  <2>3. r \in Created /\ CleanOf(r) = {}
    BY <1>4, <1>7 DEF CleanReassess
  <2>4. batches' = batches \cup {[key |-> CleanKey(r), mode |-> "independent"]}
    BY <1>7 DEF CleanReassess
  <2>5. {b.key : b \in batches'} = {b.key : b \in batches} \cup {CleanKey(r)}
    <3> DEFINE batch == [key |-> CleanKey(r), mode |-> "independent"]
    <3>1. batch.key = CleanKey(r) /\ batches' = batches \cup {batch}
      BY <2>4
    <3> HIDE DEF batch
    <3> QED
      BY <3>1
  <2> QED
    BY <1>1, <1>2, <2>1, <2>2, <2>3, <2>5, NewRow
<1> QED
  BY <1>5, <1>6, <1>7

-----------------------------------------------------------------------------
(* Deletion *)

\* What nothing refers to goes with its batch and its snapshot, unless another run
\* shares them.
LEMMA DeleteInv == ASSUME RowsAssumption, IInv, NEW r \in Runs, Delete(r) PROVE IInv'
<1> DEFINE others == Created \ {r}
<1>1. /\ ledger' = [ledger EXCEPT ![r] = Absent] /\ ledger = [q \in Runs |-> ledger[q]]
      /\ batches' = {b \in batches : b.key = ledger[r].batch =>
                                       \E q \in others : ledger[q].batch = b.key}
      /\ snapshots' = {c \in snapshots : c \in ledger[r].snapshot =>
                                           \E q \in others : c \in ledger[q].snapshot}
      /\ \A d \in Created : ledger[d].retryOf # r /\ ledger[d].cleanOf # r
      /\ r \in Created
  BY DEF Delete, DeleteGraph, DependentRuns, IInv, Shape, Created, Present
<1>2. \A q \in Runs : ledger'[q] = IF q = r THEN Absent ELSE ledger[q]
  BY <1>1
<1>3. Absent.status = "absent" /\ Absent.snapshot = {}
  BY DEF Absent
<1>4. Created' = others /\ \A q \in others : ledger'[q] = ledger[q] /\ q \in Created
  BY <1>2, <1>3 DEF Created, Present
<1>5. Shape'
  <2>1. ledger' = [q \in Runs |-> ledger'[q]]
    BY <1>1
  <2>2. \A q \in Runs : IsRow(ledger'[q]) /\ ledger'[q].status \in Statuses \cup {"absent"}
    BY <1>2, <1>3, AbsentIs DEF IInv, Shape
  <2> QED
    BY <2>1, <2>2 DEF Shape
<1>6. RefersToRuns'
  <2>1. ASSUME NEW q \in others
        PROVE  {ledger[q].retryOf, ledger[q].cleanOf} \subseteq others \cup {0}
    BY <1>1 DEF IInv, RefersToRuns
  <2> QED
    BY <1>4, <2>1 DEF RefersToRuns
<1>7. OneClean' /\ PinnedOnce'
  BY <1>2, <1>3, <1>4 DEF IInv, OneClean, PinnedOnce
<1>8. NothingIsLeft'
  <2>1. \A k : (\E b \in batches : b.key = k) <=> \E q \in Created : ledger[q].batch = k
    BY DEF IInv, NothingIsLeft
  <2>2. \A k : (\E b \in batches' : b.key = k) <=> \E q \in others : ledger[q].batch = k
    BY <1>1, <2>1
  <2>3. {b.key : b \in batches'} = {ledger'[q].batch : q \in Created'}
    <3>1. {ledger'[q].batch : q \in Created'} = {ledger[q].batch : q \in others}
      BY <1>4
    <3>2. {b.key : b \in batches'} = {ledger[q].batch : q \in others}
      BY <2>2
    <3> QED
      BY <3>1, <3>2
  <2>4. \A c : c \in snapshots <=> \E q \in Created : c \in ledger[q].snapshot
    BY DEF IInv, NothingIsLeft
  <2>5. \A c : c \in snapshots' <=> \E q \in others : c \in ledger[q].snapshot
    BY <1>1, <2>4
  <2>6. snapshots' = UNION {ledger'[q].snapshot : q \in Created'}
    BY <1>4, <2>5
  <2> QED
    BY <2>3, <2>6 DEF NothingIsLeft
<1> QED
  BY <1>5, <1>6, <1>7, <1>8 DEF IInv

-----------------------------------------------------------------------------

LEMMA Inductive == ASSUME RowsAssumption, IInv, [Next]_ledgerVars PROVE IInv'
<1>1. CASE UNCHANGED ledgerVars
  <2>1. ledger' = ledger /\ batches' = batches /\ snapshots' = snapshots
    BY <1>1 DEF ledgerVars
  <2>2. Created' = Created
    BY <2>1 DEF Created, Present
  <2>3. Shape' /\ RefersToRuns' /\ OneClean'
    BY <2>1, <2>2 DEF IInv, Shape, RefersToRuns, OneClean
  <2>4. PinnedOnce' /\ NothingIsLeft'
    BY <2>1, <2>2 DEF IInv, PinnedOnce, NothingIsLeft
  <2> QED
    BY <2>3, <2>4 DEF IInv
<1> QED
  BY <1>1, LifeInv, AdmitInv, CreateInv, DeleteInv DEF Next

\* No two clean reassessments: at most one, in the words of the run's property.
LEMMA AtMostOne == ASSUME OneClean, RowsAssumption, NEW r \in Runs
                   PROVE  Cardinality(CleanOf(r)) <= 1
<1>1. \A c, d \in CleanOf(r) : c = d
  BY RunsAre DEF OneClean, CleanOf
<1>2. CASE CleanOf(r) = {}
  BY <1>2, FS_EmptySet
<1>3. ASSUME NEW c \in CleanOf(r) PROVE Cardinality(CleanOf(r)) <= 1
  <2>1. CleanOf(r) = {c}
    BY <1>1
  <2>2. Cardinality({c}) = 1
    BY FS_Singleton
  <2> QED
    BY <2>1, <2>2
<1> QED
  BY <1>2, <1>3

LEMMA LineageIs == ASSUME RowsAssumption, IInv PROVE LineageIsSound
BY AtMostOne DEF IInv, RefersToRuns, NothingIsLeft, LineageIsSound

\* However runs are retried, reassessed and deleted, no run refers to one that is
\* gone, no run has two clean reassessments, and batches and snapshots are those of
\* the runs there are.
THEOREM Lineage == ASSUME RowsAssumption PROVE Spec => []LineageIsSound
<1>1. Init => IInv
  BY InitInv
<1>2. IInv /\ [Next]_ledgerVars => IInv'
  BY Inductive
<1>3. IInv => LineageIsSound
  BY LineageIs
<1> QED
  BY <1>1, <1>2, <1>3, PTL DEF Spec

\* No step but its admission makes a queued run an admitted one.
LEMMA AdmittedBy ==
    ASSUME RowsAssumption, IInv, [Next]_ledgerVars, NEW r \in Runs,
           ledger[r].status = "queued", ledger'[r].status = "admitted"
    PROVE  Admit(r)
<1>1. ledger = [q \in Runs |-> ledger[q]] /\ \A q \in Runs : IsRow(ledger[q])
  BY DEF IInv, Shape
<1>2. ASSUME NEW q \in Runs, NEW row, ledger' = [ledger EXCEPT ![q] = row] PROVE q = r
  BY <1>1, <1>2
<1>3. ASSUME NEW q \in Runs, Admit(q) PROVE Admit(r)
  BY <1>1, <1>3 DEF Admit
<1>4. ASSUME NEW q \in Runs, \/ AuditOne(q) \/ DataReady(q) \/ Succeed(q) \/ Fail(q)
                             \/ \E h \in Horizons : Mature(q, h)
      PROVE  FALSE
  <2>1. CASE AuditOne(q)
    BY <1>1, <2>1 DEF AuditOne, Audited, Succeeded, IsRow, Fields
  <2>2. CASE DataReady(q) \/ Succeed(q) \/ Fail(q)
    BY <1>1, <2>2 DEF DataReady, Succeed, Fail, IsRow, Fields
  <2>3. ASSUME NEW h \in Horizons, Mature(q, h) PROVE FALSE
    BY <1>1, <2>3 DEF Mature, Succeeded, IsRow, Fields
  <2> QED
    BY <1>4, <2>1, <2>2, <2>3
<1>5. CASE Submit \/ \E q \in Runs : CreateRetry(q) \/ CleanReassess(q)
  <2>1. \E row : /\ ledger' = [ledger EXCEPT ![NextFresh] = row]
                 /\ row.status \in {"queued", "waiting"}
    BY <1>5 DEF Submit, CreateRetry, CleanReassess, Absent
  <2>2. NextFresh \in Runs
    BY <1>5, FreshIs DEF Submit, CreateRetry, CleanReassess
  <2> QED
    BY <1>1, <2>1, <2>2
<1>6. ASSUME NEW q \in Runs, Delete(q) PROVE FALSE
  BY <1>1, <1>6 DEF Delete, DeleteGraph, Absent
<1>7. ~UNCHANGED ledgerVars
  BY DEF ledgerVars
<1> QED
  BY <1>3, <1>4, <1>5, <1>6, <1>7 DEF Next

\* What an admission pins.
LEMMA AdmitPins ==
    ASSUME NEW r \in Runs, Admit(r)
    PROVE  \E content :
              /\ content.memory = {} \/ content.memory = Memory(ledger[r].day)
              /\ ledger' = [ledger EXCEPT ![r].status = "admitted", ![r].snapshot = {content}]
<1> DEFINE content == [day |-> ledger[r].day, mode |-> ModeOf(r),
                       memory |-> IF ModeOf(r) = "independent" THEN {}
                                  ELSE Memory(ledger[r].day)]
<1>1. ledger' = [ledger EXCEPT ![r].status = "admitted", ![r].snapshot = {content}]
  BY DEF Admit
<1>2. content.memory = {} \/ content.memory = Memory(ledger[r].day)
  OBVIOUS
<1> HIDE DEF content
<1> QED
  BY <1>1, <1>2

\* The query for a memory takes what the statistics count.
LEMMA MemoryHolds ==
    ASSUME NEW day, NEW e \in Memory(day)
    PROVE  Counted(e.run, e.horizon)
<1>1. PICK c \in Candidates(day) :
         e = [run |-> c.run, horizon |-> c.horizon, exit |-> Exit(c.run, c.horizon)]
  BY DEF Memory
<1>2. e.run = c.run /\ e.horizon = c.horizon
  BY <1>1
<1> QED
  BY <1>1, <1>2 DEF Candidates, Counted

\* What a run is given to remember is counted at that moment: one query decides both.
LEMMA PinnedIsCounted ==
    ASSUME RowsAssumption, IInv, [Next]_ledgerVars, NEW r \in Runs,
           ledger[r].status = "queued", ledger'[r].status = "admitted",
           NEW c \in ledger'[r].snapshot, NEW e \in c.memory
    PROVE  Counted(e.run, e.horizon)
<1>1. Admit(r)
  BY AdmittedBy
<1>2. PICK content : /\ content.memory = {} \/ content.memory = Memory(ledger[r].day)
                     /\ ledger' = [ledger EXCEPT ![r].status = "admitted",
                                                 ![r].snapshot = {content}]
  BY <1>1, AdmitPins
<1>3. ledger'[r].snapshot = {content}
  BY <1>2 DEF IInv, Shape, IsRow, Fields
<1>4. e \in Memory(ledger[r].day)
  BY <1>2, <1>3
<1> QED
  BY <1>4, MemoryHolds

\* A run remembers what the statistics count when it is admitted, whatever audits
\* say of it later.
THEOREM Remembering == ASSUME RowsAssumption PROVE Spec => MemoryIsCounted
<1>1. IInv /\ [Next]_ledgerVars =>
        [\A r \in Runs : ledger[r].status = "queued" /\ ledger'[r].status = "admitted" =>
            \A c \in ledger'[r].snapshot : \A e \in c.memory :
                Counted(e.run, e.horizon)]_ledgerVars
  BY PinnedIsCounted
<1>2. Init => IInv
  BY InitInv
<1>3. IInv /\ [Next]_ledgerVars => IInv'
  BY Inductive
<1> QED
  BY <1>1, <1>2, <1>3, PTL DEF Spec, MemoryIsCounted

-----------------------------------------------------------------------------
(* The rows of a run *)

\* A verdict is kept once, a run has one snapshot at most, and is validated for the
\* horizons there are.
Proper(row) ==
    /\ row.verdicts \in Seq([mode : {"live", "retrospective"}, status : Findings])
    /\ \A i, j \in DOMAIN row.verdicts : row.verdicts[i] = row.verdicts[j] => i = j
    /\ row.snapshot = {} \/ \E content : row.snapshot = {content}
    /\ row.matured \subseteq Horizons

VInv == \A r \in Runs : Proper(ledger[r])

\* One row is written.
LEMMA ProperRow ==
    ASSUME IInv, VInv, NEW r \in Runs, NEW row, Proper(row), ledger' = [ledger EXCEPT ![r] = row]
    PROVE  VInv'
<1>1. ledger = [q \in Runs |-> ledger[q]]
  BY DEF IInv, Shape
<1>2. \A q \in Runs : ledger'[q] = IF q = r THEN row ELSE ledger[q]
  BY <1>1
<1>3. ASSUME NEW q \in Runs PROVE Proper(ledger'[q])
  BY <1>2 DEF VInv
<1> QED
  BY <1>3 DEF VInv, Proper, Findings

\* The fingerprint of a verdict keeps it from being written again.
LEMMA VerdictOnce ==
    ASSUME NEW rows \in Seq([mode : {"live", "retrospective"}, status : Findings]),
           NEW verdict \in [mode : {"live", "retrospective"}, status : Findings],
           \A i, j \in DOMAIN rows : rows[i] = rows[j] => i = j
    PROVE  /\ WithVerdict(rows, verdict)
                 \in Seq([mode : {"live", "retrospective"}, status : Findings])
           /\ \A i, j \in DOMAIN WithVerdict(rows, verdict) :
                 WithVerdict(rows, verdict)[i] = WithVerdict(rows, verdict)[j] => i = j
<1> DEFINE V == [mode : {"live", "retrospective"}, status : Findings]
<1> HIDE DEF V
<1>0. rows \in Seq(V) /\ verdict \in V
  BY DEF V
<1>1. CASE \E i \in DOMAIN rows : rows[i] = verdict
  BY <1>0, <1>1 DEF WithVerdict, V
<1>2. CASE ~\E i \in DOMAIN rows : rows[i] = verdict
  <2>1. WithVerdict(rows, verdict) = Append(rows, verdict)
    BY <1>2 DEF WithVerdict
  <2>2. /\ Append(rows, verdict) \in Seq(V)
        /\ DOMAIN Append(rows, verdict) = 1 .. Len(rows) + 1 /\ Len(rows) \in Nat
        /\ Append(rows, verdict)[Len(rows) + 1] = verdict
        /\ \A i \in 1 .. Len(rows) : Append(rows, verdict)[i] = rows[i]
    BY <1>0
  <2>3. ASSUME NEW i \in DOMAIN Append(rows, verdict), NEW j \in DOMAIN Append(rows, verdict),
               Append(rows, verdict)[i] = Append(rows, verdict)[j]
        PROVE  i = j
    <3>1. DOMAIN rows = 1 .. Len(rows)
      BY <1>0
    <3>2. i \in 1 .. Len(rows) \/ i = Len(rows) + 1
      BY <2>2
    <3>3. j \in 1 .. Len(rows) \/ j = Len(rows) + 1
      BY <2>2
    <3> QED
      BY <1>2, <2>2, <2>3, <3>1, <3>2, <3>3
  <2> QED
    BY <2>1, <2>2, <2>3 DEF V
<1> QED
  BY <1>1, <1>2

LEMMA ProperLife ==
    ASSUME IInv, VInv, NEW r \in Runs,
           \/ AuditOne(r) \/ DataReady(r) \/ Succeed(r) \/ Fail(r) \/ Admit(r)
           \/ \E h \in Horizons : Mature(r, h)
    PROVE  VInv'
<1> DEFINE V == [mode : {"live", "retrospective"}, status : Findings]
<1>1. /\ ledger = [q \in Runs |-> ledger[q]] /\ IsRow(ledger[r]) /\ Proper(ledger[r])
  BY DEF IInv, Shape, VInv
<1>2. CASE AuditOne(r)
  <2>1. PICK finding \in Findings :
           ledger' = [ledger EXCEPT ![r].verdicts =
                        WithVerdict(@, [mode |-> "retrospective", status |-> finding])]
    BY <1>2 DEF AuditOne, Audited
  <2> DEFINE rows == WithVerdict(ledger[r].verdicts,
                                 [mode |-> "retrospective", status |-> finding])
             row == [ledger[r] EXCEPT !.verdicts = rows]
  <2>2. rows \in Seq(V) /\ \A i, j \in DOMAIN rows : rows[i] = rows[j] => i = j
    <3>1. [mode |-> "retrospective", status |-> finding] \in V
      OBVIOUS
    <3> QED
      BY <1>1, <3>1, VerdictOnce DEF Proper
  <2>3. ledger' = [ledger EXCEPT ![r] = row]
    BY <1>1, <2>1
  <2> HIDE DEF rows
  <2>4. /\ row.verdicts = rows /\ row.snapshot = ledger[r].snapshot
        /\ row.matured = ledger[r].matured
    BY <1>1 DEF IsRow, Fields
  <2> HIDE DEF row
  <2> QED
    BY <1>1, <2>2, <2>3, <2>4, ProperRow DEF Proper
<1>3. CASE Succeed(r)
  <2>1. PICK finding \in Findings :
           ledger' = [ledger EXCEPT ![r].status = "succeeded", ![r].verdicts =
                        WithVerdict(@, [mode |-> "live", status |-> finding])]
    BY <1>3 DEF Succeed
  <2> DEFINE rows == WithVerdict(ledger[r].verdicts, [mode |-> "live", status |-> finding])
             row == [ledger[r] EXCEPT !.status = "succeeded", !.verdicts = rows]
  <2>2. rows \in Seq(V) /\ \A i, j \in DOMAIN rows : rows[i] = rows[j] => i = j
    <3>1. [mode |-> "live", status |-> finding] \in V
      OBVIOUS
    <3> QED
      BY <1>1, <3>1, VerdictOnce DEF Proper
  <2>3. ledger' = [ledger EXCEPT ![r] = row]
    BY <1>1, <2>1 DEF IsRow, Fields
  <2> HIDE DEF rows
  <2>4. /\ row.verdicts = rows /\ row.snapshot = ledger[r].snapshot
        /\ row.matured = ledger[r].matured
    BY <1>1 DEF IsRow, Fields
  <2> HIDE DEF row
  <2> QED
    BY <1>1, <2>2, <2>3, <2>4, ProperRow DEF Proper
<1>4. CASE DataReady(r) \/ Fail(r)
  <2>1. PICK s : ledger' = [ledger EXCEPT ![r].status = s]
    BY <1>4 DEF DataReady, Fail
  <2> DEFINE row == [ledger[r] EXCEPT !.status = s]
  <2>2. ledger' = [ledger EXCEPT ![r] = row]
    BY <1>1, <2>1
  <2>3. /\ row.verdicts = ledger[r].verdicts /\ row.snapshot = ledger[r].snapshot
        /\ row.matured = ledger[r].matured
    BY <1>1 DEF IsRow, Fields
  <2> HIDE DEF row
  <2> QED
    BY <1>1, <2>2, <2>3, ProperRow DEF Proper
<1>5. CASE Admit(r)
  <2>1. PICK content : ledger' = [ledger EXCEPT ![r].status = "admitted",
                                                ![r].snapshot = {content}]
    BY <1>5 DEF Admit
  <2> DEFINE row == [ledger[r] EXCEPT !.status = "admitted", !.snapshot = {content}]
  <2>2. ledger' = [ledger EXCEPT ![r] = row]
    BY <1>1, <2>1
  <2>3. /\ row.verdicts = ledger[r].verdicts /\ row.snapshot = {content}
        /\ row.matured = ledger[r].matured
    BY <1>1 DEF IsRow, Fields
  <2> HIDE DEF row
  <2> QED
    BY <1>1, <2>2, <2>3, ProperRow DEF Proper
<1>6. ASSUME NEW h \in Horizons, Mature(r, h) PROVE VInv'
  <2>1. ledger' = [ledger EXCEPT ![r].matured = @ \union {h}]
    BY <1>6 DEF Mature
  <2> DEFINE hs == ledger[r].matured \union {h}
             row == [ledger[r] EXCEPT !.matured = hs]
  <2>2. ledger' = [ledger EXCEPT ![r] = row]
    BY <1>1, <2>1
  <2>3. hs \subseteq Horizons
    BY <1>1 DEF Proper
  <2> HIDE DEF hs
  <2>4. /\ row.verdicts = ledger[r].verdicts /\ row.snapshot = ledger[r].snapshot
        /\ row.matured = hs
    BY <1>1 DEF IsRow, Fields
  <2> HIDE DEF row
  <2> QED
    BY <1>1, <2>2, <2>3, <2>4, ProperRow DEF Proper
<1> QED
  BY <1>2, <1>3, <1>4, <1>5, <1>6

LEMMA ProperNew ==
    ASSUME RowsAssumption, IInv, VInv,
           \/ Submit \/ \E r \in Runs : CreateRetry(r) \/ CleanReassess(r)
           \/ \E r \in Runs : Delete(r)
    PROVE  VInv'
<1> DEFINE Empty(row) == row.verdicts = <<>> /\ row.snapshot = {} /\ row.matured = {}
<1>1. ASSUME NEW row, Empty(row) PROVE Proper(row)
  BY <1>1 DEF Proper
<1>2. ASSUME NEW n \in Runs, NEW row, Empty(row), ledger' = [ledger EXCEPT ![n] = row]
      PROVE  VInv'
  BY <1>1, <1>2, ProperRow
<1>3. Fresh # {} => NextFresh \in Runs
  BY FreshIs
<1>4. CASE Submit
  <2>1. PICK day \in AnalysisDays, s \in {"queued", "waiting"} :
           ledger' = [ledger EXCEPT ![NextFresh] =
                        [Absent EXCEPT !.status = s, !.day = day, !.batch = OwnKey(NextFresh)]]
    BY <1>4 DEF Submit
  <2>2. Empty([Absent EXCEPT !.status = s, !.day = day, !.batch = OwnKey(NextFresh)])
    BY DEF Absent
  <2> HIDE DEF Empty
  <2> QED
    BY <1>2, <1>3, <1>4, <2>1, <2>2 DEF Submit
<1>5. ASSUME NEW r \in Runs, CreateRetry(r) PROVE VInv'
  <2>1. PICK s \in {"queued", "waiting"} :
           ledger' = [ledger EXCEPT ![NextFresh] =
                        [Absent EXCEPT !.status = s, !.day = ledger[r].day, !.retryOf = r,
                                       !.batch = ledger[r].batch]]
    BY <1>5 DEF CreateRetry
  <2>2. Empty([Absent EXCEPT !.status = s, !.day = ledger[r].day, !.retryOf = r,
                             !.batch = ledger[r].batch])
    BY DEF Absent
  <2> HIDE DEF Empty
  <2> QED
    BY <1>2, <1>3, <1>5, <2>1, <2>2 DEF CreateRetry
<1>6. ASSUME NEW r \in Runs, CleanReassess(r) PROVE VInv'
  <2>1. PICK s \in {"queued", "waiting"} :
           ledger' = [ledger EXCEPT ![NextFresh] =
                        [Absent EXCEPT !.status = s, !.day = ledger[r].day, !.cleanOf = r,
                                       !.batch = CleanKey(r)]]
    BY <1>6 DEF CleanReassess
  <2>2. Empty([Absent EXCEPT !.status = s, !.day = ledger[r].day, !.cleanOf = r,
                             !.batch = CleanKey(r)])
    BY DEF Absent
  <2> HIDE DEF Empty
  <2> QED
    BY <1>2, <1>3, <1>6, <2>1, <2>2 DEF CleanReassess
<1>7. ASSUME NEW r \in Runs, Delete(r) PROVE VInv'
  <2>1. Empty(Absent)
    BY DEF Absent
  <2> HIDE DEF Empty
  <2> QED
    BY <1>2, <1>7, <2>1 DEF Delete, DeleteGraph
<1> QED
  BY <1>4, <1>5, <1>6, <1>7

LEMMA InitProper == ASSUME Init PROVE VInv
<1>1. PICK content :
         ledger = [r \in Runs |-> IF r # 1 THEN Absent
                     ELSE [Absent EXCEPT !.day = content.day, !.batch = OwnKey(1),
                             !.status = "succeeded", !.snapshot = {content}]]
  <2>1. PICK day \in AnalysisDays :
          LET content == [day |-> day, mode |-> "historical", memory |-> {}]
          IN /\ ledger = [r \in Runs |->
                            IF r # 1 THEN Absent
                            ELSE [Absent EXCEPT !.day = day, !.batch = OwnKey(1),
                                    !.status = "succeeded", !.snapshot = {content}]]
             /\ snapshots = {content}
    BY DEF Init
  <2>2. [day |-> day, mode |-> "historical", memory |-> {}].day = day
    OBVIOUS
  <2> QED
    BY <2>1, <2>2
<1> DEFINE first == [Absent EXCEPT !.day = content.day, !.batch = OwnKey(1),
                                   !.status = "succeeded", !.snapshot = {content}]
<1>2. /\ first.verdicts = <<>> /\ first.snapshot = {content} /\ first.matured = {}
      /\ Absent.verdicts = <<>> /\ Absent.snapshot = {} /\ Absent.matured = {}
  BY DEF Absent
<1>3. \A r \in Runs : ledger[r] = first \/ ledger[r] = Absent
  BY <1>1
<1> HIDE DEF first
<1>4. Proper(first) /\ Proper(Absent)
  <2>1. <<>> \in Seq([mode : {"live", "retrospective"}, status : Findings])
    OBVIOUS
  <2> QED
    BY <1>2, <2>1 DEF Proper
<1> QED
  BY <1>3, <1>4 DEF VInv

LEMMA InductiveProper == ASSUME RowsAssumption, IInv, VInv, [Next]_ledgerVars PROVE VInv'
<1>1. CASE UNCHANGED ledgerVars
  BY <1>1 DEF ledgerVars, VInv, Proper, Findings
<1> QED
  BY <1>1, ProperLife, ProperNew DEF Next

LEMMA ProperIs == ASSUME IInv, VInv PROVE TypeOK
<1>1. DOMAIN ledger = Runs
  BY DEF IInv, Shape
<1>2. ASSUME NEW r \in Created
      PROVE  /\ ledger[r].status \in {"waiting", "queued", "admitted", "succeeded", "failed"}
             /\ Cardinality(ledger[r].snapshot) <= 1
             /\ \A i, j \in DOMAIN ledger[r].verdicts :
                   ledger[r].verdicts[i] = ledger[r].verdicts[j] => i = j
             /\ ledger[r].matured \subseteq Horizons
  <2>0. r \in Runs /\ ledger[r].status # "absent"
    BY DEF Created, Present
  <2>1. Proper(ledger[r]) /\ ledger[r].status \in Statuses
    <3>1. ledger[r].status \in Statuses \cup {"absent"}
      BY <2>0 DEF IInv, Shape
    <3> QED
      BY <2>0, <3>1 DEF VInv
  <2>2. \A content : Cardinality({content}) = 1
    BY FS_Singleton
  <2>3. Cardinality({}) = 0
    BY FS_EmptySet
  <2>4. Cardinality(ledger[r].snapshot) <= 1
    <3>1. ledger[r].snapshot = {} \/ \E content : ledger[r].snapshot = {content}
      BY <2>1 DEF Proper
    <3>2. CASE ledger[r].snapshot = {}
      BY <2>3, <3>2
    <3>3. ASSUME NEW content, ledger[r].snapshot = {content}
          PROVE  Cardinality(ledger[r].snapshot) <= 1
      <4>1. Cardinality(ledger[r].snapshot) = 1
        BY <2>2, <3>3
      <4> QED
        BY <4>1
    <3> QED
      BY <3>1, <3>2, <3>3
  <2> QED
    BY <2>1, <2>4 DEF Proper, Statuses
<1> QED
  BY <1>1, <1>2 DEF TypeOK

\* Whatever is audited, admitted, validated, created and deleted: a run keeps every
\* verdict once, is pinned to one snapshot at most, and is validated for horizons only.
THEOREM RowsAreProper == ASSUME RowsAssumption PROVE Spec => []TypeOK
<1>1. Init => IInv /\ VInv
  BY InitInv, InitProper
<1>2. IInv /\ VInv /\ [Next]_ledgerVars => IInv' /\ VInv'
  BY Inductive, InductiveProper
<1>3. IInv /\ VInv => TypeOK
  BY ProperIs
<1> QED
  BY <1>1, <1>2, <1>3, PTL DEF Spec

-----------------------------------------------------------------------------
(* What a memory holds *)

\* Days, sessions and the limit of a memory are numbers.
NumbersAssumption ==
    /\ AnalysisDays \subseteq Nat
    /\ Horizons \subseteq Nat
    /\ MemoryLimit \in Nat

\* The batch of a run says where it comes from.
Origins ==
    \A r \in Runs :
        \/ /\ ledger[r].retryOf = 0 /\ ledger[r].cleanOf = 0
           /\ Present(r) => ledger[r].batch = OwnKey(r)
        \/ /\ ledger[r].retryOf \in Created /\ ledger[r].cleanOf = 0
           /\ Present(r) /\ ledger[r].batch = ledger[ledger[r].retryOf].batch
        \/ /\ ledger[r].retryOf = 0 /\ ledger[r].cleanOf \in Created
           /\ Present(r) /\ ledger[r].batch = CleanKey(ledger[r].cleanOf)

\* A retry is later than what it retries: there is a numbering that says so.
Ranked ==
    \E rank \in [Runs -> Nat] :
        \A r \in Created : ledger[r].retryOf # 0 => rank[ledger[r].retryOf] < rank[r]

DaysAreKnown == \A r \in Created : ledger[r].day \in AnalysisDays

ModesAreKept == \A b \in batches : b.key[1] = "clean" => b.mode = "independent"

\* A memory for a day.
Reaches(memory, day) ==
    /\ \A e, f \in memory : e.exit < day /\ (e.run = f.run => e = f)
    /\ Cardinality(memory) <= MemoryLimit

PinnedWell ==
    \A r \in Created : \A c \in ledger[r].snapshot :
        /\ Reaches(c.memory, ledger[r].day)
        /\ ledger[r].batch[1] = "clean" => c.memory = {}

MInv == Origins /\ Ranked /\ DaysAreKnown /\ ModesAreKept /\ PinnedWell

LEMMA NoMemory == ASSUME NumbersAssumption, NEW day PROVE Reaches({}, day)
BY FS_EmptySet DEF Reaches, NumbersAssumption

\* Of the candidates with one run the longest is taken, and of those no more than
\* the limit.
LEMMA MemoryReaches ==
    ASSUME RowsAssumption, NumbersAssumption, DaysAreKnown, NEW day \in AnalysisDays
    PROVE  Reaches(Memory(day), day)
<1> DEFINE eligible == {c \in Candidates(day) : Exit(c.run, c.horizon) < day}
           longest == {c \in eligible : \A d \in eligible : d.run = c.run => ~Later(d, c)}
           above(c) == {d \in longest : Later(d, c)}
           chosen == {c \in longest : Cardinality(above(c)) < MemoryLimit}
           Entry(c) == [run |-> c.run, horizon |-> c.horizon, exit |-> Exit(c.run, c.horizon)]
<1>1. Memory(day) = {Entry(c) : c \in chosen}
  BY DEF Memory
<1>2. \A c \in longest : /\ c.run \in Runs /\ c.run \in Nat
                          /\ c.horizon \in Horizons /\ c.horizon \in Nat
                          /\ c = [run |-> c.run, horizon |-> c.horizon]
                          /\ ledger[c.run].day \in Nat
                          /\ c \in eligible
                          /\ Exit(c.run, c.horizon) < day
  <2>1. \A c \in longest : /\ c \in [run : Runs, horizon : Horizons] /\ Succeeded(c.run)
                            /\ c \in eligible /\ Exit(c.run, c.horizon) < day
    BY DEF Candidates
  <2>2. ASSUME NEW c \in [run : Runs, horizon : Horizons], Succeeded(c.run)
        PROVE  /\ c.run \in Runs /\ c.run \in Nat
               /\ c.horizon \in Horizons /\ c.horizon \in Nat
               /\ c = [run |-> c.run, horizon |-> c.horizon]
               /\ ledger[c.run].day \in Nat
    <3>1. /\ c.run \in Runs /\ c.horizon \in Horizons
          /\ c = [run |-> c.run, horizon |-> c.horizon]
      OBVIOUS
    <3>2. c.run \in Nat /\ c.horizon \in Nat
      <4>1. Runs \subseteq Nat /\ Horizons \subseteq Nat
        BY DEF Runs, NumbersAssumption, RowsAssumption
      <4> QED
        BY <3>1, <4>1
    <3>3. c.run \in Created
      BY <2>2, <3>1 DEF Succeeded, Created, Present
    <3>4. ledger[c.run].day \in Nat
      BY <3>3 DEF DaysAreKnown, NumbersAssumption
    <3> QED
      BY <3>1, <3>2, <3>4
  <2> QED
    BY <2>1, <2>2
<1>3. \A c, d \in longest : c.run = d.run => c = d
  <2> SUFFICES ASSUME NEW c \in longest, NEW d \in longest, c.run = d.run PROVE c = d
    OBVIOUS
  <2>1. ~Later(c, d) /\ ~Later(d, c)
    BY <1>2
  <2>2. c.horizon = d.horizon
    BY <1>2, <2>1 DEF Later
  <2> QED
    BY <1>2, <2>2
<1>4. \A c, d \in longest : c = d \/ Later(c, d) \/ Later(d, c)
  <2> SUFFICES ASSUME NEW c \in longest, NEW d \in longest, c.run # d.run
               PROVE  Later(c, d) \/ Later(d, c)
    BY <1>3
  <2> QED
    BY <1>2 DEF Later
<1>5. IsFiniteSet(longest)
  <2> DEFINE f == [c \in longest |-> c.run]
  <2>1. IsFiniteSet(Runs)
    BY FS_Interval DEF Runs, RowsAssumption
  <2>2. f \in Injection(longest, Runs)
    BY <1>2, <1>3 DEF Injection, IsInjective
  <2> QED
    BY <2>1, <2>2, FS_Injection DEF ExistsInjection
<1> HIDE DEF longest
<1>6. Cardinality(Memory(day)) <= MemoryLimit
  <2>1. IsFiniteSet(chosen)
    BY <1>5, FS_Subset
  <2>2. Cardinality(Memory(day)) <= Cardinality(chosen) /\ Cardinality(Memory(day)) \in Nat
    <3> DEFINE f == [c \in chosen |-> Entry(c)]
    <3> HIDE DEF chosen, Entry
    <3>1. f \in Surjection(chosen, Memory(day))
      BY <1>1 DEF Surjection
    <3>2. IsFiniteSet(Memory(day)) /\ Cardinality(Memory(day)) <= Cardinality(chosen)
      <4> HIDE DEF f
      <4> QED
        BY <2>1, <3>1, FS_Surjection
    <3> QED
      BY <3>2, FS_CardinalityType
  <2>3. CASE chosen = {}
    <3>1. Cardinality(chosen) = 0
      BY <2>3, FS_EmptySet
    <3> HIDE DEF chosen
    <3> QED
      BY <2>2, <3>1 DEF NumbersAssumption
  <2>4. CASE chosen # {}
    <3>1. PICK m \in chosen : \A c \in chosen : c = m \/ Later(c, m)
      <4> DEFINE days == {ledger[c.run].day : c \in chosen}
      <4>1. PICK x \in days : \A y \in days : x <= y
        <5>1. days \in SUBSET Nat /\ days # {}
          BY <1>2, <2>4
        <5> HIDE DEF days
        <5> QED
          BY <5>1, LeastOf
      <4> DEFINE first == {c \in chosen : ledger[c.run].day = x}
                 runs == {c.run : c \in first}
      <4>2. PICK z \in runs : \A y \in runs : z <= y
        <5>1. runs \in SUBSET Nat
          BY <1>2
        <5>2. runs # {}
          BY <4>1
        <5> HIDE DEF runs
        <5> QED
          BY <5>1, <5>2, LeastOf
      <4>3. PICK m \in first : m.run = z
        BY <4>2
      <4>4. ASSUME NEW c \in chosen, c # m PROVE Later(c, m)
        <5>1. c \in longest /\ m \in longest /\ c.run # m.run
          BY <1>3, <4>4
        <5>2. CASE c \in first
          <6>1. m.run <= c.run
            BY <4>2, <4>3, <5>2
          <6> QED
            BY <1>2, <5>1, <5>2, <6>1 DEF Later
        <5>3. CASE c \notin first
          <6>1. x <= ledger[c.run].day /\ ledger[c.run].day # x /\ ledger[m.run].day = x
            BY <4>1, <5>3
          <6> QED
            BY <1>2, <5>1, <6>1 DEF Later
        <5> QED
          BY <5>2, <5>3
      <4> QED
        BY <4>3, <4>4
    <3>2. chosen \subseteq above(m) \cup {m}
      BY <3>1
    <3>3. IsFiniteSet(above(m))
      BY <1>5, FS_Subset
    <3>4. /\ IsFiniteSet(above(m) \cup {m}) /\ Cardinality(above(m)) \in Nat
          /\ Cardinality(above(m) \cup {m}) <= Cardinality(above(m)) + 1
      <4> HIDE DEF above
      <4>1. /\ IsFiniteSet(above(m) \cup {m})
            /\ Cardinality(above(m) \cup {m}) = IF m \in above(m) THEN Cardinality(above(m))
                                                  ELSE Cardinality(above(m)) + 1
        BY <3>3, FS_AddElement
      <4>2. Cardinality(above(m)) \in Nat
        BY <3>3, FS_CardinalityType
      <4> QED
        BY <4>1, <4>2
    <3>5. Cardinality(chosen) <= Cardinality(above(m) \cup {m})
      <4> HIDE DEF above, chosen
      <4> QED
        BY <3>2, <3>4, FS_Subset
    <3>6. Cardinality(above(m)) < MemoryLimit
      OBVIOUS
    <3>7. Cardinality(chosen) \in Nat /\ Cardinality(above(m) \cup {m}) \in Nat
      <4> HIDE DEF above, chosen
      <4> QED
        BY <2>1, <3>4, FS_CardinalityType
    <3> HIDE DEF above, chosen
    <3> QED
      BY <2>2, <3>4, <3>5, <3>6, <3>7 DEF NumbersAssumption
  <2> QED
    BY <2>3, <2>4
<1>7. ASSUME NEW e \in Memory(day), NEW f \in Memory(day)
      PROVE  e.exit < day /\ (e.run = f.run => e = f)
  <2>1. PICK c \in longest : e = Entry(c)
    BY <1>1, <1>7
  <2>2. PICK d \in longest : f = Entry(d)
    BY <1>1, <1>7
  <2>3. e.run = c.run /\ f.run = d.run /\ e.exit = Exit(c.run, c.horizon)
    BY <2>1, <2>2
  <2> HIDE DEF Entry
  <2> QED
    BY <1>2, <1>3, <2>1, <2>2, <2>3
<1> QED
  BY <1>6, <1>7 DEF Reaches

LEMMA InitMemory == ASSUME RowsAssumption, NumbersAssumption, Init PROVE MInv
<1>1. PICK day \in AnalysisDays :
        LET content == [day |-> day, mode |-> "historical", memory |-> {}]
        IN ledger = [r \in Runs |->
                       IF r # 1 THEN Absent
                       ELSE [Absent EXCEPT !.day = day, !.batch = OwnKey(1),
                               !.status = "succeeded", !.snapshot = {content}]]
  BY DEF Init
<1> DEFINE content == [day |-> day, mode |-> "historical", memory |-> {}]
           first == [Absent EXCEPT !.day = day, !.batch = OwnKey(1),
                       !.status = "succeeded", !.snapshot = {content}]
<1>2. /\ first.day = day /\ first.status = "succeeded" /\ first.retryOf = 0
      /\ first.cleanOf = 0 /\ first.batch = OwnKey(1) /\ first.snapshot = {content}
  BY DEF Absent
<1>3. Absent.status = "absent" /\ Absent.retryOf = 0 /\ Absent.cleanOf = 0
  BY DEF Absent
<1>4. \A r \in Runs : ledger[r] = IF r # 1 THEN Absent ELSE first
  BY <1>1
<1>5. content.memory = {}
  OBVIOUS
<1> HIDE DEF first, content
<1>6. Created = {1}
  BY <1>2, <1>3, <1>4, RunsAre DEF Created, Present
<1>7. Origins /\ DaysAreKnown
  BY <1>2, <1>3, <1>4, <1>6, RunsAre DEF Origins, DaysAreKnown, Present
<1>8. Ranked
  <2>1. [r \in Runs |-> 0] \in [Runs -> Nat]
    OBVIOUS
  <2>2. \A r \in Created : ledger[r].retryOf = 0
    BY <1>2, <1>4, <1>6, RunsAre
  <2> QED
    BY <2>1, <2>2 DEF Ranked
<1>9. ModesAreKept
  <2> DEFINE batch == [key |-> OwnKey(1), mode |-> "historical"]
  <2>1. batch.key[1] = "own" /\ batches = {batch}
    BY DEF Init, OwnKey
  <2> HIDE DEF batch
  <2> QED
    BY <2>1 DEF ModesAreKept
<1>10. PinnedWell
  BY <1>2, <1>4, <1>5, <1>6, RunsAre, NoMemory DEF PinnedWell, OwnKey
<1> QED
  BY <1>7, <1>8, <1>9, <1>10 DEF MInv

\* A step that leaves where a run comes from, and what it has pinned or pins what it
\* may remember.
LEMMA InPlaceMemory ==
    ASSUME IInv, MInv, NEW r \in Runs, Present(r), NEW row, ledger' = [ledger EXCEPT ![r] = row],
           row.status # "absent", SameOrigin(row, ledger[r]), batches' = batches,
           \A c \in row.snapshot :
              \/ c \in ledger[r].snapshot
              \/ /\ Reaches(c.memory, ledger[r].day)
                 /\ ledger[r].batch[1] = "clean" => c.memory = {}
    PROVE  MInv'
<1>1. \A q \in Runs : ledger'[q] = IF q = r THEN row ELSE ledger[q]
  BY DEF IInv, Shape
<1>2. Created' = Created /\ \A q \in Runs : Present(q)' <=> Present(q)
  BY <1>1 DEF Created, Present
<1>3. \A q \in Runs : /\ ledger'[q].retryOf = ledger[q].retryOf
                      /\ ledger'[q].cleanOf = ledger[q].cleanOf
                      /\ ledger'[q].batch = ledger[q].batch
                      /\ ledger'[q].day = ledger[q].day
  BY <1>1 DEF SameOrigin
<1>4. Created \subseteq Runs
  BY DEF Created
<1>5. Origins'
  BY <1>2, <1>3, <1>4 DEF MInv, Origins
<1>6. Ranked' /\ DaysAreKnown'
  BY <1>2, <1>3, <1>4 DEF MInv, Ranked, DaysAreKnown
<1>7. ModesAreKept'
  BY DEF MInv, ModesAreKept
<1>8. PinnedWell'
  <2> SUFFICES ASSUME NEW q \in Created, NEW c \in ledger'[q].snapshot
               PROVE  /\ Reaches(c.memory, ledger[q].day)
                      /\ ledger[q].batch[1] = "clean" => c.memory = {}
    BY <1>2, <1>3, <1>4 DEF PinnedWell, Reaches
  <2>1. CASE c \in ledger[q].snapshot
    BY <2>1 DEF MInv, PinnedWell
  <2>2. CASE c \notin ledger[q].snapshot
    BY <1>1, <1>4, <2>2
  <2> QED
    BY <2>1, <2>2
<1> QED
  BY <1>5, <1>6, <1>7, <1>8 DEF MInv

LEMMA LifeMemory ==
    ASSUME IInv, MInv, NEW r \in Runs,
           \/ AuditOne(r) \/ DataReady(r) \/ Succeed(r) \/ Fail(r)
           \/ \E h \in Horizons : Mature(r, h)
    PROVE  MInv'
<1>1. PICK row : /\ Present(r) /\ UNCHANGED <<batches, snapshots>>
                 /\ ledger' = [ledger EXCEPT ![r] = row] /\ row.status \in Statuses
                 /\ SameOrigin(row, ledger[r]) /\ row.snapshot = ledger[r].snapshot
  BY LifeIs
<1> QED
  BY <1>1, InPlaceMemory DEF Statuses

\* The batch of a clean reassessment is of independent runs.
LEMMA CleanIsIndependent ==
    ASSUME IInv, MInv, NEW r \in Created, ledger[r].batch[1] = "clean"
    PROVE  ModeOf(r) = "independent"
<1>1. \E b \in batches : b.key = ledger[r].batch
  BY DEF IInv, NothingIsLeft
<1> DEFINE b == CHOOSE x \in batches : x.key = ledger[r].batch
<1>2. b \in batches /\ b.key = ledger[r].batch
  BY <1>1
<1>3. ModeOf(r) = b.mode
  BY DEF ModeOf
<1> HIDE DEF b
<1> QED
  BY <1>2, <1>3 DEF MInv, ModesAreKept

LEMMA AdmitMemory ==
    ASSUME RowsAssumption, NumbersAssumption, IInv, MInv, NEW r \in Runs, Admit(r)
    PROVE  MInv'
<1> DEFINE content == [day |-> ledger[r].day, mode |-> ModeOf(r),
                       memory |-> IF ModeOf(r) = "independent" THEN {}
                                  ELSE Memory(ledger[r].day)]
           row == [ledger[r] EXCEPT !.status = "admitted", !.snapshot = {content}]
<1>1. /\ ledger' = [ledger EXCEPT ![r].status = "admitted", ![r].snapshot = {content}]
      /\ ledger[r].status = "queued" /\ batches' = batches
  BY DEF Admit
<1>2. ledger = [q \in Runs |-> ledger[q]] /\ IsRow(ledger[r]) /\ Present(r)
  BY <1>1 DEF IInv, Shape, Present
<1>3. row.status = "admitted" /\ SameOrigin(row, ledger[r]) /\ row.snapshot = {content}
  BY <1>2 DEF IsRow, Fields, SameOrigin
<1>4. ledger' = [ledger EXCEPT ![r] = row]
  BY <1>1, <1>2
<1>5. content.memory = IF ModeOf(r) = "independent" THEN {} ELSE Memory(ledger[r].day)
  OBVIOUS
<1> HIDE DEF row, content
<1>6. r \in Created /\ ledger[r].day \in AnalysisDays
  BY <1>2 DEF Created, MInv, DaysAreKnown
<1>7. Reaches(content.memory, ledger[r].day)
  BY <1>5, <1>6, NoMemory, MemoryReaches DEF MInv
<1>8. ledger[r].batch[1] = "clean" => content.memory = {}
  BY <1>5, <1>6, CleanIsIndependent
<1>9. row.status # "absent" /\ \A c \in row.snapshot : c = content
  BY <1>3
<1> QED
  BY <1>1, <1>2, <1>3, <1>4, <1>7, <1>8, <1>9, InPlaceMemory

LEMMA NewMemory ==
    ASSUME RowsAssumption, IInv, MInv, NEW n \in Runs, ~Present(n), NEW row,
           ledger' = [ledger EXCEPT ![n] = row],
           row.status # "absent", row.snapshot = {}, row.day \in AnalysisDays,
           \/ row.retryOf = 0 /\ row.cleanOf = 0 /\ row.batch = OwnKey(n)
           \/ /\ row.retryOf \in Created /\ row.cleanOf = 0
              /\ row.batch = ledger[row.retryOf].batch
           \/ /\ row.retryOf = 0 /\ row.cleanOf \in Created
              /\ row.batch = CleanKey(row.cleanOf),
           \A b \in batches' \ batches : b.key[1] = "clean" => b.mode = "independent"
    PROVE  MInv'
<1>1. \A q \in Runs : ledger'[q] = IF q = n THEN row ELSE ledger[q]
  BY DEF IInv, Shape
<1>2. Created' = Created \cup {n} /\ n \notin Created /\ Created \subseteq Runs
  BY <1>1 DEF Created, Present
<1>3. \A q \in Created : ledger'[q] = ledger[q]
  BY <1>1, <1>2
<1>4. \A q \in Runs : ledger[q].retryOf \in Created \cup {0}
  BY DEF MInv, Origins
<1>5. 0 \notin Created
  BY <1>2, RunsAre
<1>6. Origins'
  <2>1. ASSUME NEW q \in Runs
        PROVE  \/ /\ ledger'[q].retryOf = 0 /\ ledger'[q].cleanOf = 0
                  /\ Present(q)' => ledger'[q].batch = OwnKey(q)
               \/ /\ ledger'[q].retryOf \in Created' /\ ledger'[q].cleanOf = 0
                  /\ Present(q)' /\ ledger'[q].batch = ledger'[ledger'[q].retryOf].batch
               \/ /\ ledger'[q].retryOf = 0 /\ ledger'[q].cleanOf \in Created'
                  /\ Present(q)' /\ ledger'[q].batch = CleanKey(ledger'[q].cleanOf)
    <3>1. CASE q = n
      BY <1>1, <1>2, <1>3, <3>1 DEF Present
    <3>2. CASE q # n
      <4>1. ledger'[q] = ledger[q] /\ (Present(q)' <=> Present(q))
        BY <1>1, <3>2 DEF Present
      <4>2. ledger[q].retryOf \in Created => ledger'[ledger[q].retryOf] = ledger[ledger[q].retryOf]
        BY <1>3
      <4> QED
        BY <1>2, <4>1, <4>2 DEF MInv, Origins
    <3> QED
      BY <3>1, <3>2
  <2> QED
    BY <2>1 DEF Origins
<1>7. Ranked'
  <2>1. PICK rank \in [Runs -> Nat] :
           \A r \in Created : ledger[r].retryOf # 0 => rank[ledger[r].retryOf] < rank[r]
    BY DEF MInv, Ranked
  <2> DEFINE high == IF row.retryOf = 0 THEN 0 ELSE rank[row.retryOf] + 1
             rank2 == [rank EXCEPT ![n] = high]
  <2>2. row.retryOf = 0 \/ (row.retryOf \in Created /\ row.retryOf # n)
    BY <1>2
  <2>3. high \in Nat
    BY <1>2, <2>2
  <2>4. rank2 \in [Runs -> Nat] /\ rank2[n] = high
        /\ \A r \in Runs : r # n => rank2[r] = rank[r]
    BY <2>3
  <2>5. ASSUME NEW r \in Created', ledger'[r].retryOf # 0
        PROVE  rank2[ledger'[r].retryOf] < rank2[r]
    <3>1. CASE r = n
      <4>1. ledger'[r].retryOf = row.retryOf /\ row.retryOf \in Runs /\ row.retryOf # n
        BY <1>1, <1>2, <2>2, <2>5, <3>1
      <4>2. rank2[row.retryOf] = rank[row.retryOf] /\ high = rank[row.retryOf] + 1
            /\ rank[row.retryOf] \in Nat
        BY <1>1, <2>4, <2>5, <3>1, <4>1
      <4> QED
        BY <2>4, <3>1, <4>1, <4>2
    <3>2. CASE r # n
      <4>1. r \in Created /\ ledger'[r] = ledger[r] /\ ledger[r].retryOf \in Created
        BY <1>2, <1>3, <1>4, <2>5, <3>2
      <4> QED
        BY <1>2, <2>1, <2>4, <2>5, <4>1
    <3> QED
      BY <3>1, <3>2
  <2> HIDE DEF rank2
  <2> QED
    BY <2>4, <2>5 DEF Ranked
<1>8. DaysAreKnown'
  BY <1>1, <1>2, <1>3 DEF MInv, DaysAreKnown
<1>9. ModesAreKept'
  BY DEF MInv, ModesAreKept
<1>10. PinnedWell'
  <2>1. ledger'[n].snapshot = {}
    BY <1>1
  <2> QED
    BY <1>2, <1>3, <2>1 DEF MInv, PinnedWell, Reaches
<1> QED
  BY <1>6, <1>7, <1>8, <1>9, <1>10 DEF MInv

LEMMA CreateMemory ==
    ASSUME RowsAssumption, IInv, MInv,
           Submit \/ \E r \in Runs : CreateRetry(r) \/ CleanReassess(r)
    PROVE  MInv'
<1>1. Fresh # {}
  BY DEF Submit, CreateRetry, CleanReassess
<1> DEFINE n == NextFresh
<1>2. n \in Runs /\ ~Present(n)
  BY <1>1, FreshIs
<1> HIDE DEF n
<1>3. \A r \in Runs : Succeeded(r) \/ ledger[r].status = "failed" =>
                       r \in Created /\ ledger[r].day \in AnalysisDays
  BY DEF Succeeded, Created, Present, MInv, DaysAreKnown
<1>4. CASE Submit
  <2>1. PICK day \in AnalysisDays, s \in {"queued", "waiting"} :
           /\ ledger' = [ledger EXCEPT ![n] = [Absent EXCEPT !.status = s, !.day = day,
                                                             !.batch = OwnKey(n)]]
           /\ batches' = batches \cup {[key |-> OwnKey(n), mode |-> "historical"]}
    BY <1>4 DEF Submit, n
  <2> DEFINE row == [Absent EXCEPT !.status = s, !.day = day, !.batch = OwnKey(n)]
  <2>2. /\ row.status = s /\ row.snapshot = {} /\ row.batch = OwnKey(n) /\ row.day = day
        /\ row.retryOf = 0 /\ row.cleanOf = 0
    BY DEF Absent
  <2>3. \A b \in batches' \ batches : b.key[1] = "clean" => b.mode = "independent"
    <3> DEFINE batch == [key |-> OwnKey(n), mode |-> "historical"]
    <3>1. batch.key[1] = "own" /\ batches' = batches \cup {batch}
      BY <2>1 DEF OwnKey
    <3> HIDE DEF batch
    <3> QED
      BY <3>1
  <2>4. ledger' = [ledger EXCEPT ![n] = row]
    BY <2>1
  <2> HIDE DEF row
  <2> QED
    BY <1>2, <2>2, <2>3, <2>4, NewMemory
<1>5. ASSUME NEW r \in Runs, CreateRetry(r) PROVE MInv'
  <2>1. PICK s \in {"queued", "waiting"} :
           ledger' = [ledger EXCEPT ![n] = [Absent EXCEPT !.status = s, !.day = ledger[r].day,
                                              !.retryOf = r, !.batch = ledger[r].batch]]
    BY <1>5 DEF CreateRetry, n
  <2> DEFINE row == [Absent EXCEPT !.status = s, !.day = ledger[r].day, !.retryOf = r,
                                   !.batch = ledger[r].batch]
  <2>2. /\ row.status = s /\ row.snapshot = {} /\ row.batch = ledger[r].batch
        /\ row.retryOf = r /\ row.cleanOf = 0 /\ row.day = ledger[r].day
    BY DEF Absent
  <2>3. r \in Created /\ ledger[r].day \in AnalysisDays /\ batches' = batches
    BY <1>3, <1>5 DEF CreateRetry
  <2>4. ledger' = [ledger EXCEPT ![n] = row]
    BY <2>1
  <2> HIDE DEF row
  <2> QED
    BY <1>2, <2>2, <2>3, <2>4, NewMemory
<1>6. ASSUME NEW r \in Runs, CleanReassess(r) PROVE MInv'
  <2>1. PICK s \in {"queued", "waiting"} :
           ledger' = [ledger EXCEPT ![n] = [Absent EXCEPT !.status = s, !.day = ledger[r].day,
                                              !.cleanOf = r, !.batch = CleanKey(r)]]
    BY <1>6 DEF CleanReassess, n
  <2> DEFINE row == [Absent EXCEPT !.status = s, !.day = ledger[r].day, !.cleanOf = r,
                                   !.batch = CleanKey(r)]
  <2>2. /\ row.status = s /\ row.snapshot = {} /\ row.batch = CleanKey(r)
        /\ row.retryOf = 0 /\ row.cleanOf = r /\ row.day = ledger[r].day
    BY DEF Absent
  <2>3. r \in Created /\ ledger[r].day \in AnalysisDays
    BY <1>3, <1>6 DEF CleanReassess
  <2>4. \A b \in batches' \ batches : b.key[1] = "clean" => b.mode = "independent"
    <3> DEFINE batch == [key |-> CleanKey(r), mode |-> "independent"]
    <3>1. batch.mode = "independent" /\ batches' = batches \cup {batch}
      BY <1>6 DEF CleanReassess
    <3> HIDE DEF batch
    <3> QED
      BY <3>1
  <2>5. ledger' = [ledger EXCEPT ![n] = row]
    BY <2>1
  <2> HIDE DEF row
  <2> QED
    BY <1>2, <2>2, <2>3, <2>4, <2>5, NewMemory
<1> QED
  BY <1>4, <1>5, <1>6

\* What is deleted is nothing that another run comes from.
LEMMA DeleteMemory == ASSUME RowsAssumption, IInv, MInv, NEW r \in Runs, Delete(r) PROVE MInv'
<1>1. /\ ledger' = [ledger EXCEPT ![r] = Absent] /\ ledger = [q \in Runs |-> ledger[q]]
      /\ batches' \subseteq batches
      /\ \A d \in Created : ledger[d].retryOf # r /\ ledger[d].cleanOf # r
  BY DEF Delete, DeleteGraph, DependentRuns, IInv, Shape
<1>2. \A q \in Runs : ledger'[q] = IF q = r THEN Absent ELSE ledger[q]
  BY <1>1
<1>3. Absent.status = "absent" /\ Absent.retryOf = 0 /\ Absent.cleanOf = 0
  BY DEF Absent
<1>4. Created' = Created \ {r} /\ \A q \in Created' : ledger'[q] = ledger[q]
  BY <1>2, <1>3 DEF Created, Present
<1>5. Origins'
  <2>1. ASSUME NEW q \in Runs
        PROVE  \/ /\ ledger'[q].retryOf = 0 /\ ledger'[q].cleanOf = 0
                  /\ Present(q)' => ledger'[q].batch = OwnKey(q)
               \/ /\ ledger'[q].retryOf \in Created' /\ ledger'[q].cleanOf = 0
                  /\ Present(q)' /\ ledger'[q].batch = ledger'[ledger'[q].retryOf].batch
               \/ /\ ledger'[q].retryOf = 0 /\ ledger'[q].cleanOf \in Created'
                  /\ Present(q)' /\ ledger'[q].batch = CleanKey(ledger'[q].cleanOf)
    <3>1. CASE q = r
      BY <1>2, <1>3, <3>1 DEF Present
    <3>2. CASE q # r /\ Present(q)
      <4>1. /\ ledger'[q] = ledger[q] /\ q \in Created /\ Present(q)'
            /\ ledger[q].retryOf # r /\ ledger[q].cleanOf # r
        BY <1>1, <1>2, <3>2 DEF Present, Created
      <4>2. ledger[q].retryOf \in Created =>
              ledger'[ledger[q].retryOf] = ledger[ledger[q].retryOf]
        BY <1>4, <4>1
      <4> QED
        <5>1. \/ /\ ledger[q].retryOf = 0 /\ ledger[q].cleanOf = 0
                 /\ ledger[q].batch = OwnKey(q)
              \/ /\ ledger[q].retryOf \in Created' /\ ledger[q].cleanOf = 0
                 /\ ledger[q].batch = ledger'[ledger[q].retryOf].batch
              \/ /\ ledger[q].retryOf = 0 /\ ledger[q].cleanOf \in Created'
                 /\ ledger[q].batch = CleanKey(ledger[q].cleanOf)
          BY <1>4, <3>2, <4>1, <4>2 DEF MInv, Origins
        <5> QED
          BY <4>1, <5>1
    <3>3. CASE q # r /\ ~Present(q)
      <4>1. ledger'[q] = ledger[q] /\ ~Present(q)'
        BY <1>2, <3>3 DEF Present
      <4> QED
        BY <3>3, <4>1 DEF MInv, Origins
    <3> QED
      BY <3>1, <3>2, <3>3
  <2> QED
    BY <2>1 DEF Origins
<1>6. Ranked' /\ DaysAreKnown'
  BY <1>4 DEF MInv, Ranked, DaysAreKnown
<1>7. ModesAreKept'
  BY <1>1 DEF MInv, ModesAreKept
<1>8. PinnedWell'
  BY <1>4 DEF MInv, PinnedWell, Reaches
<1> QED
  BY <1>5, <1>6, <1>7, <1>8 DEF MInv

LEMMA InductiveMemory ==
    ASSUME RowsAssumption, NumbersAssumption, IInv, MInv, [Next]_ledgerVars
    PROVE  MInv'
<1>1. CASE UNCHANGED ledgerVars
  BY <1>1 DEF ledgerVars, MInv, Origins, Ranked, DaysAreKnown, ModesAreKept, PinnedWell,
      Reaches, Created, Present
<1> QED
  BY <1>1, LifeMemory, AdmitMemory, CreateMemory, DeleteMemory DEF Next

\* The runs that are clean are those with the batch of a clean reassessment: what a
\* retry descends from is found at the end of a finite chain.
LEMMA CleanIs ==
    ASSUME RowsAssumption, MInv, NEW r \in Created, IsClean[r]
    PROVE  ledger[r].batch[1] = "clean"
<1> DEFINE Unfolds(f) ==
        f = [q \in Runs |-> ledger[q].cleanOf # 0 \/
                              (ledger[q].retryOf # 0 /\ f[ledger[q].retryOf])]
<1>1. Created \subseteq Runs /\ 0 \notin Runs
  BY RunsAre DEF Created
<1>2. \A q \in Runs : OwnKey(q)[1] = "own" /\ CleanKey(q)[1] = "clean"
  BY DEF OwnKey, CleanKey
<1>3. Unfolds(IsClean)
  <2> DEFINE f == [q \in Runs |-> q \in Created /\ ledger[q].batch[1] = "clean"]
  <2>1. \A q \in Runs : f[q] <=> (ledger[q].cleanOf # 0 \/
                              (ledger[q].retryOf # 0 /\ f[ledger[q].retryOf]))
    <3> SUFFICES ASSUME NEW q \in Runs
                 PROVE  f[q] <=> (ledger[q].cleanOf # 0 \/
                              (ledger[q].retryOf # 0 /\ f[ledger[q].retryOf]))
      OBVIOUS
    <3>1. CASE ledger[q].retryOf = 0 /\ ledger[q].cleanOf = 0
      <4>1. 0 \notin Created /\ (q \in Created => ledger[q].batch = OwnKey(q))
        BY <1>1, <3>1 DEF MInv, Origins, Created
      <4>2. "own" # "clean"
        OBVIOUS
      <4> QED
        BY <1>1, <1>2, <3>1, <4>1, <4>2
    <3>2. CASE ledger[q].retryOf # 0
      BY <1>1, <3>2 DEF MInv, Origins, Created
    <3>3. CASE ledger[q].cleanOf # 0
      BY <1>1, <1>2, <3>3 DEF MInv, Origins, Created
    <3> QED
      BY <3>1, <3>2, <3>3
  <2>2. Unfolds(f)
    BY <2>1
  <2>3. IsClean = CHOOSE g : Unfolds(g)
    BY DEF IsClean
  <2> HIDE DEF f, Unfolds
  <2> QED
    BY <2>2, <2>3
<1>4. PICK rank \in [Runs -> Nat] :
         \A q \in Created : ledger[q].retryOf # 0 => rank[ledger[q].retryOf] < rank[q]
  BY DEF MInv, Ranked
<1> DEFINE bad == {q \in Created : IsClean[q] /\ ledger[q].batch[1] # "clean"}
           ranks == {rank[q] : q \in bad}
<1>5. bad = {}
  <2> SUFFICES ASSUME bad # {} PROVE FALSE
    OBVIOUS
  <2>1. PICK least \in ranks : \A y \in ranks : least <= y
    <3>1. ranks \in SUBSET Nat /\ ranks # {}
      BY <1>1
    <3> HIDE DEF ranks
    <3> QED
      BY <3>1, LeastOf
  <2>2. PICK q \in bad : rank[q] = least
    BY <2>1
  <2>3. IsClean[q] => ledger[q].cleanOf # 0 \/
                      (ledger[q].retryOf # 0 /\ IsClean[ledger[q].retryOf])
    BY <1>1, <1>3
  <2>4. ledger[q].cleanOf = 0
    BY <1>1, <1>2 DEF MInv, Origins
  <2>5. /\ ledger[q].retryOf # 0 /\ ledger[q].retryOf \in bad
        /\ rank[ledger[q].retryOf] < rank[q]
    BY <1>1, <1>4, <2>3, <2>4 DEF MInv, Origins
  <2>6. least <= rank[ledger[q].retryOf] /\ least \in Nat /\ rank[ledger[q].retryOf] \in Nat
    BY <1>1, <2>1, <2>5
  <2> QED
    BY <2>2, <2>5, <2>6
<1> QED
  BY <1>5

LEMMA MemoryIs == ASSUME RowsAssumption, MInv PROVE MemoryReachesBack
BY CleanIs DEF MInv, PinnedWell, Reaches, MemoryReachesBack

\* However runs are retried, reassessed, audited and deleted, nothing that a run
\* remembers was still to come on its day, no run is remembered twice, the memory is
\* no longer than its limit, and a clean reassessment has none, nor has a retry of it.
THEOREM MemoryHasEnded ==
    ASSUME RowsAssumption, NumbersAssumption PROVE Spec => []MemoryReachesBack
<1>1. Init => IInv /\ MInv
  BY InitInv, InitMemory
<1>2. IInv /\ MInv /\ [Next]_ledgerVars => IInv' /\ MInv'
  BY Inductive, InductiveMemory
<1>3. MInv => MemoryReachesBack
  BY MemoryIs
<1> QED
  BY <1>1, <1>2, <1>3, PTL DEF Spec
===============================================================================
