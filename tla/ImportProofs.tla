----------------------------- MODULE ImportProofs -----------------------------
(***************************************************************************)
(* What an event import promises.  A row is written by calls, colleagues    *)
(* and time, each on its own reading of it; the invariant says what of a    *)
(* row every such write keeps (RowFits, Moves), that a warning on its way   *)
(* was answered (CallFits), and that a batch more means a file whose        *)
(* request has one (UploadFits).                                            *)
(***************************************************************************)
EXTENDS EventImport, FiniteSetTheorems, SequenceTheorems, WellFoundedInduction, TLAPS

Fields  == {"state", "located", "digest", "override", "requested", "token", "until", "tries", "warned"}
BatchStates == {"cancelled", "failed", "completed", "completed_with_skips", "importing", "validating", "ready"}
Imports == [state : BatchStates, request : Nat, pruned : BOOLEAN]
Calls   == [file : Files, request : Nat, batch : Nat]
Uploads == [key : [Files -> Nat], call : Calls \cup {None}, last : Nat, settled : Nat]

\* A row is looked up only under its lease, has a place when it is ready, and overrides only
\* a warning that was answered.
RowFits(o) ==
    /\ DOMAIN o = Fields
    /\ o.located \in BOOLEAN
    /\ o.until = "lease" => o.state = "geocoding"
    /\ o.state \in Final => o.until = "now"
    /\ o.state \in {"ready", "duplicate_possible"} => o.located
    /\ o.override = {} \/ o.override \in o.warned

RowsFit(bs, rs) == \A r \in DOMAIN rs : r \in Nat \X Nat /\ r[1] \in DOMAIN bs /\ RowFits(rs[r])
MadeFits(rs, m) ==
    /\ \A d, e \in m : d.row = e.row => d = e
    /\ {d.row : d \in m} = {r \in DOMAIN rs : rs[r].state = "imported"}
    /\ \A d \in m : ~d.unwarned
Leased(rs) == {r \in DOMAIN rs : rs[r].until = "lease"}
LeasesFit(rs) == IsFiniteSet(DOMAIN rs) /\ Cardinality(Leased(rs)) <= Leases

\* A warning was answered, or the row is settled or gone.
Answered(rs, r, digest) == r \in DOMAIN rs /\ rs[r].state \notin Final => digest \in rs[r].warned

PageFits(bs, p) == p # None => DOMAIN p = {"batch", "view", "selected", "waits"} /\ p.batch \in DOMAIN bs
CallFits(bs, rs, w) ==
    w # None =>
    /\ DOMAIN w = {"step", "batch", "pairs", "token", "todo"} /\ w.batch \in DOMAIN bs
    /\ w.step = "override" => \A p \in w.pairs : Answered(rs, <<w.batch, p.row>>, p.digest)

\* Of each batch an upload was answered, or its request is still the one that the tab keeps for its file.
Having(bs, u) == {f \in Files : u.key[f] # 0 /\ \E b \in DOMAIN bs : bs[b].request = u.key[f]}
UploadFits(bs, u) ==
    /\ u \in Uploads
    /\ \A f \in Files : u.key[f] <= u.last
    /\ \A b \in DOMAIN bs : bs[b].request <= u.last
    /\ u.call # None =>
          /\ u.call \in Calls
          /\ u.call.request = u.key[u.call.file] /\ u.call.request # 0
          /\ u.call.batch # 0 => u.call.batch \in DOMAIN bs
    /\ Len(bs) <= u.settled + Cardinality(Having(bs, u))

\* What a step may do to a row that is settled: see RowsStaySettled.
Settles == \A r \in DOMAIN rows \cap DOMAIN rows' : rows[r].state \in Final => rows'[r] = rows[r]

\* What a step makes of a row
Moves(o, n) ==
    /\ RowFits(n)
    /\ o.state \in Final => n = o
    /\ n.state \notin Final => o.warned \subseteq n.warned
Unleased(o, n) == n.until = "lease" => o.until = "lease"
ImportedAs(o, n) == n.state = "imported" <=> o.state = "imported"

-----------------------------------------------------------------------------
(* The state of a batch *)

StateOf(s, b, rs) ==
    LET states == {rs[r].state : r \in {q \in DOMAIN rs : q[1] = b}} IN
    IF s \in {"failed", "cancelled"} THEN s
    ELSE IF states \subseteq Final THEN IF "skipped" \in states THEN "completed_with_skips" ELSE "completed"
    ELSE IF \E r \in DOMAIN rs : r[1] = b /\ rs[r].requested /\ rs[r].state = "ready" THEN "importing"
    ELSE IF states \cap {"pending", "geocoding"} # {} THEN "validating" ELSE "ready"

\* What a row's batch sees of it
Waits(o) == o.state \in {"pending", "geocoding"}
LooksAs(o, n) ==
    /\ Waits(o) <=> Waits(n)
    /\ ~Waits(o) => n.state = o.state /\ n.requested = o.requested
LooksSame(b, rs, qs) ==
    \A r \in DOMAIN rs \cup DOMAIN qs : r[1] = b => r \in DOMAIN rs /\ r \in DOMAIN qs /\ LooksAs(rs[r], qs[r])

\* What StateOf asks of the rows
Settled(b, rs)  == \A r \in DOMAIN rs : r[1] = b => rs[r].state \in Final
Skips(b, rs)    == \E r \in DOMAIN rs : r[1] = b /\ rs[r].state = "skipped"
Imported(b, rs) == \E r \in DOMAIN rs : r[1] = b /\ rs[r].requested /\ rs[r].state = "ready"
Waiting(b, rs)  == \E r \in DOMAIN rs : r[1] = b /\ Waits(rs[r])

\* Of these the state is made.
StateBy(s, settled, skips, imported, waiting) ==
    IF s \in {"failed", "cancelled"} THEN s
    ELSE IF settled THEN IF skips THEN "completed_with_skips" ELSE "completed"
    ELSE IF imported THEN "importing"
    ELSE IF waiting THEN "validating" ELSE "ready"

LEMMA StateIs ==
  ASSUME NEW s, NEW b, NEW rs
  PROVE  StateOf(s, b, rs) = StateBy(s, Settled(b, rs), Skips(b, rs), Imported(b, rs), Waiting(b, rs))
<1> DEFINE states == {rs[r].state : r \in {q \in DOMAIN rs : q[1] = b}}
<1>1. states \subseteq Final <=> Settled(b, rs)
  BY DEF Settled
<1>2. "skipped" \in states <=> Skips(b, rs)
  BY DEF Skips
<1>3. states \cap {"pending", "geocoding"} # {} <=> Waiting(b, rs)
  BY DEF Waiting, Waits
<1>4. QED
  BY <1>1, <1>2, <1>3, Zenon DEF StateOf, StateBy, Imported

\* The state is read off the rows: made again of its own outcome it is the same.
LEMMA StateAgain ==
  ASSUME NEW s \in BatchStates, NEW b, NEW rs
  PROVE  /\ StateOf(StateOf(s, b, rs), b, rs) = StateOf(s, b, rs)
         /\ StateOf(s, b, rs) \in BatchStates
<1> DEFINE made1 == StateBy(s, Settled(b, rs), Skips(b, rs), Imported(b, rs), Waiting(b, rs))
<1>1. StateBy(made1, Settled(b, rs), Skips(b, rs), Imported(b, rs), Waiting(b, rs)) = made1
  BY DEF StateBy
<1>2. made1 \in BatchStates
  BY DEF StateBy, BatchStates
<1>3. QED
  BY <1>1, <1>2, StateIs

LEMMA StateSame ==
  ASSUME NEW s, NEW b, NEW rs, NEW qs, LooksSame(b, rs, qs)
  PROVE  StateOf(s, b, qs) = StateOf(s, b, rs)
<1>1. Settled(b, rs) <=> Settled(b, qs)
  BY DEF LooksSame, LooksAs, Settled, Waits, Final
<1>2. Skips(b, rs) <=> Skips(b, qs)
  BY DEF LooksSame, LooksAs, Skips, Waits
<1>3. Imported(b, rs) <=> Imported(b, qs)
  BY DEF LooksSame, LooksAs, Imported, Waits
<1>4. Waiting(b, rs) <=> Waiting(b, qs)
  BY DEF LooksSame, LooksAs, Waiting, Waits
<1>5. QED
  BY <1>1, <1>2, <1>3, <1>4, StateIs DEF StateBy

StatesStand(bs, rs) == \A b \in DOMAIN bs : ~bs[b].pruned => bs[b].state = StateOf(bs[b].state, b, rs)
BatchesFit(bs, rs)  == bs \in Seq(Imports) /\ StatesStand(bs, rs)

RowsKept ==
    /\ RowsFit(batches, rows) /\ MadeFits(rows, made) /\ LeasesFit(rows)
    /\ BatchesFit(batches, rows)
ImportKept ==
    /\ RowsKept
    /\ PageFits(batches, staffPage) /\ CallFits(batches, rows, working) /\ UploadFits(batches, upload)

LEMMA RefreshedIs == \A b, rs : Refreshed(b, rs) = StateOf(batches[b].state, b, rs)
BY DEF Refreshed, StateOf

LEMMA StatesAreOfRows == StatesStand(batches, rows) => StateOfTheBatch
BY RefreshedIs DEF StatesStand, StateOfTheBatch

-----------------------------------------------------------------------------
(* Writing rows of a batch *)

\* Only rows of one batch are written.
Others(b, rs) == DOMAIN rs = DOMAIN rows /\ \A r \in DOMAIN rows : r[1] # b => rs[r] = rows[r]
SameBatches ==
    /\ Len(batches') = Len(batches) /\ DOMAIN batches' = DOMAIN batches
    /\ \A c \in DOMAIN batches : batches'[c].request = batches[c].request

LEMMA OthersLookSame ==
  ASSUME NEW b, NEW c, c # b, NEW rs, Others(b, rs)
  PROVE  LooksSame(c, rows, rs)
BY DEF Others, LooksSame, LooksAs

LEMMA StateWritten ==
  ASSUME batches \in Seq(Imports), NEW b \in DOMAIN batches, NEW s \in BatchStates
  PROVE  LET bs == [batches EXCEPT ![b].state = s] IN
         /\ bs \in Seq(Imports) /\ Len(bs) = Len(batches) /\ DOMAIN bs = DOMAIN batches
         /\ \A c \in DOMAIN batches :
               bs[c].request = batches[c].request /\ bs[c].pruned = batches[c].pruned /\ (c # b => bs[c] = batches[c])
         /\ bs[b].state = s
<1> DEFINE new == [batches[b] EXCEPT !.state = s]
<1>1. b \in 1 .. Len(batches) /\ DOMAIN batches = 1 .. Len(batches)
  BY LenProperties
<1>2. batches[b] \in Imports
  BY <1>1, ElementOfSeq
<1>3. new \in Imports /\ new.state = s /\ new.request = batches[b].request /\ new.pruned = batches[b].pruned
  BY <1>2 DEF Imports
<1>4. [batches EXCEPT ![b].state = s] = [batches EXCEPT ![b] = new]
  OBVIOUS
<1> HIDE DEF new
<1>5. /\ [batches EXCEPT ![b] = new] \in Seq(Imports) /\ Len([batches EXCEPT ![b] = new]) = Len(batches)
      /\ \A j \in 1 .. Len(batches) : [batches EXCEPT ![b] = new][j] = IF j = b THEN new ELSE batches[j]
  BY <1>1, <1>3, ExceptSeq
<1>6. QED
  BY <1>1, <1>3, <1>4, <1>5

LEMMA BatchRewritten ==
  ASSUME BatchesFit(batches, rows), NEW b \in DOMAIN batches, NEW rs, Others(b, rs), Write(b, rs)
  PROVE  BatchesFit(batches', rows') /\ SameBatches
<1> DEFINE s == StateOf(batches[b].state, b, rs)
<1>1. batches \in Seq(Imports) /\ StatesStand(batches, rows)
  BY DEF BatchesFit
<1>2. batches[b].state \in BatchStates
  <2>1. b \in 1 .. Len(batches)
    BY <1>1, LenProperties
  <2>2. batches[b] \in Imports
    BY <1>1, <2>1, ElementOfSeq
  <2>3. QED
    BY <2>2 DEF Imports
<1>3. s \in BatchStates /\ s = StateOf(s, b, rs)
  BY <1>2, StateAgain
<1>4. rows' = rs /\ batches' = [batches EXCEPT ![b].state = s]
  BY RefreshedIs DEF Write
<1> HIDE DEF s
<1>5. /\ batches' \in Seq(Imports) /\ Len(batches') = Len(batches) /\ DOMAIN batches' = DOMAIN batches
      /\ \A c \in DOMAIN batches :
            batches'[c].request = batches[c].request /\ batches'[c].pruned = batches[c].pruned
            /\ (c # b => batches'[c] = batches[c])
      /\ batches'[b].state = s
  BY <1>1, <1>3, <1>4, StateWritten
<1>6. ASSUME NEW c \in DOMAIN batches, ~batches[c].pruned
      PROVE  batches'[c].state = StateOf(batches'[c].state, c, rows')
  <2>1. CASE c = b
    BY <2>1, <1>3, <1>4, <1>5
  <2>2. CASE c # b
    <3>1. batches'[c] = batches[c]
      BY <1>5, <2>2
    <3>2. StateOf(batches[c].state, c, rs) = StateOf(batches[c].state, c, rows)
      BY <2>2, OthersLookSame, StateSame
    <3>3. batches[c].state = StateOf(batches[c].state, c, rows)
      BY <1>1, <1>6 DEF StatesStand
    <3>4. QED
      BY <3>1, <3>2, <3>3, <1>4
  <2>3. QED
    BY <2>1, <2>2
<1>7. StatesStand(batches', rows')
  BY <1>5, <1>6 DEF StatesStand
<1>8. QED
  BY <1>5, <1>7 DEF BatchesFit, SameBatches

-----------------------------------------------------------------------------
(* What a write keeps *)

Rewritten == DOMAIN rows' = DOMAIN rows /\ \A r \in DOMAIN rows : Moves(rows[r], rows'[r])
Keeps == RowsKept' /\ Rewritten /\ SameBatches

LEMMA StaysFit ==
  ASSUME RowsFit(batches, rows), Rewritten, SameBatches
  PROVE  RowsFit(batches', rows')
<1>1. ASSUME NEW r \in DOMAIN rows'
      PROVE  r \in Nat \X Nat /\ r[1] \in DOMAIN batches' /\ RowFits(rows'[r])
  BY <1>1 DEF RowsFit, Rewritten, Moves, SameBatches
<1>2. QED
  BY <1>1 DEF RowsFit

LEMMA StaysSettled ==
  ASSUME Rewritten
  PROVE  Settles
BY DEF Rewritten, Settles, Moves

LEMMA StaysAnswered ==
  ASSUME Rewritten, NEW r, NEW d, Answered(rows, r, d)
  PROVE  Answered(rows', r, d)
<1>1. CASE r \in DOMAIN rows
  <2>1. Moves(rows[r], rows'[r]) /\ DOMAIN rows' = DOMAIN rows
    BY <1>1 DEF Rewritten
  <2>2. rows[r].state \in Final => rows'[r] = rows[r]
    BY <2>1 DEF Moves
  <2>3. rows'[r].state \notin Final => rows[r].warned \subseteq rows'[r].warned
    BY <2>1 DEF Moves
  <2>4. QED
    BY <1>1, <2>1, <2>2, <2>3 DEF Answered
<1>2. CASE r \notin DOMAIN rows
  BY <1>2 DEF Rewritten, Answered
<1>3. QED
  BY <1>1, <1>2

LEMMA MadeStays ==
  ASSUME MadeFits(rows, made), DOMAIN rows' = DOMAIN rows, made' = made,
         \A r \in DOMAIN rows : ImportedAs(rows[r], rows'[r])
  PROVE  MadeFits(rows', made')
<1>1. {r \in DOMAIN rows' : rows'[r].state = "imported"} = {r \in DOMAIN rows : rows[r].state = "imported"}
  BY DEF ImportedAs
<1>2. QED
  BY <1>1, Zenon DEF MadeFits

\* Fewer rows under a lease
LEMMA FewerLeased ==
  ASSUME NEW rs, NEW qs, LeasesFit(rs), IsFiniteSet(DOMAIN qs), Leased(qs) \subseteq Leased(rs)
  PROVE  LeasesFit(qs)
<1>1. IsFiniteSet(Leased(rs)) /\ IsFiniteSet(Leased(qs))
  BY FS_Subset DEF LeasesFit, Leased
<1>2. Cardinality(Leased(qs)) <= Cardinality(Leased(rs))
  BY <1>1, FS_Subset
<1>3. Cardinality(Leased(qs)) \in Nat /\ Cardinality(Leased(rs)) \in Nat
  BY <1>1, FS_CardinalityType
<1>4. Leases \in Nat
  BY ImportAssumption
<1>5. QED
  BY <1>2, <1>3, <1>4 DEF LeasesFit

LEMMA LeasesStay ==
  ASSUME LeasesFit(rows), DOMAIN rows' = DOMAIN rows, \A r \in DOMAIN rows : Unleased(rows[r], rows'[r])
  PROVE  LeasesFit(rows')
<1>1. Leased(rows') \subseteq Leased(rows)
  BY DEF Leased, Unleased
<1>2. IsFiniteSet(DOMAIN rows')
  BY DEF LeasesFit
<1>3. QED
  BY <1>1, <1>2, FewerLeased

\* One row is written.
Put(r, n) == Write(r[1], [rows EXCEPT ![r] = n])

LEMMA RowPut ==
  ASSUME RowsKept, NEW r \in DOMAIN rows, NEW n, Moves(rows[r], n), Put(r, n)
  PROVE  Rewritten /\ SameBatches /\ BatchesFit(batches', rows') /\ RowsFit(batches', rows')
<1> DEFINE rs == [rows EXCEPT ![r] = n]
<1>1. RowsFit(batches, rows) /\ BatchesFit(batches, rows)
  BY DEF RowsKept
<1>2. r[1] \in DOMAIN batches
  BY <1>1 DEF RowsFit
<1>3. DOMAIN rs = DOMAIN rows /\ rs[r] = n /\ \A q \in DOMAIN rows : q # r => rs[q] = rows[q]
  OBVIOUS
<1>4. Write(r[1], rs)
  BY DEF Put
<1> HIDE DEF rs
<1>5. Others(r[1], rs)
  BY <1>3 DEF Others
<1>6. BatchesFit(batches', rows') /\ SameBatches
  BY <1>1, <1>2, <1>4, <1>5, BatchRewritten
<1>7. rows' = rs
  BY <1>4 DEF Write
<1>8. Rewritten
  <2>1. ASSUME NEW q \in DOMAIN rows, q # r
        PROVE  Moves(rows[q], rows'[q])
    <3>1. rows'[q] = rows[q]
      BY <1>3, <1>7, <2>1
    <3>2. RowFits(rows[q])
      BY <1>1 DEF RowsFit
    <3>3. QED
      BY <3>1, <3>2 DEF Moves
  <2>2. QED
    BY <1>3, <1>7, <2>1 DEF Rewritten
<1>9. QED
  BY <1>1, <1>6, <1>8, StaysFit

LEMMA RowWritten ==
  ASSUME RowsKept, NEW r \in DOMAIN rows, NEW n, Moves(rows[r], n), Put(r, n),
         ImportedAs(rows[r], n), Unleased(rows[r], n), made' = made
  PROVE  Keeps
<1>1. Rewritten /\ SameBatches /\ BatchesFit(batches', rows') /\ RowsFit(batches', rows')
  BY RowPut
<1>2. DOMAIN rows' = DOMAIN rows /\ rows'[r] = n /\ \A q \in DOMAIN rows : q # r => rows'[q] = rows[q]
  BY DEF Put, Write
<1>3. MadeFits(rows, made) /\ LeasesFit(rows)
  BY DEF RowsKept
<1>4. \A q \in DOMAIN rows : ImportedAs(rows[q], rows'[q])
  BY <1>2 DEF ImportedAs
<1>5. \A q \in DOMAIN rows : Unleased(rows[q], rows'[q])
  BY <1>2 DEF Unleased
<1>6. MadeFits(rows', made')
  BY <1>2, <1>3, <1>4, MadeStays
<1>7. LeasesFit(rows')
  BY <1>2, <1>3, <1>5, LeasesStay
<1>8. QED
  BY <1>1, <1>6, <1>7 DEF Keeps, RowsKept


-----------------------------------------------------------------------------
(* What the pages know of the rows *)

LEMMA PageStays ==
  ASSUME SameBatches, NEW p, PageFits(batches, p)
  PROVE  PageFits(batches', p)
BY DEF SameBatches, PageFits

LEMMA CallStays ==
  ASSUME Rewritten, SameBatches, NEW w, CallFits(batches, rows, w)
  PROVE  CallFits(batches', rows', w)
<1> SUFFICES ASSUME w # None
             PROVE  CallFits(batches', rows', w)
  BY DEF CallFits
<1>1. DOMAIN w = {"step", "batch", "pairs", "token", "todo"} /\ w.batch \in DOMAIN batches'
  BY DEF CallFits, SameBatches
<1>2. ASSUME w.step = "override", NEW p \in w.pairs
      PROVE  Answered(rows', <<w.batch, p.row>>, p.digest)
  <2>1. Answered(rows, <<w.batch, p.row>>, p.digest)
    BY <1>2 DEF CallFits
  <2>2. QED
    BY <2>1, StaysAnswered
<1>3. QED
  BY <1>1, <1>2 DEF CallFits

LEMMA UploadStays ==
  ASSUME SameBatches, NEW u, UploadFits(batches, u)
  PROVE  UploadFits(batches', u)
<1>1. Having(batches', u) = Having(batches, u)
  BY DEF SameBatches, Having
<1>2. \A b \in DOMAIN batches' : batches'[b].request <= u.last
  BY DEF SameBatches, UploadFits
<1>3. u.call # None /\ u.call.batch # 0 => u.call.batch \in DOMAIN batches'
  BY DEF SameBatches, UploadFits
<1>4. Len(batches') <= u.settled + Cardinality(Having(batches', u))
  BY <1>1 DEF SameBatches, UploadFits
<1>5. QED
  BY <1>2, <1>3, <1>4 DEF UploadFits

\* A step that keeps the rows, and leaves the pages and the upload or changes them to fit
LEMMA KeptBy ==
  ASSUME ImportKept, Keeps, upload' = upload,
         PageFits(batches, staffPage'), CallFits(batches, rows, working') \/ CallFits(batches', rows', working')
  PROVE  ImportKept' /\ Settles
<1>1. RowsKept' /\ Rewritten /\ SameBatches
  BY DEF Keeps
<1>2. PageFits(batches', staffPage')
  BY <1>1, PageStays
<1>3. CallFits(batches', rows', working')
  BY <1>1, CallStays
<1>4. UploadFits(batches', upload')
  BY <1>1, UploadStays DEF ImportKept
<1>5. Settles
  BY <1>1, StaysSettled
<1>6. QED
  BY <1>1, <1>2, <1>3, <1>4, <1>5 DEF ImportKept

\* Rows that nobody writes
LEMMA NothingWritten ==
  ASSUME RowsKept, UNCHANGED <<batches, rows, made>>
  PROVE  Keeps
<1>1. \A r \in DOMAIN rows : RowFits(rows[r])
  BY DEF RowsKept, RowsFit
<1>2. Rewritten
  BY <1>1 DEF Rewritten, Moves
<1>3. RowsKept'
  BY DEF RowsKept
<1>4. QED
  BY <1>2, <1>3 DEF Keeps, SameBatches

-----------------------------------------------------------------------------
(* Rows as they are rewritten *)

LEMMA RecheckedIs ==
  ASSUME NEW r, NEW o, RowFits(o), o.located, o.state # "geocoding"
  PROVE  LET n == Rechecked(r, o) IN
         /\ RowFits(n) /\ n.warned = o.warned /\ n.override = o.override /\ n.located
         /\ n.state = o.state \/ (n.state \in {"ready", "duplicate_possible"} /\ o.state \notin Final)
         /\ o.state \in {"ready", "duplicate_possible"} => n.state \in {"ready", "duplicate_possible"}
         /\ o.state \in {"ready", "duplicate_possible"} =>
               (n.state = "ready" <=> (n.digest = {} \/ n.override = n.digest)) /\ n.digest = Candidates(r)
         /\ n.until = o.until /\ (o.state \in Final => n = o)
<1>1. CASE o.state \in Final \cup {"invalid", "needs_review"}
  BY <1>1 DEF Rechecked, Final
<1>2. CASE o.state \notin Final \cup {"invalid", "needs_review"}
  <2> DEFINE d == Candidates(r)
             s == IF d # {} /\ o.override # d THEN "duplicate_possible" ELSE "ready"
             m == [o EXCEPT !.digest = d, !.state = s]
  <2>1. Rechecked(r, o) = m
    BY <1>2 DEF Rechecked
  <2>2. s \in {"ready", "duplicate_possible"} /\ (s = "ready" <=> (d = {} \/ o.override = d))
    OBVIOUS
  <2> HIDE DEF s, d
  <2>3. /\ DOMAIN m = Fields /\ m.state = s /\ m.digest = d /\ m.located = o.located /\ m.until = o.until
        /\ m.override = o.override /\ m.warned = o.warned
    BY DEF RowFits, Fields
  <2> HIDE DEF m
  <2>4. RowFits(m)
    BY <2>2, <2>3 DEF RowFits, Final
  <2>5. QED
    BY <1>2, <2>1, <2>2, <2>3, <2>4 DEF d, Final
<1>3. QED
  BY <1>1, <1>2


LEMMA NewRowFits == RowFits(NewRow) /\ NewRow.state = "pending" /\ NewRow.until = "now" /\ NewRow.requested = FALSE
BY DEF RowFits, NewRow, Fields

LEMMA SettledRowIs ==
  ASSUME NEW o, NEW s \in Final, o.state \notin Final
  PROVE  /\ Moves(o, SettledRow(s)) /\ Unleased(o, SettledRow(s))
         /\ SettledRow(s).state = s
<1> DEFINE n == SettledRow(s)
<1>1. DOMAIN n = Fields /\ n.state = s /\ n.until = "now" /\ n.override = {} /\ n.located = FALSE
  BY DEF SettledRow, NewRow, Fields
<1> HIDE DEF n
<1>2. RowFits(n)
  BY <1>1 DEF RowFits, Final
<1>3. Moves(o, n) /\ Unleased(o, n) /\ n.state = s
  BY <1>1, <1>2 DEF Moves, Unleased
<1>4. QED
  BY <1>3 DEF n

\* A row that waits or failed is not settled, and asks for no place.
LEMMA OtherState ==
  ASSUME NEW o, NEW n, RowFits(o), o.state \notin Final, DOMAIN n = Fields,
         n.located = o.located, n.override = o.override, n.warned = o.warned,
         n.state \notin {"ready", "duplicate_possible"} \cup Final, n.until = "lease" => n.state = "geocoding"
  PROVE  Moves(o, n) /\ ImportedAs(o, n)
BY DEF Moves, RowFits, ImportedAs, Final

LEMMA LocatedIs ==
  ASSUME NEW r, NEW o, RowFits(o), o.state = "geocoding", NEW outcome \in Outcomes
  PROVE  LET n == Located(r, [o EXCEPT !.token = 0, !.until = "now"], outcome) IN
         Moves(o, n) /\ ImportedAs(o, n) /\ Unleased(o, n)
<1> DEFINE p == [o EXCEPT !.token = 0, !.until = "now"]
           v == [p EXCEPT !.located = TRUE, !.state = "ready"]
           n == Located(r, p, outcome)
<1>1. /\ DOMAIN p = Fields /\ p.until = "now" /\ p.override = o.override /\ p.warned = o.warned
      /\ p.located = o.located /\ p.state = "geocoding"
  BY DEF RowFits, Fields
<1> HIDE DEF p
<1>2. ASSUME outcome = "verified"
      PROVE  Moves(o, n) /\ ImportedAs(o, n) /\ Unleased(o, n)
  <2>1. /\ DOMAIN v = Fields /\ v.until = "now" /\ v.override = o.override /\ v.warned = o.warned
        /\ v.located = TRUE /\ v.state = "ready"
    BY <1>1 DEF Fields
  <2>2. n = Rechecked(r, v)
    BY <1>2 DEF Located
  <2> HIDE DEF v, n
  <2>3. RowFits(v)
    BY <2>1 DEF RowFits
  <2>4. RowFits(n) /\ n.warned = o.warned /\ n.until = "now" /\ n.state \in {"ready", "duplicate_possible"}
    BY <2>1, <2>2, <2>3, RecheckedIs
  <2>5. QED
    BY <2>4 DEF Moves, ImportedAs, Unleased, Final
<1>3. ASSUME outcome # "verified"
      PROVE  Moves(o, n) /\ ImportedAs(o, n) /\ Unleased(o, n)
  <2> DEFINE Fits(m) ==
               /\ DOMAIN m = Fields /\ m.override = o.override /\ m.warned = o.warned /\ m.located = o.located
               /\ m.until \in {"now", "later"} /\ m.state \in {"failed", "pending", "retryable", "needs_review"}
  <2>1. ASSUME outcome = "retryable" /\ p.tries >= MaxTries
        PROVE  Fits(n)
    <3>1. n = [p EXCEPT !.state = "failed"]
      BY <1>1, <2>1 DEF Located
    <3>2. Fits([p EXCEPT !.state = "failed"])
      BY <1>1 DEF Fields
    <3>3. QED
      BY <3>1, <3>2
  <2>2. ASSUME outcome = "retryable" /\ ~(p.tries >= MaxTries)
        PROVE  Fits(n)
    <3>1. n = [p EXCEPT !.state = "pending", !.until = "later"]
      BY <1>1, <2>2 DEF Located
    <3>2. Fits([p EXCEPT !.state = "pending", !.until = "later"])
      BY <1>1 DEF Fields
    <3>3. QED
      BY <3>1, <3>2
  <2>3. ASSUME outcome = "configuration_error"
        PROVE  Fits(n)
    <3>1. n = [p EXCEPT !.state = "pending"]
      BY <2>3 DEF Located
    <3>2. Fits([p EXCEPT !.state = "pending"])
      BY <1>1 DEF Fields
    <3>3. QED
      BY <3>1, <3>2
  <2>4. ASSUME outcome = "needs_review"
        PROVE  Fits(n)
    <3>1. n = [p EXCEPT !.state = "needs_review"]
      BY <2>4 DEF Located
    <3>2. Fits([p EXCEPT !.state = "needs_review"])
      BY <1>1 DEF Fields
    <3>3. QED
      BY <3>1, <3>2
  <2>5. Fits(n)
    BY <1>3, <2>1, <2>2, <2>3, <2>4 DEF Outcomes
  <2> HIDE DEF n
  <2>6. Moves(o, n) /\ ImportedAs(o, n)
    BY <2>5, OtherState DEF Final
  <2>7. QED
    BY <2>5, <2>6 DEF Unleased
<1>4. QED
  BY <1>2, <1>3 DEF p


\* "Import anyway" is answered to a row as it was, or as the answer found it.
OverriddenBy(o, n, digest) ==
    /\ DOMAIN n = Fields /\ n.until = o.until /\ n.located /\ n.state \in {"ready", "duplicate_possible"}
    /\ n.warned = o.warned /\ n.override \in {o.override, digest}

LEMMA OverrideIs ==
  ASSUME NEW r \in DOMAIN rows, RowFits(rows[r]), NEW digest,
         rows[r].state \in {"ready", "duplicate_possible"}
  PROVE  OverriddenBy(rows[r], Resolved("override", r, digest), digest)
<1> DEFINE o == rows[r]
           c == Rechecked(r, o)
           n == Resolved("override", r, digest)
<1>1. o.located
  BY DEF RowFits
<1>2. RowFits(c) /\ c.warned = o.warned /\ c.override = o.override /\ c.located /\ c.until = o.until
      /\ c.state \in {"ready", "duplicate_possible"}
  BY <1>1, RecheckedIs
<1>3. n = IF c.digest # digest THEN c ELSE [c EXCEPT !.override = digest, !.state = "ready"]
  BY <1>1 DEF Resolved, Final
<1> HIDE DEF c, n, o
<1>4. OverriddenBy(o, c, digest)
  BY <1>2 DEF OverriddenBy, RowFits
<1>5. OverriddenBy(o, [c EXCEPT !.override = digest, !.state = "ready"], digest)
  BY <1>2 DEF OverriddenBy, RowFits, Fields
<1>6. QED
  BY <1>3, <1>4, <1>5 DEF n, o

LEMMA OverriddenMoves ==
  ASSUME NEW o, NEW n, NEW digest, RowFits(o), o.state \in {"ready", "duplicate_possible"},
         OverriddenBy(o, n, digest), digest \in n.warned
  PROVE  Moves(o, n) /\ ImportedAs(o, n) /\ Unleased(o, n)
<1>1. o.until # "lease"
  BY DEF RowFits
<1>2. RowFits(n)
  BY <1>1 DEF Final, RowFits, OverriddenBy
<1>3. QED
  BY <1>1, <1>2 DEF Moves, ImportedAs, Unleased, OverriddenBy, Final

LEMMA ResolvedIs ==
  ASSUME NEW r \in DOMAIN rows, RowFits(rows[r]), NEW step, NEW digest,
         step = "override" => Answered(rows, r, digest),
         Resolved(step, r, digest) # None
  PROVE  LET o == rows[r]
             n == Resolved(step, r, digest) IN
         Moves(o, n) /\ ImportedAs(o, n) /\ Unleased(o, n)
<1> DEFINE o == rows[r]
           n == Resolved(step, r, digest)
<1>1. CASE o.state \in Final
  <2>1. n = o
    BY <1>1 DEF Resolved, Final
  <2>2. QED
    BY <1>1, <2>1 DEF Moves, ImportedAs, Unleased
<1>2. CASE o.state \notin Final /\ step = "skip"
  <2>1. n = SettledRow("skipped")
    BY <1>2 DEF Resolved, Final
  <2>2. QED
    BY <1>2, <2>1, SettledRowIs DEF ImportedAs, Final
<1>3. CASE o.state = "failed" /\ step = "retry"
  <2> DEFINE s == IF o.located THEN "ready" ELSE "pending"
             m == [o EXCEPT !.state = s, !.tries = 0, !.until = "now"]
  <2>1. n = m
    BY <1>3 DEF Resolved, Final
  <2>2. s \in {"ready", "pending"} /\ (s = "ready" => o.located)
    OBVIOUS
  <2> HIDE DEF s
  <2>3. DOMAIN m = Fields /\ m.state = s /\ m.until = "now" /\ m.located = o.located /\ m.override = o.override
        /\ m.warned = o.warned
    BY DEF RowFits, Fields
  <2> HIDE DEF m
  <2>4. RowFits(m)
    BY <2>2, <2>3 DEF RowFits
  <2>5. Moves(o, m) /\ ImportedAs(o, m) /\ Unleased(o, m)
    BY <1>3, <2>2, <2>3, <2>4 DEF Moves, ImportedAs, Unleased, Final
  <2>6. QED
    BY <2>1, <2>5
<1>4. CASE o.state \in {"ready", "duplicate_possible"} /\ step = "override"
  <2>1. OverriddenBy(o, n, digest)
    BY <1>4, OverrideIs
  <2>2. digest \in n.warned
    BY <1>4, <2>1 DEF Answered, OverriddenBy, Final
  <2>3. QED
    BY <1>4, <2>1, <2>2, OverriddenMoves
<1>5. CASE /\ o.state \notin Final /\ step # "skip" /\ ~(o.state = "failed" /\ step = "retry")
           /\ ~(o.state \in {"ready", "duplicate_possible"} /\ step = "override")
  BY <1>5 DEF Resolved
<1>6. QED
  BY <1>1, <1>2, <1>3, <1>4, <1>5


-----------------------------------------------------------------------------
(* What each transaction keeps *)

LEMMA FirstIs ==
  ASSUME NEW rs, rs # {}, rs \subseteq Nat \X Nat
  PROVE  First(rs) \in rs
<1> DEFINE ns == {r[2] : r \in rs}
<1>1. ns \subseteq Nat /\ ns # {}
  OBVIOUS
<1>2. PICK n \in ns : \A m \in ns : ~ (<<m, n>> \in OpToRel(<, Nat))
  BY <1>1, NatLessThanWellFounded, WFMin
<1>3. ASSUME NEW m \in ns
      PROVE  n <= m
  <2>1. <<m, n>> \in Nat \X Nat /\ <<m, n>> \notin OpToRel(<, Nat)
    BY <1>1, <1>2
  <2>2. ~ (m < n)
    BY <2>1 DEF OpToRel
  <2>3. QED
    BY <1>1, <2>2
<1>4. PICK r \in rs : r[2] = n
  OBVIOUS
<1>5. \A q \in rs : r[2] <= q[2]
  BY <1>3, <1>4
<1>6. QED
  BY <1>4, <1>5 DEF First

LEMMA BatchesLookSame ==
  ASSUME BatchesFit(batches, rows), batches' = batches, \A c : LooksSame(c, rows, rows')
  PROVE  BatchesFit(batches', rows') /\ SameBatches
<1>1. ASSUME NEW c \in DOMAIN batches, ~batches[c].pruned
      PROVE  batches[c].state = StateOf(batches[c].state, c, rows')
  <2>1. LooksSame(c, rows, rows')
    OBVIOUS
  <2>2. StateOf(batches[c].state, c, rows') = StateOf(batches[c].state, c, rows)
    BY <2>1, StateSame
  <2>3. QED
    BY <1>1, <2>2 DEF BatchesFit, StatesStand
<1>2. QED
  BY <1>1 DEF BatchesFit, StatesStand, SameBatches

\* A row is written that looks as before.
LEMMA RowTouched ==
  ASSUME RowsKept, NEW r \in DOMAIN rows, NEW n, Moves(rows[r], n), ImportedAs(rows[r], n), LooksAs(rows[r], n),
         rows' = [rows EXCEPT ![r] = n], batches' = batches, made' = made, LeasesFit(rows')
  PROVE  Keeps
<1>1. DOMAIN rows' = DOMAIN rows /\ rows'[r] = n /\ \A q \in DOMAIN rows : q # r => rows'[q] = rows[q]
  OBVIOUS
<1>2. RowsFit(batches, rows) /\ MadeFits(rows, made) /\ BatchesFit(batches, rows)
  BY DEF RowsKept
<1>3. \A q \in DOMAIN rows : Moves(rows[q], rows'[q])
  <2>1. ASSUME NEW q \in DOMAIN rows, q # r
        PROVE  Moves(rows[q], rows'[q])
    BY <1>1, <1>2, <2>1 DEF RowsFit, Moves
  <2>2. QED
    BY <1>1, <2>1
<1>4. Rewritten
  BY <1>1, <1>3 DEF Rewritten
<1>5. \A c : LooksSame(c, rows, rows')
  BY <1>1 DEF LooksSame, LooksAs
<1>6. BatchesFit(batches', rows') /\ SameBatches
  BY <1>2, <1>5, BatchesLookSame
<1>7. MadeFits(rows', made')
  BY <1>1, <1>2, MadeStays DEF ImportedAs
<1>8. RowsFit(batches', rows')
  BY <1>2, <1>4, <1>6, StaysFit
<1>9. QED
  BY <1>4, <1>6, <1>7, <1>8 DEF Keeps, RowsKept

LEMMA GiveUpKeeps ==
  ASSUME RowsKept, NEW r \in DOMAIN rows, rows[r].state \in {"pending", "geocoding"}, rows[r].until = "now",
         GiveUp(r), made' = made
  PROVE  Keeps
<1> DEFINE n == [rows[r] EXCEPT !.state = "failed", !.token = 0]
<1>1. RowFits(rows[r])
  BY DEF RowsKept, RowsFit
<1>2. DOMAIN n = Fields /\ n.state = "failed" /\ n.until = "now" /\ n.located = rows[r].located
      /\ n.override = rows[r].override /\ n.warned = rows[r].warned
  BY <1>1 DEF RowFits, Fields
<1>3. Put(r, n)
  BY DEF GiveUp, Put
<1> HIDE DEF n
<1>4. Moves(rows[r], n) /\ ImportedAs(rows[r], n)
  BY <1>1, <1>2, OtherState DEF Final
<1>5. Unleased(rows[r], n)
  BY <1>2 DEF Unleased
<1>6. QED
  BY <1>3, <1>4, <1>5, RowWritten

LEMMA TakeLeaseKeeps ==
  ASSUME RowsKept, NEW b, MayClaim(b), NEW r \in LookupsDue(b), TakeLease(r), made' = made
  PROVE  Keeps
<1> DEFINE n == [rows[r] EXCEPT !.state = "geocoding", !.tries = rows[r].tries + 1, !.token = lookups.used + 1, !.until = "lease"]
<1>1. r \in DOMAIN rows /\ rows[r].state \in {"pending", "geocoding"} /\ rows[r].until = "now"
  BY DEF LookupsDue, RowsOf
<1>2. RowFits(rows[r]) /\ LeasesFit(rows)
  BY <1>1 DEF RowsKept, RowsFit
<1>3. DOMAIN n = Fields /\ n.state = "geocoding" /\ n.until = "lease" /\ n.located = rows[r].located
      /\ n.override = rows[r].override /\ n.warned = rows[r].warned
  BY <1>2 DEF RowFits, Fields
<1>4. rows' = [rows EXCEPT ![r] = n] /\ batches' = batches
  BY DEF TakeLease
<1> HIDE DEF n
<1>5. Moves(rows[r], n) /\ ImportedAs(rows[r], n)
  BY <1>1, <1>2, <1>3, OtherState DEF Final
<1>6. LooksAs(rows[r], n)
  BY <1>1, <1>3 DEF LooksAs, Waits
<1>7. Leased(rows') = Leased(rows) \cup {r} /\ r \notin Leased(rows)
  BY <1>1, <1>3, <1>4 DEF Leased
<1>8. IsFiniteSet(DOMAIN rows) /\ IsFiniteSet(Leased(rows)) /\ DOMAIN rows' = DOMAIN rows
  BY <1>2, <1>4, FS_Subset DEF LeasesFit, Leased
<1>9. Cardinality(Leased(rows')) = Cardinality(Leased(rows)) + 1
  BY <1>7, <1>8, FS_AddElement
<1>10. Cardinality(Leased(rows)) < Leases
  BY DEF MayClaim, Leased
<1>11. Cardinality(Leased(rows)) \in Nat /\ Leases \in Nat
  BY <1>8, FS_CardinalityType, ImportAssumption
<1>12. LeasesFit(rows')
  BY <1>8, <1>9, <1>10, <1>11 DEF LeasesFit
<1>13. QED
  BY <1>1, <1>4, <1>5, <1>6, <1>12, RowTouched

LEMMA TimePassesKeeps ==
  ASSUME RowsKept, NEW r \in DOMAIN rows, rows' = [rows EXCEPT ![r] = [rows[r] EXCEPT !.until = "now"]],
         rows[r].until # "now", UNCHANGED <<batches, made>>
  PROVE  Keeps
<1> DEFINE n == [rows[r] EXCEPT !.until = "now"]
<1>1. RowFits(rows[r]) /\ LeasesFit(rows)
  BY DEF RowsKept, RowsFit
<1>2. rows[r].state \notin Final
  BY <1>1 DEF RowFits
<1>3. DOMAIN n = Fields /\ n.until = "now" /\ \A k \in Fields : k # "until" => n[k] = rows[r][k]
  BY <1>1 DEF RowFits, Fields
<1>4. rows' = [rows EXCEPT ![r] = n]
  OBVIOUS
<1> HIDE DEF n
<1>5. /\ n.state = rows[r].state /\ n.located = rows[r].located /\ n.override = rows[r].override
      /\ n.warned = rows[r].warned /\ n.requested = rows[r].requested
  BY <1>3, Zenon DEF Fields
<1>6. RowFits(n)
  BY <1>1, <1>3, <1>5 DEF RowFits
<1>7. Moves(rows[r], n) /\ ImportedAs(rows[r], n) /\ LooksAs(rows[r], n)
  BY <1>2, <1>5, <1>6 DEF Moves, ImportedAs, LooksAs, Waits
<1>8. DOMAIN rows' = DOMAIN rows /\ \A q \in DOMAIN rows : Unleased(rows[q], rows'[q])
  BY <1>3, <1>4 DEF Unleased
<1>9. LeasesFit(rows')
  BY <1>1, <1>8, LeasesStay
<1>10. QED
  BY <1>4, <1>7, <1>9, RowTouched

LEMMA RecordKeeps ==
  ASSUME RowsKept, NEW r, NEW token, NEW outcome \in Outcomes, Record(r, token, outcome), made' = made
  PROVE  Keeps
<1>1. CASE ~Holds(r, token)
  BY <1>1, NothingWritten DEF Record
<1>2. CASE Holds(r, token)
  <2> DEFINE n == Located(r, [rows[r] EXCEPT !.token = 0, !.until = "now"], outcome)
  <2>1. r \in DOMAIN rows /\ rows[r].state = "geocoding"
    BY <1>2 DEF Holds
  <2>2. RowFits(rows[r])
    BY <2>1 DEF RowsKept, RowsFit
  <2>3. Moves(rows[r], n) /\ ImportedAs(rows[r], n) /\ Unleased(rows[r], n)
    BY <2>1, <2>2, LocatedIs
  <2>4. Put(r, n)
    BY <1>2 DEF Record, Put
  <2> HIDE DEF n
  <2>5. QED
    BY <2>1, <2>3, <2>4, RowWritten
<1>3. QED
  BY <1>1, <1>2

LEMMA WarnedIs ==
  ASSUME NEW o, NEW digest, RowFits(o), o.state \notin Final
  PROVE  LET n == [o EXCEPT !.warned = o.warned \cup {digest}] IN
         /\ Moves(o, n) /\ ImportedAs(o, n) /\ LooksAs(o, n) /\ n.until = o.until
         /\ digest \in n.warned
<1> DEFINE n == [o EXCEPT !.warned = o.warned \cup {digest}]
<1>1. /\ DOMAIN n = Fields /\ n.warned = o.warned \cup {digest} /\ n.state = o.state /\ n.located = o.located
      /\ n.override = o.override /\ n.until = o.until /\ n.requested = o.requested
  BY DEF RowFits, Fields
<1> HIDE DEF n
<1>2. RowFits(n)
  BY <1>1 DEF RowFits
<1>3. Moves(o, n) /\ ImportedAs(o, n) /\ LooksAs(o, n) /\ n.until = o.until /\ digest \in n.warned
  BY <1>1, <1>2 DEF Moves, ImportedAs, LooksAs, Waits
<1>4. QED
  BY <1>3 DEF n

LEMMA WarnedKeeps ==
  ASSUME RowsKept, NEW r, NEW digest, Warned(r, digest), UNCHANGED <<batches, made>>
  PROVE  Keeps /\ Answered(rows', r, digest)
<1>1. CASE r \in DOMAIN rows /\ rows[r].state \notin Final
  <2> DEFINE n == [rows[r] EXCEPT !.warned = rows[r].warned \cup {digest}]
  <2>1. RowFits(rows[r]) /\ LeasesFit(rows)
    BY <1>1 DEF RowsKept, RowsFit
  <2>2. /\ Moves(rows[r], n) /\ ImportedAs(rows[r], n) /\ LooksAs(rows[r], n) /\ n.until = rows[r].until
        /\ digest \in n.warned
    BY <1>1, <2>1, WarnedIs
  <2>3. rows' = [q \in DOMAIN rows |-> IF q = r THEN n ELSE rows[q]]
    BY <1>1 DEF Warned
  <2> HIDE DEF n
  <2>4. rows' = [rows EXCEPT ![r] = n]
    BY <2>3
  <2>5. rows'[r] = n /\ DOMAIN rows' = DOMAIN rows /\ \A q \in DOMAIN rows : Unleased(rows[q], rows'[q])
    BY <1>1, <2>2, <2>3 DEF Unleased
  <2>6. LeasesFit(rows')
    BY <2>1, <2>5, LeasesStay
  <2>7. Keeps
    BY <1>1, <2>2, <2>4, <2>6, RowTouched
  <2>8. QED
    BY <2>2, <2>5, <2>7 DEF Answered
<1>2. CASE ~(r \in DOMAIN rows /\ rows[r].state \notin Final)
  <2>1. rows' = [q \in DOMAIN rows |-> rows[q]]
    BY <1>2 DEF Warned
  <2>2. DOMAIN rows' = DOMAIN rows /\ \A q \in DOMAIN rows : rows'[q] = rows[q]
    BY <2>1
  <2>3. Rewritten
    BY <2>2 DEF RowsKept, RowsFit, Rewritten, Moves
  <2>4. BatchesFit(batches', rows') /\ SameBatches
    BY <2>2, BatchesLookSame DEF RowsKept, LooksSame, LooksAs
  <2>5. RowsFit(batches', rows')
    BY <2>3, <2>4, StaysFit DEF RowsKept
  <2>6. MadeFits(rows', made')
    BY <2>2, MadeStays DEF RowsKept, ImportedAs
  <2>7. LeasesFit(rows')
    BY <2>2, LeasesStay DEF RowsKept, Unleased
  <2>8. Answered(rows', r, digest)
    BY <1>2, <2>2 DEF Answered
  <2>9. QED
    BY <2>3, <2>4, <2>5, <2>6, <2>7, <2>8 DEF Keeps, RowsKept
<1>3. QED
  BY <1>1, <1>2

\* Rows of one batch are written, none of them imported by it or leased.
LEMMA RowsRewritten ==
  ASSUME RowsKept, NEW b \in DOMAIN batches, Rewritten, BatchesFit(batches', rows'), SameBatches, made' = made,
         \A r \in DOMAIN rows : ImportedAs(rows[r], rows'[r]) /\ Unleased(rows[r], rows'[r])
  PROVE  Keeps
<1>1. DOMAIN rows' = DOMAIN rows
  BY DEF Rewritten
<1>2. RowsFit(batches', rows')
  BY StaysFit DEF RowsKept
<1>3. MadeFits(rows', made')
  BY <1>1, MadeStays DEF RowsKept
<1>4. LeasesFit(rows')
  BY <1>1, LeasesStay DEF RowsKept
<1>5. QED
  BY <1>2, <1>3, <1>4 DEF Keeps, RowsKept

LEMMA CancelKeeps ==
  ASSUME RowsKept, NEW b \in DOMAIN batches, CancelBatch(b), made' = made
  PROVE  Keeps
<1>1. DOMAIN rows' = DOMAIN rows
      /\ \A r \in DOMAIN rows : rows'[r] = IF r[1] # b \/ rows[r].state \in Final THEN rows[r] ELSE SettledRow("skipped")
  BY DEF CancelBatch
<1>2. ASSUME NEW r \in DOMAIN rows
      PROVE  Moves(rows[r], rows'[r]) /\ ImportedAs(rows[r], rows'[r]) /\ Unleased(rows[r], rows'[r])
  <2>1. CASE r[1] # b \/ rows[r].state \in Final
    <3>1. rows'[r] = rows[r] /\ RowFits(rows[r])
      BY <1>1, <2>1 DEF RowsKept, RowsFit
    <3>2. QED
      BY <3>1 DEF Moves, ImportedAs, Unleased
  <2>2. CASE ~(r[1] # b \/ rows[r].state \in Final)
    <3>1. rows'[r] = SettledRow("skipped")
      BY <1>1, <2>2
    <3>2. QED
      BY <2>2, <3>1, SettledRowIs DEF ImportedAs, Final
  <2>3. QED
    BY <2>1, <2>2
<1>3. Rewritten
  BY <1>1, <1>2 DEF Rewritten
<1>4. Others(b, rows')
  BY <1>1 DEF Others
<1>5. batches \in Seq(Imports) /\ StatesStand(batches, rows)
  BY DEF RowsKept, BatchesFit
<1>6. /\ batches' \in Seq(Imports) /\ Len(batches') = Len(batches) /\ DOMAIN batches' = DOMAIN batches
      /\ \A c \in DOMAIN batches :
            batches'[c].request = batches[c].request /\ batches'[c].pruned = batches[c].pruned
            /\ (c # b => batches'[c] = batches[c])
      /\ batches'[b].state = "cancelled"
  <2>1. batches' = [batches EXCEPT ![b].state = "cancelled"]
    BY DEF CancelBatch
  <2>2. "cancelled" \in BatchStates
    BY DEF BatchStates
  <2>3. QED
    BY <1>5, <2>1, <2>2, StateWritten
<1>7. ASSUME NEW c \in DOMAIN batches, ~batches[c].pruned
      PROVE  batches'[c].state = StateOf(batches'[c].state, c, rows')
  <2>1. CASE c = b
    BY <2>1, <1>6 DEF StateOf
  <2>2. CASE c # b
    <3>1. batches'[c] = batches[c]
      BY <1>6, <2>2
    <3>2. StateOf(batches[c].state, c, rows') = StateOf(batches[c].state, c, rows)
      BY <1>4, <2>2, OthersLookSame, StateSame
    <3>3. batches[c].state = StateOf(batches[c].state, c, rows)
      BY <1>5, <1>7 DEF StatesStand
    <3>4. QED
      BY <3>1, <3>2, <3>3
  <2>3. QED
    BY <2>1, <2>2
<1>8. BatchesFit(batches', rows') /\ SameBatches
  BY <1>6, <1>7 DEF BatchesFit, StatesStand, SameBatches
<1>9. QED
  BY <1>2, <1>3, <1>8, RowsRewritten


LEMMA RequestedIs ==
  ASSUME NEW o, RowFits(o), o.state \notin Final
  PROVE  LET n == [o EXCEPT !.requested = TRUE] IN Moves(o, n) /\ n.state = o.state /\ n.until = o.until
<1> DEFINE n == [o EXCEPT !.requested = TRUE]
<1>1. /\ DOMAIN n = Fields /\ n.warned = o.warned /\ n.state = o.state /\ n.located = o.located
      /\ n.override = o.override /\ n.until = o.until
  BY DEF RowFits, Fields
<1> HIDE DEF n
<1>2. RowFits(n)
  BY <1>1 DEF RowFits
<1>3. Moves(o, n) /\ n.state = o.state /\ n.until = o.until
  BY <1>1, <1>2 DEF Moves
<1>4. QED
  BY <1>3 DEF n

\* Of the rows asked for, those that are not imported are ready.
LEMMA RequestKeeps ==
  ASSUME RowsKept, NEW b \in DOMAIN batches, NEW pairs, \A p \in pairs : AsReviewed(b, p),
         RequestAll(b, pairs), made' = made
  PROVE  Keeps
<1> DEFINE asked == {<<b, p.row>> : p \in pairs}
           rs == [r \in DOMAIN rows |-> IF rows[r].state # "imported" /\ r \in asked
                                        THEN [rows[r] EXCEPT !.requested = TRUE] ELSE rows[r]]
<1>1. ASSUME NEW r \in DOMAIN rows, r \in asked, rows[r].state # "imported"
      PROVE  r[1] = b /\ rows[r].state = "ready"
  BY <1>1 DEF AsReviewed
<1>2. Write(b, rs)
  BY DEF RequestAll
<1>3. rows' = rs /\ DOMAIN rs = DOMAIN rows
  BY <1>2 DEF Write
<1>4. Others(b, rs)
  BY <1>1 DEF Others
<1>5. ASSUME NEW r \in DOMAIN rows
      PROVE  Moves(rows[r], rs[r]) /\ ImportedAs(rows[r], rs[r]) /\ Unleased(rows[r], rs[r])
  <2>1. RowFits(rows[r])
    BY DEF RowsKept, RowsFit
  <2>2. CASE rows[r].state # "imported" /\ r \in asked
    <3>1. rs[r] = [rows[r] EXCEPT !.requested = TRUE] /\ rows[r].state = "ready"
      BY <1>1, <2>2
    <3>2. Moves(rows[r], rs[r]) /\ rs[r].state = rows[r].state /\ rs[r].until = rows[r].until
      BY <2>1, <3>1, RequestedIs DEF Final
    <3>3. QED
      BY <3>2 DEF ImportedAs, Unleased
  <2>3. CASE ~(rows[r].state # "imported" /\ r \in asked)
    <3>1. rs[r] = rows[r]
      BY <2>3
    <3>2. QED
      BY <2>1, <3>1 DEF Moves, ImportedAs, Unleased
  <2>4. QED
    BY <2>2, <2>3
<1> HIDE DEF rs, asked
<1>6. Rewritten
  BY <1>3, <1>5 DEF Rewritten
<1>7. BatchesFit(batches', rows') /\ SameBatches
  BY <1>2, <1>4, BatchRewritten DEF RowsKept
<1>8. QED
  BY <1>3, <1>5, <1>6, <1>7, RowsRewritten

\* The event and its row's receipt are written together.
LEMMA MadeGrows ==
  ASSUME MadeFits(rows, made), NEW r \in DOMAIN rows, rows[r].state # "imported", NEW d, d.row = r, ~d.unwarned,
         NEW n, n.state = "imported", rows' = [rows EXCEPT ![r] = n], made' = made \cup {d}
  PROVE  MadeFits(rows', made')
<1>1. \A e \in made : e.row # r
  BY DEF MadeFits
<1>2. \A e, f \in made' : e.row = f.row => e = f
  BY <1>1 DEF MadeFits
<1>3. \A e \in made' : ~e.unwarned
  BY DEF MadeFits
<1>4. {q \in DOMAIN rows' : rows'[q].state = "imported"} = {q \in DOMAIN rows : rows[q].state = "imported"} \cup {r}
  OBVIOUS
<1>5. {e.row : e \in made'} = {e.row : e \in made} \cup {r}
  OBVIOUS
<1>6. {e.row : e \in made} = {q \in DOMAIN rows : rows[q].state = "imported"}
  BY DEF MadeFits
<1>7. QED
  BY <1>2, <1>3, <1>4, <1>5, <1>6, Zenon DEF MadeFits

LEMMA ImportRowKeeps ==
  ASSUME RowsKept, NEW r, MayImport(r), ImportRow(r)
  PROVE  Keeps
<1> DEFINE o == rows[r]
           c == Rechecked(r, o)
<1>1. r \in DOMAIN rows /\ o.state \in {"ready", "duplicate_possible"}
  BY DEF MayImport
<1>2. RowFits(o) /\ MadeFits(rows, made) /\ LeasesFit(rows)
  BY <1>1 DEF RowsKept, RowsFit
<1>3. o.until # "lease" /\ o.located /\ o.state \notin Final
  BY <1>1, <1>2 DEF RowFits, Final
<1>4. /\ RowFits(c) /\ c.warned = o.warned /\ c.override = o.override /\ c.located
      /\ c.state \in {"ready", "duplicate_possible"} /\ c.until = o.until
      /\ c.state = "ready" <=> (c.digest = {} \/ c.override = c.digest)
      /\ c.digest = Candidates(r)
  BY <1>1, <1>2, <1>3, RecheckedIs
<1>5. CASE Write(r[1], [rows EXCEPT ![r] = [o EXCEPT !.state = "invalid", !.requested = FALSE]]) /\ made' = made
  <2> DEFINE n == [o EXCEPT !.state = "invalid", !.requested = FALSE]
  <2>1. DOMAIN n = Fields /\ n.state = "invalid" /\ n.until = o.until /\ n.located = o.located
        /\ n.override = o.override /\ n.warned = o.warned
    BY <1>2 DEF RowFits, Fields
  <2>2. Put(r, n)
    BY <1>5 DEF Put
  <2> HIDE DEF n, o
  <2>3. Moves(o, n) /\ ImportedAs(o, n) /\ Unleased(o, n)
    BY <1>2, <1>3, <2>1, OtherState DEF Final, Unleased
  <2>4. QED
    BY <1>1, <1>5, <2>2, <2>3, RowWritten DEF o
<1>6. CASE Write(r[1], [rows EXCEPT ![r] = [c EXCEPT !.requested = FALSE]]) /\ made' = made
  <2> DEFINE n == [c EXCEPT !.requested = FALSE]
  <2>1. DOMAIN n = Fields /\ n.state = c.state /\ n.until = c.until /\ n.located = c.located
        /\ n.override = c.override /\ n.warned = c.warned
    BY <1>4 DEF RowFits, Fields
  <2>2. Put(r, n)
    BY <1>6 DEF Put
  <2> HIDE DEF n, c, o
  <2>3. RowFits(n)
    BY <1>4, <2>1 DEF RowFits
  <2>4. Moves(o, n) /\ ImportedAs(o, n) /\ Unleased(o, n)
    BY <1>1, <1>3, <1>4, <2>1, <2>3 DEF Moves, ImportedAs, Unleased, Final
  <2>5. QED
    BY <1>1, <1>6, <2>2, <2>4, RowWritten DEF o
<1>7. CASE /\ Write(r[1], [rows EXCEPT ![r] = SettledRow("imported")]) /\ c.state = "ready"
           /\ made' = made \cup {[row |-> r, no |-> Cardinality(made), unwarned |-> Unwarned(r)]}
  <2> DEFINE n == SettledRow("imported")
             d == [row |-> r, no |-> Cardinality(made), unwarned |-> Unwarned(r)]
  <2>1. Moves(o, n) /\ Unleased(o, n) /\ n.state = "imported"
    BY <1>3, SettledRowIs DEF Final
  <2>2. ~Unwarned(r)
    <3>1. c.digest = {} \/ c.override = c.digest
      BY <1>4, <1>7
    <3>2. o.override = {} \/ o.override \in o.warned
      BY <1>2 DEF RowFits
    <3>3. QED
      BY <1>4, <3>1, <3>2 DEF Unwarned
  <2>3. d.row = r /\ ~d.unwarned
    BY <2>2
  <2>4. Put(r, n) /\ rows' = [rows EXCEPT ![r] = n] /\ made' = made \cup {d}
    BY <1>7 DEF Put, Write
  <2> HIDE DEF n, d, c
  <2>5. Rewritten /\ SameBatches /\ BatchesFit(batches', rows') /\ RowsFit(batches', rows')
    BY <1>1, <2>1, <2>4, RowPut
  <2>6. MadeFits(rows', made')
    BY <1>1, <1>2, <2>1, <2>3, <2>4, MadeGrows
  <2>7. DOMAIN rows' = DOMAIN rows /\ \A q \in DOMAIN rows : Unleased(rows[q], rows'[q])
    BY <1>1, <2>1, <2>4 DEF Unleased
  <2>8. LeasesFit(rows')
    BY <1>2, <2>7, LeasesStay
  <2>9. QED
    BY <2>5, <2>6, <2>8 DEF Keeps, RowsKept
<1>8. CASE Write(r[1], [rows EXCEPT ![r] = [c EXCEPT !.state = "failed"]]) /\ made' = made
  <2> DEFINE n == [c EXCEPT !.state = "failed"]
  <2>1. DOMAIN n = Fields /\ n.state = "failed" /\ n.until = c.until /\ n.located = c.located
        /\ n.override = c.override /\ n.warned = c.warned
    BY <1>4 DEF RowFits, Fields
  <2>2. Put(r, n)
    BY <1>8 DEF Put
  <2> HIDE DEF n, c, o
  <2>3. RowFits(n)
    BY <1>3, <1>4, <2>1 DEF RowFits, Final
  <2>4. Moves(o, n) /\ ImportedAs(o, n) /\ Unleased(o, n)
    BY <1>1, <1>3, <1>4, <2>1, <2>3 DEF Moves, ImportedAs, Unleased, Final
  <2>5. QED
    BY <1>1, <1>8, <2>2, <2>4, RowWritten DEF o
<1>9. QED
  BY <1>5, <1>6, <1>7, <1>8 DEF ImportRow


\* A colleague's answer to a warning
LEMMA AnsweredKeeps ==
  ASSUME RowsKept, NEW r \in DOMAIN rows, rows[r].state = "duplicate_possible", made' = made,
         Put(r, [Resolved("override", r, rows[r].digest) EXCEPT !.warned = rows[r].warned \cup {rows[r].digest}])
  PROVE  Keeps
<1> DEFINE o == rows[r]
           c == Resolved("override", r, o.digest)
           n == [c EXCEPT !.warned = o.warned \cup {o.digest}]
<1>1. RowFits(o)
  BY DEF RowsKept, RowsFit
<1>2. OverriddenBy(o, c, o.digest)
  BY <1>1, OverrideIs
<1>3. o.state = "duplicate_possible" /\ o.until # "lease"
  BY <1>1 DEF RowFits
<1>4. Put(r, n)
  OBVIOUS
<1> HIDE DEF c, o
<1>5. DOMAIN n = Fields /\ n.until = c.until /\ n.located = c.located /\ n.override = c.override /\ n.state = c.state
      /\ n.warned = o.warned \cup {o.digest}
  BY <1>2 DEF OverriddenBy, Fields
<1> HIDE DEF n
<1>6. RowFits(n)
  BY <1>1, <1>2, <1>3, <1>5 DEF RowFits, OverriddenBy, Final
<1>7. Moves(o, n) /\ ImportedAs(o, n) /\ Unleased(o, n)
  BY <1>2, <1>3, <1>5, <1>6 DEF Moves, ImportedAs, Unleased, OverriddenBy, Final
<1>8. QED
  BY <1>4, <1>7, RowWritten DEF o

LEMMA SkippedKeeps ==
  ASSUME RowsKept, NEW r \in DOMAIN rows, NEW d, Put(r, Resolved("skip", r, d)), made' = made
  PROVE  Keeps
<1>1. RowFits(rows[r])
  BY DEF RowsKept, RowsFit
<1> DEFINE n == Resolved("skip", r, d)
<1>2. CASE rows[r].state \in Final
  <2>1. n = rows[r]
    BY <1>2 DEF Resolved
  <2>2. Moves(rows[r], n) /\ ImportedAs(rows[r], n) /\ Unleased(rows[r], n)
    BY <1>1, <2>1 DEF Moves, ImportedAs, Unleased
  <2> HIDE DEF n
  <2>3. QED
    BY <2>2, RowWritten DEF n
<1>3. CASE rows[r].state \notin Final
  <2>1. n = SettledRow("skipped")
    BY <1>3 DEF Resolved
  <2>2. Moves(rows[r], n) /\ ImportedAs(rows[r], n) /\ Unleased(rows[r], n)
    BY <1>3, <2>1, SettledRowIs DEF ImportedAs, Final
  <2> HIDE DEF n
  <2>3. QED
    BY <2>2, RowWritten DEF n
<1>4. QED
  BY <1>2, <1>3

LEMMA ResolveKeeps ==
  ASSUME RowsKept, NEW r, NEW b \in DOMAIN batches, NEW k, r = <<b, k>>, NEW step, NEW digest,
         step = "override" => Answered(rows, r, digest),
         Resolved(step, r, digest) # None,
         Write(b, [rows EXCEPT ![r] = Resolved(step, r, digest)]), made' = made
  PROVE  Keeps
<1> DEFINE n == Resolved(step, r, digest)
<1>1. CASE r \in DOMAIN rows
  <2>1. RowFits(rows[r])
    BY <1>1 DEF RowsKept, RowsFit
  <2>2. Moves(rows[r], n) /\ ImportedAs(rows[r], n) /\ Unleased(rows[r], n)
    BY <1>1, <2>1, ResolvedIs
  <2>3. Put(r, n)
    BY DEF Put
  <2> HIDE DEF n
  <2>4. QED
    BY <1>1, <2>2, <2>3, RowWritten
<1>2. CASE r \notin DOMAIN rows
  <2> DEFINE rs == [rows EXCEPT ![r] = n]
  <2>1. DOMAIN rs = DOMAIN rows /\ \A q \in DOMAIN rows : rs[q] = rows[q]
    BY <1>2
  <2>2. Write(b, rs)
    OBVIOUS
  <2>3. rows' = rs
    BY <2>2 DEF Write
  <2> HIDE DEF rs, n
  <2>4. Others(b, rs)
    BY <2>1 DEF Others
  <2>5. BatchesFit(batches', rows') /\ SameBatches
    BY <2>2, <2>4, BatchRewritten DEF RowsKept
  <2>6. \A q \in DOMAIN rows : /\ Moves(rows[q], rows'[q]) /\ ImportedAs(rows[q], rows'[q])
                               /\ Unleased(rows[q], rows'[q])
    BY <2>1, <2>3 DEF RowsKept, RowsFit, Moves, ImportedAs, Unleased
  <2>7. Rewritten
    BY <2>1, <2>3, <2>6 DEF Rewritten
  <2>8. QED
    BY <2>5, <2>6, <2>7, RowsRewritten
<1>3. QED
  BY <1>1, <1>2


-----------------------------------------------------------------------------
(* A batch is made, or pruned *)

\* A batch more, and rows of it
Grown(b, new) ==
    /\ DOMAIN rows' = DOMAIN new \cup DOMAIN rows
    /\ \A r \in DOMAIN new : r[1] = b /\ rows'[r] = new[r]
    /\ \A r \in DOMAIN rows : r[1] # b /\ rows'[r] = rows[r]
NewRowsFit(b, new) ==
    /\ IsFiniteSet(DOMAIN new)
    /\ \A r \in DOMAIN new : /\ r \in {b} \X Nat /\ RowFits(new[r])
                             /\ new[r].state # "imported" /\ new[r].until = "now"

LEMMA BatchAppended ==
  ASSUME BatchesFit(batches, rows), NEW nb \in Imports, NEW new, Grown(Len(batches) + 1, new),
         batches' = Append(batches, nb), nb.state = StateOf(nb.state, Len(batches) + 1, new)
  PROVE  /\ BatchesFit(batches', rows') /\ Len(batches') = Len(batches) + 1
         /\ DOMAIN batches' = DOMAIN batches \cup {Len(batches) + 1} /\ Len(batches) + 1 \notin DOMAIN batches
         /\ \A c \in DOMAIN batches : batches'[c] = batches[c]
         /\ batches'[Len(batches) + 1] = nb /\ Len(batches) \in Nat
<1> DEFINE b == Len(batches) + 1
<1>1. batches \in Seq(Imports) /\ StatesStand(batches, rows)
  BY DEF BatchesFit
<1>2. Len(batches) \in Nat /\ DOMAIN batches = 1 .. Len(batches)
  BY <1>1, LenProperties
<1>3. batches' \in Seq(Imports) /\ Len(batches') = b /\ batches'[b] = nb
      /\ \A c \in 1 .. Len(batches) : batches'[c] = batches[c]
  BY <1>1, AppendProperties
<1>4. DOMAIN batches' = 1 .. b
  BY <1>3, LenProperties
<1>5. DOMAIN batches' = DOMAIN batches \cup {b} /\ b \notin DOMAIN batches
  BY <1>2, <1>4
<1>6. ASSUME NEW c \in DOMAIN batches', ~batches'[c].pruned
      PROVE  batches'[c].state = StateOf(batches'[c].state, c, rows')
  <2>1. CASE c \in DOMAIN batches
    <3>1. batches'[c] = batches[c] /\ c # b
      BY <1>2, <1>3, <1>5, <2>1
    <3>2. LooksSame(c, rows, rows')
      BY <3>1 DEF Grown, LooksSame, LooksAs
    <3>3. batches[c].state = StateOf(batches[c].state, c, rows)
      BY <1>1, <1>6, <2>1, <3>1 DEF StatesStand
    <3>4. StateOf(batches[c].state, c, rows') = StateOf(batches[c].state, c, rows)
      BY <3>2, StateSame
    <3>5. QED
      BY <3>1, <3>3, <3>4
  <2>2. CASE c = b
    <3>1. LooksSame(b, new, rows')
      BY DEF Grown, LooksSame, LooksAs
    <3>2. StateOf(nb.state, b, rows') = StateOf(nb.state, b, new)
      BY <3>1, StateSame
    <3>3. QED
      BY <2>2, <1>3, <3>2
  <2>3. QED
    BY <1>5, <1>6, <2>1, <2>2
<1>7. BatchesFit(batches', rows')
  BY <1>3, <1>6 DEF BatchesFit, StatesStand
<1>8. QED
  BY <1>2, <1>3, <1>5, <1>7

LEMMA GrownKeeps ==
  ASSUME RowsKept, NEW nb \in Imports, NEW new, Grown(Len(batches) + 1, new), NewRowsFit(Len(batches) + 1, new),
         batches' = Append(batches, nb), nb.state = StateOf(nb.state, Len(batches) + 1, new), made' = made
  PROVE  /\ RowsKept' /\ Settles
         /\ \A p : PageFits(batches, p) => PageFits(batches', p)
         /\ \A w : CallFits(batches, rows, w) => CallFits(batches', rows', w)
<1> DEFINE b == Len(batches) + 1
<1>1. RowsFit(batches, rows) /\ MadeFits(rows, made) /\ LeasesFit(rows) /\ BatchesFit(batches, rows)
  BY DEF RowsKept
<1>2. /\ BatchesFit(batches', rows') /\ b \in Nat
      /\ DOMAIN batches' = DOMAIN batches \cup {b} /\ b \notin DOMAIN batches
  BY <1>1, BatchAppended
<1>3. RowsFit(batches', rows')
  <2>1. ASSUME NEW r \in DOMAIN new
        PROVE  r \in Nat \X Nat /\ r[1] \in DOMAIN batches' /\ RowFits(rows'[r])
    <3>1. r \in {b} \X Nat /\ RowFits(new[r])
      BY DEF NewRowsFit
    <3>2. rows'[r] = new[r]
      BY DEF Grown
    <3> HIDE DEF b
    <3>3. QED
      BY <1>2, <3>1, <3>2
  <2>2. ASSUME NEW r \in DOMAIN rows
        PROVE  r \in Nat \X Nat /\ r[1] \in DOMAIN batches' /\ RowFits(rows'[r])
    BY <1>1, <1>2 DEF Grown, RowsFit
  <2>3. QED
    BY <2>1, <2>2 DEF RowsFit, Grown
<1>4. {r \in DOMAIN rows' : rows'[r].state = "imported"} = {r \in DOMAIN rows : rows[r].state = "imported"}
  BY DEF Grown, NewRowsFit
<1>5. MadeFits(rows', made')
  BY <1>1, <1>4, Zenon DEF MadeFits
<1>6. Leased(rows') \subseteq Leased(rows)
  BY DEF Grown, NewRowsFit, Leased
<1>7. IsFiniteSet(DOMAIN rows')
  <2>1. IsFiniteSet(DOMAIN new) /\ IsFiniteSet(DOMAIN rows)
    BY <1>1 DEF NewRowsFit, LeasesFit
  <2>2. IsFiniteSet(DOMAIN new \cup DOMAIN rows)
    BY <2>1, FS_Union
  <2>3. QED
    BY <2>2 DEF Grown
<1>8. LeasesFit(rows')
  BY <1>1, <1>6, <1>7, FewerLeased
<1>9. Settles
  BY DEF Settles, Grown
<1>10. \A p : PageFits(batches, p) => PageFits(batches', p)
  BY <1>2 DEF PageFits
<1>11. ASSUME NEW w, CallFits(batches, rows, w), w # None
       PROVE  CallFits(batches', rows', w)
  <2>1. w.batch \in DOMAIN batches' /\ w.batch # b
    BY <1>2, <1>11 DEF CallFits
  <2>2. ASSUME w.step = "override", NEW p \in w.pairs
        PROVE  Answered(rows', <<w.batch, p.row>>, p.digest)
    <3>1. Answered(rows, <<w.batch, p.row>>, p.digest)
      BY <1>11, <2>2 DEF CallFits
    <3>2. <<w.batch, p.row>> \in DOMAIN rows' => <<w.batch, p.row>> \in DOMAIN rows
                                                  /\ rows'[<<w.batch, p.row>>] = rows[<<w.batch, p.row>>]
      BY <2>1 DEF Grown
    <3>3. QED
      BY <3>1, <3>2 DEF Answered
  <2>3. QED
    BY <1>11, <2>1, <2>2 DEF CallFits
<1>12. \A w : CallFits(batches, rows, w) => CallFits(batches', rows', w)
  BY <1>11 DEF CallFits
<1>13. QED
  BY <1>2, <1>3, <1>5, <1>8, <1>9, <1>10, <1>12 DEF RowsKept


\* The request of an upload that is answered has its batch; the file of one that is made is new to it.
LEMMA UploadBatched ==
  ASSUME UploadFits(batches, upload), upload.call # None, NEW b \in DOMAIN batches, batches \in Seq(Imports),
         upload' = [upload EXCEPT !.call.batch = b], batches' = batches
  PROVE  UploadFits(batches', upload')
<1> DEFINE call == [upload.call EXCEPT !.batch = b]
<1>1. upload \in Uploads /\ upload.call \in Calls
  BY DEF UploadFits
<1>2. b \in Nat
  BY LenProperties
<1>3. call \in Calls /\ call.file = upload.call.file /\ call.request = upload.call.request /\ call.batch = b
  BY <1>1, <1>2 DEF Calls
<1>4. upload' = [upload EXCEPT !.call = call]
  OBVIOUS
<1> HIDE DEF call
<1>5. upload' \in Uploads /\ upload'.key = upload.key /\ upload'.last = upload.last /\ upload'.settled = upload.settled
      /\ upload'.call = call
  BY <1>1, <1>3, <1>4 DEF Uploads
<1>6. Having(batches', upload') = Having(batches, upload)
  BY <1>5 DEF Having
<1>7. QED
  BY <1>3, <1>5, <1>6 DEF UploadFits

LEMMA UploadGrown ==
  ASSUME UploadFits(batches, upload), upload.call # None, NEW nb \in Imports, batches \in Seq(Imports),
         nb.request = upload.call.request, \A c \in DOMAIN batches : batches[c].request # upload.call.request,
         batches' = Append(batches, nb), upload' = [upload EXCEPT !.call.batch = Len(batches) + 1]
  PROVE  UploadFits(batches', upload')
<1> DEFINE b == Len(batches) + 1
           call == [upload.call EXCEPT !.batch = b]
           f == upload.call.file
<1>1. upload \in Uploads /\ upload.call \in Calls /\ upload.call.request # 0 /\ upload.call.request = upload.key[f]
  BY DEF UploadFits
<1>2. Len(batches) \in Nat /\ DOMAIN batches = 1 .. Len(batches)
  BY LenProperties
<1>3. batches' \in Seq(Imports) /\ Len(batches') = b /\ batches'[b] = nb
      /\ \A c \in 1 .. Len(batches) : batches'[c] = batches[c]
  BY AppendProperties
<1>4. DOMAIN batches' = 1 .. b
  BY <1>3, LenProperties
<1>5. call \in Calls /\ call.file = f /\ call.request = upload.call.request /\ call.batch = b
  BY <1>1, <1>2 DEF Calls
<1>6. upload' = [upload EXCEPT !.call = call]
  OBVIOUS
<1> HIDE DEF call
<1>7. upload' \in Uploads /\ upload'.key = upload.key /\ upload'.last = upload.last /\ upload'.settled = upload.settled
      /\ upload'.call = call
  BY <1>1, <1>5, <1>6 DEF Uploads
<1>8. f \in Files /\ upload.key[f] <= upload.last /\ nb.request = upload.key[f]
  BY <1>1 DEF Calls, UploadFits
<1>9. \A c \in DOMAIN batches' : batches'[c].request <= upload'.last
  <2>1. ASSUME NEW c \in 1 .. b
        PROVE  batches'[c].request <= upload'.last
    <3>1. CASE c = b
      BY <1>3, <1>7, <1>8, <3>1
    <3>2. CASE c # b
      <4>1. c \in 1 .. Len(batches)
        BY <1>2, <3>2
      <4>2. QED
        BY <1>2, <1>3, <1>7, <4>1 DEF UploadFits
    <3>3. QED
      BY <3>1, <3>2
  <2>2. QED
    BY <1>4, <2>1
<1>10. Having(batches, upload) \cup {f} \subseteq Having(batches', upload') /\ f \notin Having(batches, upload)
  <2>1. f \in Having(batches', upload')
    <3>1. b \in DOMAIN batches'
      BY <1>2, <1>4
    <3>2. QED
      BY <1>1, <1>3, <1>7, <1>8, <3>1 DEF Having
  <2>2. ASSUME NEW g \in Having(batches, upload)
        PROVE  g \in Having(batches', upload')
    <3>1. g \in Files /\ upload.key[g] # 0
      BY DEF Having
    <3>2. PICK c \in DOMAIN batches : batches[c].request = upload.key[g]
      BY DEF Having
    <3>3. c \in DOMAIN batches' /\ batches'[c].request = upload.key[g]
      BY <1>2, <1>3, <1>4, <3>2
    <3>4. QED
      BY <1>7, <3>1, <3>3 DEF Having
  <2>3. f \notin Having(batches, upload)
    BY <1>1 DEF Having
  <2>4. QED
    BY <2>1, <2>2, <2>3
<1>11. IsFiniteSet(Having(batches, upload)) /\ IsFiniteSet(Having(batches', upload'))
  BY FS_Subset, ImportAssumption DEF Having
<1>12. Cardinality(Having(batches, upload) \cup {f}) = Cardinality(Having(batches, upload)) + 1
  BY <1>10, <1>11, FS_AddElement
<1>13. Cardinality(Having(batches, upload) \cup {f}) <= Cardinality(Having(batches', upload'))
  BY <1>10, <1>11, FS_Subset
<1>14. Cardinality(Having(batches, upload)) \in Nat /\ Cardinality(Having(batches', upload')) \in Nat
  BY <1>11, FS_CardinalityType
<1>15. Len(batches) <= upload.settled + Cardinality(Having(batches, upload)) /\ upload.settled \in Nat
  BY <1>1 DEF UploadFits, Uploads
<1>16. Len(batches') <= upload'.settled + Cardinality(Having(batches', upload'))
  BY <1>2, <1>3, <1>7, <1>12, <1>13, <1>14, <1>15
<1>17. upload'.call.batch \in DOMAIN batches'
  BY <1>2, <1>4, <1>5, <1>7
<1>18. QED
  BY <1>1, <1>5, <1>7, <1>8, <1>9, <1>16, <1>17 DEF UploadFits


LEMMA UploadAsked ==
  ASSUME ImportKept, NEW f \in Files, UploadFile(f)
  PROVE  UploadFits(batches', upload')
<1> DEFINE request == IF upload.key[f] = 0 THEN upload.last + 1 ELSE upload.key[f]
           last == IF request > upload.last THEN request ELSE upload.last
           call == [file |-> f, request |-> request, batch |-> 0]
<1>1. UploadFits(batches, upload) /\ batches' = batches
  BY DEF ImportKept, UploadFile
<1>2. upload \in Uploads /\ upload.key \in [Files -> Nat] /\ upload.last \in Nat
  BY <1>1 DEF UploadFits, Uploads
<1>3. request \in Nat /\ request # 0 /\ last \in Nat /\ request <= last /\ upload.last <= last
      /\ upload.key[f] <= upload.last
  BY <1>1, <1>2 DEF UploadFits
<1>4. request = upload.key[f] \/ (upload.key[f] = 0 /\ request = upload.last + 1)
  OBVIOUS
<1>5. upload' = [upload EXCEPT !.key[f] = request, !.last = last, !.call = call]
  BY DEF UploadFile
<1> HIDE DEF request, last
<1>6. call \in Calls /\ call.file = f /\ call.request = request /\ call.batch = 0
  BY <1>3 DEF Calls
<1> HIDE DEF call
<1>7. upload' \in Uploads /\ upload'.key = [upload.key EXCEPT ![f] = request] /\ upload'.last = last
      /\ upload'.settled = upload.settled /\ upload'.call = call
  BY <1>2, <1>3, <1>5, <1>6 DEF Uploads
<1>8. \A g \in Files : upload'.key[g] = IF g = f THEN request ELSE upload.key[g]
  BY <1>2, <1>7
<1>9. Having(batches', upload') = Having(batches, upload)
  <2>1. CASE request = upload.key[f]
    BY <1>1, <1>8, <2>1 DEF Having
  <2>2. CASE upload.key[f] = 0 /\ request = upload.last + 1
    <3>1. \A b \in DOMAIN batches : batches[b].request # request
      BY <1>1, <1>2, <2>2 DEF UploadFits
    <3>2. QED
      BY <1>1, <1>8, <2>2, <3>1 DEF Having
  <2>3. QED
    BY <1>4, <2>1, <2>2
<1>10. \A g \in Files : upload'.key[g] <= upload'.last
  <2>1. ASSUME NEW g \in Files
        PROVE  upload'.key[g] <= upload'.last
    <3>1. upload.key[g] \in Nat /\ upload.key[g] <= upload.last
      BY <1>1, <1>2 DEF UploadFits
    <3>2. QED
      BY <1>2, <1>3, <1>7, <1>8, <3>1
  <2>2. QED
    BY <2>1
<1>11. \A b \in DOMAIN batches' : batches'[b].request <= upload'.last
  <2>1. ASSUME NEW b \in DOMAIN batches
        PROVE  batches[b].request <= last
    <3>1. batches[b].request <= upload.last
      BY <1>1 DEF UploadFits
    <3>2. batches[b].request \in Nat
      <4>1. batches \in Seq(Imports) /\ DOMAIN batches = 1 .. Len(batches)
        BY LenProperties DEF ImportKept, RowsKept, BatchesFit
      <4>2. batches[b] \in Imports
        BY <4>1, ElementOfSeq
      <4>3. QED
        BY <4>2 DEF Imports
    <3>3. QED
      BY <1>2, <1>3, <3>1, <3>2
  <2>2. QED
    BY <1>1, <1>7, <2>1
<1>12. Len(batches') <= upload'.settled + Cardinality(Having(batches', upload'))
  BY <1>1, <1>7, <1>9 DEF UploadFits
<1>13. QED
  BY <1>3, <1>6, <1>7, <1>8, <1>10, <1>11, <1>12 DEF UploadFits

\* An answer takes the request of its file with it, and counts.
LEMMA UploadSettled ==
  ASSUME UploadFits(batches, upload), UploadAnswered, batches \in Seq(Imports)
  PROVE  UploadFits(batches', upload')
<1> DEFINE f == upload.call.file
<1>1. batches' = batches /\ upload.call # None
      /\ upload' = [upload EXCEPT !.call = None, !.key[f] = 0, !.settled = upload.settled + 1]
  BY DEF UploadAnswered
<1>2. upload \in Uploads /\ upload.key \in [Files -> Nat] /\ upload.settled \in Nat /\ f \in Files
  BY <1>1 DEF UploadFits, Uploads, Calls
<1>3. upload' \in Uploads /\ upload'.key = [upload.key EXCEPT ![f] = 0] /\ upload'.last = upload.last
      /\ upload'.settled = upload.settled + 1 /\ upload'.call = None
  <2> DEFINE key == [upload.key EXCEPT ![f] = 0]
             count == upload.settled + 1
  <2>1. key \in [Files -> Nat] /\ count \in Nat
    BY <1>2
  <2>2. upload' = [upload EXCEPT !.call = None, !.key = key, !.settled = count]
    BY <1>1
  <2> HIDE DEF key, count
  <2>3. upload' \in Uploads /\ upload'.key = key /\ upload'.last = upload.last /\ upload'.settled = count
        /\ upload'.call = None
    BY <1>2, <2>1, <2>2 DEF Uploads
  <2>4. QED
    BY <2>3 DEF key, count
<1>4. \A g \in Files : upload'.key[g] = IF g = f THEN 0 ELSE upload.key[g]
  BY <1>2, <1>3
<1>5. Having(batches', upload') = Having(batches, upload) \ {f}
  BY <1>1, <1>4 DEF Having
<1>6. IsFiniteSet(Having(batches, upload)) /\ IsFiniteSet(Having(batches', upload'))
  BY FS_Subset, ImportAssumption DEF Having
<1>7. Cardinality(Having(batches', upload'))
        = IF f \in Having(batches, upload) THEN Cardinality(Having(batches, upload)) - 1
                                           ELSE Cardinality(Having(batches, upload))
  BY <1>5, <1>6, FS_RemoveElement
<1>8. Cardinality(Having(batches, upload)) \in Nat /\ Len(batches) \in Nat
  BY <1>6, FS_CardinalityType, LenProperties
<1>9. Len(batches) <= upload.settled + Cardinality(Having(batches, upload))
  BY DEF UploadFits
<1>10. Len(batches') <= upload'.settled + Cardinality(Having(batches', upload'))
  BY <1>1, <1>2, <1>3, <1>7, <1>8, <1>9
<1>11. \A g \in Files : upload'.key[g] <= upload'.last
  BY <1>2, <1>3, <1>4 DEF UploadFits, Uploads
<1>12. QED
  BY <1>1, <1>3, <1>10, <1>11 DEF UploadFits

LEMMA UploadLost ==
  ASSUME UploadFits(batches, upload), UploadUnanswered
  PROVE  UploadFits(batches', upload')
<1>1. batches' = batches /\ upload' = [upload EXCEPT !.call = None] /\ upload \in Uploads
  BY DEF UploadUnanswered, UploadFits
<1>2. upload' \in Uploads /\ upload'.key = upload.key /\ upload'.last = upload.last /\ upload'.settled = upload.settled
      /\ upload'.call = None
  BY <1>1 DEF Uploads
<1>3. Having(batches', upload') = Having(batches, upload)
  BY <1>1, <1>2 DEF Having
<1>4. QED
  BY <1>1, <1>2, <1>3 DEF UploadFits


-----------------------------------------------------------------------------
(* The steps *)

\* The rows that a file is read as make the state its batch begins in.
LEMMA ReadingIs ==
  ASSUME NEW b, NEW file \in Nat \ {0}, NEW new \in Readings(b, file)
  PROVE  /\ NewRowsFit(b, new)
         /\ LET s == IF \E r \in DOMAIN new : new[r].state = "pending" THEN "validating" ELSE "ready" IN
            s = StateOf(s, b, new)
<1>1. PICK invalid \in SUBSET ({b} \X (1 .. file)) :
        new = [r \in {b} \X (1 .. file) |-> IF r \in invalid THEN [NewRow EXCEPT !.state = "invalid"] ELSE NewRow]
  BY DEF Readings
<1> DEFINE bad == [NewRow EXCEPT !.state = "invalid"]
<1>2. DOMAIN new = {b} \X (1 .. file) /\ \A r \in DOMAIN new : new[r] \in {bad, NewRow}
  BY <1>1
<1>3. /\ RowFits(NewRow) /\ NewRow.state = "pending" /\ NewRow.until = "now" /\ NewRow.requested = FALSE
      /\ RowFits(bad) /\ bad.state = "invalid" /\ bad.until = "now" /\ bad.requested = FALSE
  <2>1. /\ DOMAIN bad = Fields /\ bad.state = "invalid" /\ bad.until = "now" /\ bad.requested = FALSE
        /\ bad.located = FALSE /\ bad.override = {}
    BY DEF NewRow, Fields
  <2> HIDE DEF bad
  <2>2. RowFits(bad)
    BY <2>1 DEF RowFits, Final
  <2>3. QED
    BY <2>1, <2>2, NewRowFits
<1> HIDE DEF bad
<1>4. IsFiniteSet({b} \X (1 .. file))
  <2>1. 1 \in Int /\ file \in Int
    OBVIOUS
  <2>2. IsFiniteSet({b}) /\ IsFiniteSet(1 .. file)
    BY <2>1, FS_Singleton, FS_Interval
  <2>3. QED
    BY <2>2, FS_Product
<1>5. \A r \in DOMAIN new : r \in {b} \X Nat /\ RowFits(new[r]) /\ new[r].state # "imported" /\ new[r].until = "now"
  BY <1>2, <1>3
<1>6. NewRowsFit(b, new)
  BY <1>2, <1>4, <1>5 DEF NewRowsFit
<1>7. <<b, 1>> \in DOMAIN new
  BY <1>2
<1>8. ~Settled(b, new)
  BY <1>2, <1>3, <1>7 DEF Settled, Final
<1>9. ~Imported(b, new)
  BY <1>2, <1>3 DEF Imported
<1>10. Waiting(b, new) <=> \E r \in DOMAIN new : new[r].state = "pending"
  BY <1>2, <1>3 DEF Waiting, Waits
<1>11. QED
  BY <1>6, <1>8, <1>9, <1>10, StateIs DEF StateBy

LEMMA CreateBatchKeeps ==
  ASSUME ImportKept, CreateBatch
  PROVE  ImportKept' /\ Settles
<1> DEFINE request == upload.call.request
           known == {b \in DOMAIN batches : batches[b].request = request}
           b == IF known # {} THEN CHOOSE k \in known : TRUE ELSE Len(batches) + 1
<1>1. UploadFits(batches, upload) /\ RowsKept /\ batches \in Seq(Imports)
      /\ PageFits(batches, staffPage) /\ CallFits(batches, rows, working)
  BY DEF ImportKept, RowsKept, BatchesFit
<1>2. /\ upload.call # None /\ upload' = [upload EXCEPT !.call.batch = b]
      /\ made' = made /\ staffPage' = staffPage /\ working' = working
  BY DEF CreateBatch
<1>3. upload.call \in Calls /\ request \in Nat /\ upload.call.file \in Nat \ {0}
  BY <1>1, <1>2, ImportAssumption DEF UploadFits, Calls
<1>4. CASE known # {} /\ UNCHANGED <<batches, rows>>
  <2>1. b \in DOMAIN batches
    BY <1>4
  <2> HIDE DEF b
  <2>2. UploadFits(batches', upload')
    BY <1>1, <1>2, <1>4, <2>1, UploadBatched
  <2>3. Keeps
    BY <1>1, <1>2, <1>4, NothingWritten
  <2>4. RowsKept' /\ SameBatches /\ Rewritten
    BY <2>3 DEF Keeps
  <2>5. PageFits(batches', staffPage') /\ CallFits(batches', rows', working') /\ Settles
    BY <1>1, <1>2, <2>4, PageStays, CallStays, StaysSettled
  <2>6. QED
    BY <2>2, <2>4, <2>5 DEF ImportKept
<1>5. ASSUME known = {}, NEW nb \in Imports, nb.request = request, NEW new, batches' = Append(batches, nb),
             Grown(Len(batches) + 1, new), NewRowsFit(Len(batches) + 1, new),
             nb.state = StateOf(nb.state, Len(batches) + 1, new)
      PROVE  ImportKept' /\ Settles
  <2>2. b = Len(batches) + 1 /\ \A c \in DOMAIN batches : batches[c].request # upload.call.request
    BY <1>5
  <2> HIDE DEF b
  <2>3. UploadFits(batches', upload')
    BY <1>1, <1>2, <1>5, <2>2, UploadGrown
  <2>4. /\ RowsKept' /\ Settles
        /\ PageFits(batches, staffPage) => PageFits(batches', staffPage)
        /\ CallFits(batches, rows, working) => CallFits(batches', rows', working)
    BY <1>1, <1>2, <1>5, GrownKeeps
  <2>5. QED
    BY <1>1, <1>2, <2>3, <2>4 DEF ImportKept
<1>6. \A r \in DOMAIN rows : r[1] # Len(batches) + 1
  <2>1. Len(batches) \in Nat /\ DOMAIN batches = 1 .. Len(batches)
    BY <1>1, LenProperties
  <2>2. \A r \in DOMAIN rows : r[1] \in DOMAIN batches
    BY <1>1 DEF RowsKept, RowsFit
  <2>3. QED
    BY <2>1, <2>2
<1>7. CASE known = {} /\ batches' = Append(batches, Unreadable(request)) /\ UNCHANGED rows
  <2> DEFINE none == [r \in {} |-> None]
  <2>1. DOMAIN none = {}
    OBVIOUS
  <2> HIDE DEF none
  <2>2. Grown(Len(batches) + 1, none)
    BY <1>6, <1>7, <2>1 DEF Grown
  <2>3. NewRowsFit(Len(batches) + 1, none)
    BY <2>1, FS_EmptySet DEF NewRowsFit
  <2>4. "failed" \in BatchStates /\ "failed" = StateOf("failed", Len(batches) + 1, none)
    BY DEF BatchStates, StateOf
  <2> DEFINE nb == Unreadable(request)
  <2>5. nb.state = "failed" /\ nb.request = request /\ nb \in Imports
    BY <1>3, <2>4 DEF Unreadable, Imports
  <2> HIDE DEF nb
  <2>6. batches' = Append(batches, nb)
    BY <1>7 DEF nb
  <2>7. QED
    BY <1>5, <1>7, <2>2, <2>3, <2>4, <2>5, <2>6
<1> DEFINE Read(k) ==
             \E new \in Readings(k, upload.call.file) :
                /\ rows' = [r \in DOMAIN new \cup DOMAIN rows |-> IF r \in DOMAIN new THEN new[r] ELSE rows[r]]
                /\ batches' = Append(batches, [Unreadable(request) EXCEPT !.state =
                        IF \E r \in DOMAIN new : new[r].state = "pending" THEN "validating" ELSE "ready"])
<1>8. CASE known = {} /\ Read(Len(batches) + 1)
  <2>1. PICK new \in Readings(Len(batches) + 1, upload.call.file) :
          /\ rows' = [r \in DOMAIN new \cup DOMAIN rows |-> IF r \in DOMAIN new THEN new[r] ELSE rows[r]]
          /\ batches' = Append(batches, [Unreadable(request) EXCEPT !.state =
                  IF \E r \in DOMAIN new : new[r].state = "pending" THEN "validating" ELSE "ready"])
    BY <1>8
  <2> DEFINE s == IF \E r \in DOMAIN new : new[r].state = "pending" THEN "validating" ELSE "ready"
  <2>2. NewRowsFit(Len(batches) + 1, new) /\ s = StateOf(s, Len(batches) + 1, new)
    BY <1>3, ReadingIs
  <2>3. s \in BatchStates
    BY DEF BatchStates
  <2> DEFINE nb == [Unreadable(request) EXCEPT !.state = s]
  <2>4. batches' = Append(batches, nb)
    BY <2>1
  <2>5. Grown(Len(batches) + 1, new)
    <3>1. \A r \in DOMAIN new : r[1] = Len(batches) + 1
      BY <2>2 DEF NewRowsFit
    <3>2. QED
      BY <1>6, <2>1, <3>1 DEF Grown
  <2> HIDE DEF s
  <2>6. nb.state = s /\ nb.request = request /\ nb \in Imports
    BY <1>3, <2>3 DEF Unreadable, Imports
  <2> HIDE DEF nb
  <2>7. QED
    BY <1>5, <1>8, <2>2, <2>4, <2>5, <2>6
<1>9. \/ known # {} /\ UNCHANGED <<batches, rows>>
      \/ known = {} /\ batches' = Append(batches, Unreadable(request)) /\ UNCHANGED rows
      \/ known = {} /\ Read(b)
  BY DEF CreateBatch
<1>10. known = {} => b = Len(batches) + 1
  OBVIOUS
<1> HIDE DEF known, b, Read
<1>11. QED
  BY <1>4, <1>7, <1>8, <1>9, <1>10


LEMMA PruneKeeps ==
  ASSUME ImportKept, Prune
  PROVE  ImportKept' /\ Settles
<1>1. PICK b \in DOMAIN batches :
        /\ ~batches[b].pruned
        /\ batches' = [batches EXCEPT ![b] = [batches[b] EXCEPT !.pruned = TRUE,
                           !.state = IF batches[b].state \in ClosedStates THEN batches[b].state ELSE "cancelled"]]
        /\ rows' = [r \in {q \in DOMAIN rows : q[1] # b \/ rows[q].state = "imported"} |-> rows[r]]
  BY DEF Prune
<1> DEFINE s == IF batches[b].state \in ClosedStates THEN batches[b].state ELSE "cancelled"
           nb == [batches[b] EXCEPT !.pruned = TRUE, !.state = s]
<1>2. RowsFit(batches, rows) /\ MadeFits(rows, made) /\ LeasesFit(rows) /\ BatchesFit(batches, rows)
  BY DEF ImportKept, RowsKept
<1>3. batches \in Seq(Imports) /\ StatesStand(batches, rows) /\ DOMAIN batches = 1 .. Len(batches)
  BY <1>2, LenProperties DEF BatchesFit
<1>4. batches[b] \in Imports
  BY <1>3, ElementOfSeq
<1>5. nb \in Imports /\ nb.request = batches[b].request /\ nb.pruned
  <2>1. s \in BatchStates
    BY <1>4 DEF Imports, BatchStates
  <2> HIDE DEF s
  <2>2. QED
    BY <1>4, <2>1 DEF Imports
<1>6. batches' = [batches EXCEPT ![b] = nb]
  BY <1>1
<1> HIDE DEF nb
<1>7. /\ batches' \in Seq(Imports) /\ Len(batches') = Len(batches)
      /\ \A j \in 1 .. Len(batches) : batches'[j] = IF j = b THEN nb ELSE batches[j]
  BY <1>3, <1>5, <1>6, ExceptSeq
<1>8. DOMAIN batches' = DOMAIN batches
  BY <1>3, <1>7, LenProperties
<1>9. SameBatches
  BY <1>3, <1>5, <1>7, <1>8 DEF SameBatches
<1>10. /\ \A r \in DOMAIN rows' : r \in DOMAIN rows /\ rows'[r] = rows[r]
       /\ \A r \in DOMAIN rows : r[1] # b \/ rows[r].state = "imported" => r \in DOMAIN rows'
  BY <1>1
<1>11. ASSUME NEW c \in DOMAIN batches, ~batches'[c].pruned
       PROVE  batches'[c].state = StateOf(batches'[c].state, c, rows')
  <2>1. c # b
    BY <1>3, <1>5, <1>7, <1>11
  <2>2. batches'[c] = batches[c]
    BY <1>3, <1>7, <2>1
  <2>3. LooksSame(c, rows, rows')
    BY <1>10, <2>1 DEF LooksSame, LooksAs
  <2>4. StateOf(batches[c].state, c, rows') = StateOf(batches[c].state, c, rows)
    BY <2>3, StateSame
  <2>5. batches[c].state = StateOf(batches[c].state, c, rows)
    BY <1>3, <1>11, <2>2 DEF StatesStand
  <2>6. QED
    BY <2>2, <2>4, <2>5
<1>12. BatchesFit(batches', rows')
  BY <1>7, <1>8, <1>11 DEF BatchesFit, StatesStand
<1>13. RowsFit(batches', rows')
  BY <1>2, <1>8, <1>10 DEF RowsFit
<1>14. made' = made /\ {r \in DOMAIN rows' : rows'[r].state = "imported"} = {r \in DOMAIN rows : rows[r].state = "imported"}
  BY <1>10 DEF Prune
<1>15. MadeFits(rows', made')
  BY <1>2, <1>14, Zenon DEF MadeFits
<1>16. IsFiniteSet(DOMAIN rows') /\ Leased(rows') \subseteq Leased(rows)
  BY <1>2, <1>10, FS_Subset DEF LeasesFit, Leased
<1>17. LeasesFit(rows')
  BY <1>2, <1>16, FewerLeased
<1>18. RowsKept' /\ Settles
  BY <1>10, <1>12, <1>13, <1>15, <1>17 DEF RowsKept, Settles
<1>19. upload' = upload /\ staffPage' = staffPage /\ working' = working
  BY DEF Prune
<1>20. PageFits(batches', staffPage') /\ UploadFits(batches', upload')
  BY <1>9, <1>19, PageStays, UploadStays DEF ImportKept
<1>21. ASSUME NEW r, NEW d, Answered(rows, r, d)
       PROVE  Answered(rows', r, d)
  BY <1>10, <1>21 DEF Answered
<1>22. CallFits(batches, rows, working) => CallFits(batches', rows', working')
  BY <1>8, <1>19, <1>21 DEF CallFits
<1>23. QED
  BY <1>18, <1>20, <1>22 DEF ImportKept


LEMMA PageChanges ==
  ASSUME NEW p, p # None, PageFits(batches, p), NEW v
  PROVE  /\ PageFits(batches, [p EXCEPT !.view = v]) /\ PageFits(batches, [p EXCEPT !.selected = v])
         /\ PageFits(batches, [p EXCEPT !.waits = v])
BY DEF PageFits

LEMMA RepliesFit ==
  ASSUME PageFits(batches, staffPage), NEW ok, Replies(ok)
  PROVE  PageFits(batches, staffPage') /\ CallFits(batches', rows', working')
<1>1. CallFits(batches', rows', working')
  BY DEF Replies, CallFits
<1>2. CASE staffPage # None /\ staffPage.waits
  <2> DEFINE v == IF ok THEN {} ELSE staffPage.selected
             p == [staffPage EXCEPT !.waits = FALSE]
  <2>1. staffPage' = [p EXCEPT !.selected = v]
    BY <1>2 DEF Replies
  <2>2. DOMAIN staffPage = {"batch", "view", "selected", "waits"} /\ staffPage.batch \in DOMAIN batches
    BY <1>2 DEF PageFits
  <2>3. DOMAIN staffPage' = {"batch", "view", "selected", "waits"} /\ staffPage'.batch = staffPage.batch
    BY <2>1, <2>2
  <2>4. QED
    BY <1>1, <2>2, <2>3 DEF PageFits
<1>3. CASE ~(staffPage # None /\ staffPage.waits)
  BY <1>1, <1>3 DEF Replies
<1>4. QED
  BY <1>2, <1>3

LEMMA GoesFits ==
  ASSUME CallFits(batches, rows, working), working # None, NEW step, step # "override", NEW token, NEW todo,
         Goes(step, token, todo)
  PROVE  CallFits(batches, rows, working') /\ staffPage' = staffPage
<1>1. DOMAIN working = {"step", "batch", "pairs", "token", "todo"} /\ working.batch \in DOMAIN batches
  BY DEF CallFits
<1>2. working' = [working EXCEPT !.step = step, !.pairs = {}, !.token = token, !.todo = todo] /\ staffPage' = staffPage
  BY DEF Goes
<1>3. DOMAIN working' = DOMAIN working /\ working'.batch = working.batch /\ working'.step = step
  BY <1>1, <1>2
<1>4. QED
  BY <1>1, <1>2, <1>3 DEF CallFits

LEMMA RunFits ==
  ASSUME PageFits(batches, staffPage), staffPage # None, NEW step, NEW pairs, Run(step, pairs),
         step = "override" => \A p \in pairs : Answered(rows', <<staffPage.batch, p.row>>, p.digest)
  PROVE  PageFits(batches, staffPage') /\ CallFits(batches', rows', working')
<1>1. staffPage' = [staffPage EXCEPT !.waits = TRUE] /\ batches' = batches
      /\ working' = [step |-> step, batch |-> staffPage.batch, pairs |-> pairs, token |-> 0, todo |-> {}]
  BY DEF Run
<1>2. PageFits(batches, staffPage')
  BY <1>1, PageChanges
<1>3. staffPage.batch \in DOMAIN batches
  BY DEF PageFits
<1>4. DOMAIN working' = {"step", "batch", "pairs", "token", "todo"} /\ working'.batch = staffPage.batch
      /\ working'.step = step /\ working'.pairs = pairs
  BY <1>1
<1>5. QED
  BY <1>1, <1>2, <1>3, <1>4 DEF CallFits

LEMMA ColleagueKeeps ==
  ASSUME ImportKept, Colleague
  PROVE  Keeps
<1>1. PICK b \in DOMAIN batches :
         \/ /\ MayClaim(b) /\ rows[First(LookupsDue(b))].tries < MaxTries /\ TakeLease(First(LookupsDue(b)))
            /\ UNCHANGED <<made>>
         \/ /\ Open(b) /\ UNCHANGED <<made>>
            /\ \E r \in RowsOf(b), outcome \in Outcomes :
                 /\ rows[r].until = "lease" /\ (working # None => rows[r].token # working.token)
                 /\ Record(r, rows[r].token, outcome)
         \/ /\ Open(b) /\ UNCHANGED <<made, lookups>>
            /\ \E r \in RowsOf(b) :
                 /\ rows[r].state = "duplicate_possible"
                 /\ Write(b, [rows EXCEPT ![r] =
                      [Resolved("override", r, rows[r].digest) EXCEPT !.warned = rows[r].warned \cup {rows[r].digest}]])
         \/ /\ Open(b) /\ (\E r \in RowsOf(b) : Write(b, [rows EXCEPT ![r] = Resolved("skip", r, None)]))
            /\ UNCHANGED <<made, lookups>>
         \/ /\ \E r \in RowsOf(b) : /\ AsReviewed(b, [row |-> r[2], digest |-> rows[r].digest])
                                    /\ RequestAll(b, {[row |-> r[2], digest |-> rows[r].digest]})
            /\ UNCHANGED <<made, lookups>>
         \/ (\E r \in RowsOf(b) : MayImport(r) /\ ImportRow(r)) /\ UNCHANGED <<lookups>>
         \/ CancelBatch(b) /\ UNCHANGED <<made, lookups>>
  BY Zenon DEF Colleague
<1>2. RowsKept /\ RowsFit(batches, rows)
  BY DEF ImportKept, RowsKept
<1>3. \A r \in RowsOf(b) : r \in DOMAIN rows /\ r[1] = b
  BY DEF RowsOf
<1>4. ASSUME MayClaim(b), TakeLease(First(LookupsDue(b))), made' = made
      PROVE  Keeps
  <2>1. LookupsDue(b) # {} /\ LookupsDue(b) \subseteq Nat \X Nat
    BY <1>2, <1>4 DEF MayClaim, LookupsDue, RowsOf, RowsFit
  <2>2. First(LookupsDue(b)) \in LookupsDue(b)
    BY <2>1, FirstIs
  <2>3. QED
    BY <1>2, <1>4, <2>2, TakeLeaseKeeps
<1>5. ASSUME NEW r, NEW token, NEW outcome \in Outcomes, Record(r, token, outcome), made' = made
      PROVE  Keeps
  BY <1>2, <1>5, RecordKeeps
<1>6. ASSUME NEW r \in RowsOf(b), rows[r].state = "duplicate_possible", made' = made,
             Write(b, [rows EXCEPT ![r] =
               [Resolved("override", r, rows[r].digest) EXCEPT !.warned = rows[r].warned \cup {rows[r].digest}]])
      PROVE  Keeps
  <2>1. Put(r, [Resolved("override", r, rows[r].digest) EXCEPT !.warned = rows[r].warned \cup {rows[r].digest}])
    BY <1>3, <1>6 DEF Put
  <2>2. QED
    BY <1>2, <1>3, <1>6, <2>1, AnsweredKeeps
<1>7. ASSUME NEW r \in RowsOf(b), Write(b, [rows EXCEPT ![r] = Resolved("skip", r, None)]), made' = made
      PROVE  Keeps
  <2>1. Put(r, Resolved("skip", r, None))
    BY <1>3, <1>7 DEF Put
  <2>2. QED
    BY <1>2, <1>3, <1>7, <2>1, SkippedKeeps
<1>8. ASSUME NEW p, AsReviewed(b, p), RequestAll(b, {p}), made' = made
      PROVE  Keeps
  BY <1>2, <1>8, RequestKeeps
<1>9. ASSUME NEW r, MayImport(r), ImportRow(r)
      PROVE  Keeps
  BY <1>2, <1>9, ImportRowKeeps
<1>10. ASSUME CancelBatch(b), made' = made
       PROVE  Keeps
  BY <1>2, <1>10, CancelKeeps
<1>11. QED
  BY <1>1, <1>4, <1>5, <1>6, <1>7, <1>8, <1>9, <1>10


\* The steps of a call
LEMMA ClaimKeeps ==
  ASSUME ImportKept, ClaimLookup
  PROVE  ImportKept' /\ Settles
<1> DEFINE b == working.batch
           r == First(LookupsDue(b))
<1>1. /\ RowsKept /\ RowsFit(batches, rows) /\ PageFits(batches, staffPage) /\ CallFits(batches, rows, working)
      /\ working # None /\ made' = made /\ upload' = upload
  BY DEF ImportKept, RowsKept, ClaimLookup, At
<1>2. ASSUME MayClaim(b)
      PROVE  r \in LookupsDue(b)
  <2>1. LookupsDue(b) # {} /\ LookupsDue(b) \subseteq Nat \X Nat
    BY <1>1, <1>2 DEF MayClaim, LookupsDue, RowsOf, RowsFit
  <2>2. QED
    BY <2>1, FirstIs
<1>3. ASSUME Replies(FALSE), UNCHANGED <<batches, rows>>
      PROVE  ImportKept' /\ Settles
  BY <1>1, <1>3, RepliesFit, NothingWritten, KeptBy
<1>4. ASSUME Goes("progress", 0, {}), UNCHANGED <<batches, rows>>
      PROVE  ImportKept' /\ Settles
  <2>1. CallFits(batches, rows, working') /\ staffPage' = staffPage
    BY <1>1, <1>4, GoesFits
  <2>2. QED
    BY <1>1, <1>4, <2>1, NothingWritten, KeptBy
<1>5. ASSUME MayClaim(b), GiveUp(r), Goes("progress", 0, {})
      PROVE  ImportKept' /\ Settles
  <2>1. CallFits(batches, rows, working') /\ staffPage' = staffPage
    BY <1>1, <1>5, GoesFits
  <2>2. r \in DOMAIN rows /\ rows[r].state \in {"pending", "geocoding"} /\ rows[r].until = "now"
    BY <1>2, <1>5 DEF LookupsDue, RowsOf
  <2>3. Keeps
    BY <1>1, <1>5, <2>2, GiveUpKeeps
  <2>4. QED
    BY <1>1, <2>1, <2>3, KeptBy
<1>6. ASSUME MayClaim(b), TakeLease(r), NEW token, NEW todo, Goes("complete", token, todo)
      PROVE  ImportKept' /\ Settles
  <2>1. CallFits(batches, rows, working') /\ staffPage' = staffPage
    BY <1>1, <1>6, GoesFits
  <2>2. Keeps
    BY <1>1, <1>2, <1>6, TakeLeaseKeeps
  <2>3. QED
    BY <1>1, <2>1, <2>2, KeptBy
<1>7. \/ Replies(FALSE) /\ UNCHANGED <<batches, rows>>
      \/ Goes("progress", 0, {}) /\ UNCHANGED <<batches, rows>>
      \/ MayClaim(b) /\ GiveUp(r) /\ Goes("progress", 0, {})
      \/ MayClaim(b) /\ TakeLease(r) /\ Goes("complete", lookups.used + 1, {r})
  BY DEF ClaimLookup
<1> HIDE DEF r, b
<1>8. QED
  BY <1>3, <1>4, <1>5, <1>6, <1>7

LEMMA CompleteKeeps ==
  ASSUME ImportKept, Complete
  PROVE  ImportKept' /\ Settles
<1>1. /\ RowsKept /\ PageFits(batches, staffPage) /\ CallFits(batches, rows, working)
      /\ working # None /\ made' = made /\ upload' = upload
  BY DEF ImportKept, Complete, At
<1>2. CASE Replies(FALSE) /\ UNCHANGED <<batches, rows>>
  BY <1>1, <1>2, RepliesFit, NothingWritten, KeptBy
<1>3. ASSUME NEW outcome \in Outcomes, NEW r, NEW step \in {"claim", "progress"},
             Record(r, working.token, outcome), Goes(step, 0, {})
      PROVE  ImportKept' /\ Settles
  <2>1. CallFits(batches, rows, working') /\ staffPage' = staffPage
    BY <1>1, <1>3, GoesFits
  <2>2. Keeps
    BY <1>1, <1>3, RecordKeeps
  <2>3. QED
    BY <1>1, <2>1, <2>2, KeptBy
<1>4. QED
  BY <1>2, <1>3 DEF Complete

LEMMA ResolveStep ==
  ASSUME ImportKept, Resolve
  PROVE  ImportKept' /\ Settles
<1>1. /\ RowsKept /\ PageFits(batches, staffPage) /\ CallFits(batches, rows, working)
      /\ working # None /\ made' = made /\ upload' = upload
  BY DEF ImportKept, Resolve
<1> DEFINE r(p) == <<working.batch, p.row>>
           row(p) == IF Open(working.batch) THEN Resolved(working.step, r(p), p.digest) ELSE None
<1>2. PICK p \in working.pairs :
         /\ Replies(row(p) # None)
         /\ IF row(p) = None THEN UNCHANGED <<batches, rows>>
                             ELSE Write(working.batch, [rows EXCEPT ![r(p)] = row(p)])
  BY DEF Resolve
<1>3. PageFits(batches, staffPage') /\ CallFits(batches', rows', working')
  BY <1>1, <1>2, RepliesFit
<1>4. Keeps
  <2>1. CASE row(p) = None
    <3>1. UNCHANGED <<batches, rows>>
      BY <1>2, <2>1
    <3>2. QED
      BY <1>1, <3>1, NothingWritten
  <2>2. CASE row(p) # None
    <3>1. row(p) = Resolved(working.step, r(p), p.digest)
      BY <2>2
    <3>2. Write(working.batch, [rows EXCEPT ![r(p)] = row(p)])
      BY <1>2, <2>2
    <3>3. working.batch \in DOMAIN batches /\ (working.step = "override" => Answered(rows, r(p), p.digest))
      BY <1>1, <1>2 DEF CallFits
    <3>4. Resolved(working.step, r(p), p.digest) # None
          /\ Write(working.batch, [rows EXCEPT ![r(p)] = Resolved(working.step, r(p), p.digest)])
      BY <2>2, <3>1, <3>2
    <3>5. QED
      BY <1>1, <3>3, <3>4, ResolveKeeps
  <2>3. QED
    BY <2>1, <2>2
<1>5. QED
  BY <1>1, <1>3, <1>4, KeptBy

LEMMA RequestStep ==
  ASSUME ImportKept, RequestRows
  PROVE  ImportKept' /\ Settles
<1>1. /\ RowsKept /\ PageFits(batches, staffPage) /\ CallFits(batches, rows, working)
      /\ working # None /\ made' = made /\ upload' = upload
  BY DEF ImportKept, RequestRows, At
<1>2. CASE \A p \in working.pairs : AsReviewed(working.batch, p)
  <2>1. RequestAll(working.batch, working.pairs) /\ Goes("progress", 0, {})
    BY <1>2 DEF RequestRows
  <2>2. CallFits(batches, rows, working') /\ staffPage' = staffPage
    BY <1>1, <2>1, GoesFits
  <2>3. working.batch \in DOMAIN batches
    BY <1>1 DEF CallFits
  <2>4. Keeps
    BY <1>1, <1>2, <2>1, <2>3, RequestKeeps
  <2>5. QED
    BY <1>1, <2>2, <2>4, KeptBy
<1>3. CASE ~ \A p \in working.pairs : AsReviewed(working.batch, p)
  <2>1. Replies(FALSE) /\ UNCHANGED <<batches, rows>>
    BY <1>3 DEF RequestRows
  <2>2. QED
    BY <1>1, <2>1, RepliesFit, NothingWritten, KeptBy
<1>4. QED
  BY <1>2, <1>3

LEMMA ImportStep ==
  ASSUME ImportKept, ImportNext
  PROVE  ImportKept' /\ Settles
<1> DEFINE r == First(working.todo)
<1>1. /\ RowsKept /\ PageFits(batches, staffPage) /\ CallFits(batches, rows, working)
      /\ working # None /\ upload' = upload
  BY DEF ImportKept, ImportNext, At
<1>2. \/ Goes("import", 0, working.todo \ {r}) /\ UNCHANGED <<batches, rows, made>>
      \/ MayImport(r) /\ ImportRow(r) /\ Goes("import", 0, working.todo \ {r})
      \/ Replies(FALSE) /\ UNCHANGED <<batches, rows, made>>
  BY DEF ImportNext
<1>3. Goes("import", 0, working.todo \ {r}) => CallFits(batches, rows, working') /\ staffPage' = staffPage
  BY <1>1, GoesFits
<1> HIDE DEF r
<1>4. CASE Goes("import", 0, working.todo \ {r}) /\ UNCHANGED <<batches, rows, made>>
  BY <1>1, <1>3, <1>4, NothingWritten, KeptBy
<1>5. CASE MayImport(r) /\ ImportRow(r) /\ Goes("import", 0, working.todo \ {r})
  <2>1. Keeps
    BY <1>1, <1>5, ImportRowKeeps
  <2>2. QED
    BY <1>1, <1>3, <1>5, <2>1, KeptBy
<1>6. CASE Replies(FALSE) /\ UNCHANGED <<batches, rows, made>>
  BY <1>1, <1>6, RepliesFit, NothingWritten, KeptBy
<1>7. QED
  BY <1>2, <1>4, <1>5, <1>6


\* The page's steps
LEMMA PageStep ==
  ASSUME ImportKept, OpenBatch \/ Refetch \/ SelectRow \/ CallUnanswered
  PROVE  ImportKept' /\ Settles
<1>1. /\ RowsKept /\ PageFits(batches, staffPage) /\ CallFits(batches, rows, working)
      /\ UNCHANGED <<batches, rows, made, upload, working>>
  BY DEF ImportKept, OpenBatch, Refetch, SelectRow, CallUnanswered
<1>2. PageFits(batches, staffPage')
  <2>1. CASE OpenBatch
    <3>1. PICK b \in DOMAIN batches : staffPage' = Showing(b)
      BY <2>1 DEF OpenBatch
    <3>2. DOMAIN staffPage' = {"batch", "view", "selected", "waits"} /\ staffPage'.batch = b
      BY <3>1 DEF Showing
    <3>3. QED
      BY <3>2 DEF PageFits
  <2>2. CASE Refetch
    BY <1>1, <2>2, PageChanges DEF Refetch
  <2>3. CASE SelectRow
    <3>1. PICK v : staffPage' = [staffPage EXCEPT !.selected = v]
      BY <2>3 DEF SelectRow
    <3>2. staffPage # None
      BY <2>3 DEF SelectRow, CanAct
    <3>3. QED
      BY <1>1, <3>1, <3>2, PageChanges
  <2>4. CASE CallUnanswered
    BY <1>1, <2>4, PageChanges DEF CallUnanswered
  <2>5. QED
    BY <2>1, <2>2, <2>3, <2>4
<1>3. QED
  BY <1>1, <1>2, NothingWritten, KeptBy

LEMMA RunStep ==
  ASSUME ImportKept, Continue \/ Cancel \/ Skip \/ Retry \/ ImportSelected
  PROVE  ImportKept' /\ Settles
<1>1. RowsKept /\ PageFits(batches, staffPage)
  BY DEF ImportKept
<1>2. PICK step, pairs : Run(step, pairs) /\ step # "override" /\ staffPage # None /\ rows' = rows
  <2>1. CASE Continue
    BY <2>1 DEF Continue, CanAct
  <2>2. CASE Cancel
    BY <2>2 DEF Cancel, CanAct
  <2>3. CASE Skip
    BY <2>3 DEF Skip, CanAct
  <2>4. CASE Retry
    BY <2>4 DEF Retry, CanAct
  <2>5. CASE ImportSelected
    BY <2>5 DEF ImportSelected, CanAct
  <2>6. QED
    BY <2>1, <2>2, <2>3, <2>4, <2>5
<1>3. UNCHANGED <<batches, made, upload>>
  BY <1>2 DEF Run
<1>4. PageFits(batches, staffPage') /\ CallFits(batches', rows', working')
  BY <1>1, <1>2, RunFits
<1>5. QED
  BY <1>1, <1>2, <1>3, <1>4, NothingWritten, KeptBy

\* What was shown is answered before it is sent.
LEMMA AnywayStep ==
  ASSUME ImportKept, ImportAnyway
  PROVE  ImportKept' /\ Settles
<1>1. RowsKept /\ PageFits(batches, staffPage)
  BY DEF ImportKept
<1>2. PICK n : Run("override", Pairs({n})) /\ Warned(<<staffPage.batch, n>>, staffPage.view.rows[n].digest)
  BY DEF ImportAnyway
<1>3. staffPage # None
  BY DEF ImportAnyway, CanAct
<1>4. UNCHANGED <<batches, made, upload>>
  BY <1>2 DEF Run
<1>5. Keeps /\ Answered(rows', <<staffPage.batch, n>>, staffPage.view.rows[n].digest)
  BY <1>1, <1>2, <1>4, WarnedKeeps
<1>6. \A p \in Pairs({n}) : p.row = n /\ p.digest = staffPage.view.rows[n].digest
  BY DEF Pairs
<1>7. PageFits(batches, staffPage') /\ CallFits(batches', rows', working')
  BY <1>1, <1>2, <1>3, <1>5, <1>6, RunFits
<1>8. QED
  BY <1>4, <1>5, <1>7, KeptBy

LEMMA UploadStep ==
  ASSUME ImportKept, (\E f \in Files : UploadFile(f)) \/ UploadAnswered \/ UploadUnanswered
  PROVE  ImportKept' /\ Settles
<1>1. /\ RowsKept /\ UploadFits(batches, upload) /\ PageFits(batches, staffPage) /\ CallFits(batches, rows, working)
      /\ batches \in Seq(Imports)
  BY DEF ImportKept, RowsKept, BatchesFit
<1>2. UNCHANGED <<batches, rows, made, working>>
  BY DEF UploadFile, UploadAnswered, UploadUnanswered
<1>3. UploadFits(batches', upload')
  BY <1>1, UploadAsked, UploadSettled, UploadLost
<1>4. PageFits(batches, staffPage')
  <2>1. CASE \E f \in Files : UploadFile(f)
    BY <2>1 DEF UploadFile, PageFits
  <2>2. CASE UploadUnanswered
    BY <1>1, <2>2 DEF UploadUnanswered
  <2>3. CASE UploadAnswered
    <3>1. staffPage' = Showing(upload.call.batch) /\ upload.call.batch \in DOMAIN batches
      BY <1>1, <2>3 DEF UploadAnswered, UploadFits
    <3>2. DOMAIN staffPage' = {"batch", "view", "selected", "waits"} /\ staffPage'.batch = upload.call.batch
      BY <3>1 DEF Showing
    <3>3. QED
      BY <3>1, <3>2 DEF PageFits
  <2>4. QED
    BY <2>1, <2>2, <2>3
<1>5. Keeps
  BY <1>1, <1>2, NothingWritten
<1>6. RowsKept' /\ SameBatches /\ Rewritten
  BY <1>5 DEF Keeps
<1>7. PageFits(batches', staffPage') /\ CallFits(batches', rows', working') /\ Settles
  BY <1>1, <1>2, <1>4, <1>6, PageStays, CallStays, StaysSettled
<1>8. QED
  BY <1>3, <1>6, <1>7 DEF ImportKept

\* Replies, and what others and time do
LEMMA OtherStep ==
  ASSUME ImportKept, CancelAll \/ ReadProgress \/ Finish \/ HandlerDies \/ Colleague \/ TimePasses \/ ResumeProvider
  PROVE  ImportKept' /\ Settles
<1>1. RowsKept /\ PageFits(batches, staffPage) /\ CallFits(batches, rows, working)
  BY DEF ImportKept
<1>2. CASE CancelAll
  <2>1. CancelBatch(working.batch) /\ Replies(TRUE) /\ made' = made /\ upload' = upload /\ working # None
    BY <1>2 DEF CancelAll, At
  <2>2. working.batch \in DOMAIN batches
    BY <1>1, <2>1 DEF CallFits
  <2>3. Keeps
    BY <1>1, <2>1, <2>2, CancelKeeps
  <2>4. QED
    BY <1>1, <2>1, <2>3, RepliesFit, KeptBy
<1>3. CASE ReadProgress
  <2>1. PICK todo : Goes("import", 0, todo)
    BY <1>3 DEF ReadProgress
  <2>2. UNCHANGED <<batches, rows, made, upload>> /\ working # None
    BY <1>3 DEF ReadProgress, At
  <2>3. CallFits(batches, rows, working') /\ staffPage' = staffPage
    BY <1>1, <2>1, <2>2, GoesFits
  <2>4. QED
    BY <1>1, <2>2, <2>3, NothingWritten, KeptBy
<1>4. CASE Finish \/ HandlerDies
  <2>1. PICK ok : Replies(ok)
    BY <1>4 DEF Finish, HandlerDies
  <2>2. UNCHANGED <<batches, rows, made, upload>>
    BY <1>4 DEF Finish, HandlerDies
  <2>3. QED
    BY <1>1, <2>1, <2>2, RepliesFit, NothingWritten, KeptBy
<1>5. CASE Colleague
  <2>1. upload' = upload /\ staffPage' = staffPage /\ working' = working
    BY <1>5 DEF Colleague
  <2>2. QED
    BY <1>1, <1>5, <2>1, ColleagueKeeps, KeptBy
<1>6. CASE TimePasses
  <2>1. UNCHANGED <<batches, made, upload, staffPage, working>>
    BY <1>6 DEF TimePasses
  <2>2. PICK r \in DOMAIN rows : rows[r].until # "now" /\ rows' = [rows EXCEPT ![r] = [rows[r] EXCEPT !.until = "now"]]
    BY <1>6 DEF TimePasses
  <2>3. Keeps
    BY <1>1, <2>1, <2>2, TimePassesKeeps
  <2>4. QED
    BY <1>1, <2>1, <2>3, KeptBy
<1>7. CASE ResumeProvider
  <2>1. UNCHANGED <<batches, rows, made, upload, staffPage, working>>
    BY <1>7 DEF ResumeProvider
  <2>2. QED
    BY <1>1, <2>1, NothingWritten, KeptBy
<1>8. QED
  BY <1>2, <1>3, <1>4, <1>5, <1>6, <1>7

LEMMA ImportBegins ==
  ASSUME ImportInit
  PROVE  ImportKept
<1>1. /\ batches = <<>> /\ DOMAIN rows = {} /\ made = {} /\ staffPage = None /\ working = None
      /\ upload = [key |-> [f \in Files |-> 0], call |-> None, last |-> 0, settled |-> 0]
  BY DEF ImportInit
<1>2. batches \in Seq(Imports) /\ DOMAIN batches = {} /\ Len(batches) = 0
  BY <1>1
<1>3. RowsFit(batches, rows) /\ MadeFits(rows, made) /\ BatchesFit(batches, rows)
  BY <1>1, <1>2 DEF RowsFit, MadeFits, BatchesFit, StatesStand
<1>4. Leased(rows) = {}
  BY <1>1 DEF Leased
<1>5. LeasesFit(rows)
  BY <1>1, <1>4, FS_EmptySet, ImportAssumption DEF LeasesFit
<1>6. upload \in Uploads /\ upload.key \in [Files -> Nat] /\ (\A f \in Files : upload.key[f] = 0) /\ upload.last = 0
      /\ upload.settled = 0 /\ upload.call = None
  BY <1>1 DEF Uploads
<1>7. Having(batches, upload) = {}
  BY <1>6 DEF Having
<1>8. UploadFits(batches, upload)
  BY <1>2, <1>6, <1>7, FS_EmptySet DEF UploadFits
<1>9. QED
  BY <1>1, <1>3, <1>5, <1>8 DEF ImportKept, RowsKept, PageFits, CallFits

LEMMA ImportKeeps ==
  ASSUME ImportKept, [EventImportNext]_importVars
  PROVE  ImportKept' /\ Settles
<1>1. CASE EventImportNext
  BY <1>1, UploadStep, CreateBatchKeeps, PageStep, RunStep, AnywayStep, ClaimKeeps, CompleteKeeps, ResolveStep,
     RequestStep, ImportStep, OtherStep, PruneKeeps DEF EventImportNext
<1>2. CASE UNCHANGED importVars
  <2>1. UNCHANGED <<batches, rows, made, upload, staffPage, working>>
    BY <1>2 DEF importVars
  <2>2. QED
    BY <2>1, NothingWritten, KeptBy DEF ImportKept
<1>3. QED
  BY <1>1, <1>2

LEMMA ImportIsPromised ==
  ASSUME ImportKept
  PROVE  OneEventPerRow /\ NothingBehindTheirBacks /\ StateOfTheBatch /\ UploadedOnce /\ LeasesHold
<1>1. /\ RowsFit(batches, rows) /\ MadeFits(rows, made) /\ LeasesFit(rows) /\ BatchesFit(batches, rows)
      /\ UploadFits(batches, upload)
  BY DEF ImportKept, RowsKept
<1>2. OneEventPerRow /\ NothingBehindTheirBacks
  BY <1>1 DEF MadeFits, OneEventPerRow, NothingBehindTheirBacks
<1>3. StateOfTheBatch
  BY <1>1, StatesAreOfRows DEF BatchesFit
<1>4. LeasesHold
  BY <1>1 DEF LeasesFit, Leased, LeasesHold, RowsFit, RowFits
<1>5. UploadedOnce
  <2> DEFINE kept == {f \in Files : upload.key[f] # 0}
  <2>1. Having(batches, upload) \subseteq kept /\ kept \subseteq Files
    BY DEF Having
  <2>2. IsFiniteSet(kept) /\ IsFiniteSet(Having(batches, upload))
    BY <2>1, FS_Subset, ImportAssumption
  <2>3. Cardinality(Having(batches, upload)) <= Cardinality(kept)
    BY <2>1, <2>2, FS_Subset
  <2>4. Cardinality(Having(batches, upload)) \in Nat /\ Cardinality(kept) \in Nat
    BY <2>2, FS_CardinalityType
  <2>5. Len(batches) \in Nat /\ upload.settled \in Nat
    BY <1>1, LenProperties DEF BatchesFit, UploadFits, Uploads
  <2>6. Len(batches) <= upload.settled + Cardinality(Having(batches, upload))
    BY <1>1 DEF UploadFits
  <2>7. QED
    BY <2>3, <2>4, <2>5, <2>6 DEF UploadedOnce
<1>6. QED
  BY <1>2, <1>3, <1>4, <1>5

\* What the import promises holds of every batch, however many administrators, calls and
\* lost answers there are: a row becomes one event, and none behind an administrator's back
\* (event-import-process and the server_* functions of the import migrations).
THEOREM ImportIsKept == EventImportSpec => ImportPromise
<1>1. ImportInit => ImportKept
  BY ImportBegins
<1>2. ImportKept /\ [EventImportNext]_importVars => ImportKept' /\ Settles
  BY ImportKeeps
<1>3. ImportKept => OneEventPerRow /\ NothingBehindTheirBacks /\ StateOfTheBatch /\ UploadedOnce /\ LeasesHold
  BY ImportIsPromised
<1>4. Settles => [\A r \in DOMAIN rows \cap DOMAIN rows' : rows[r].state \in Final => rows'[r] = rows[r]]_rows
  BY DEF Settles
<1>5. QED
  BY <1>1, <1>2, <1>3, <1>4, PTL DEF EventImportSpec, ImportPromise, RowsStaySettled


=============================================================================
