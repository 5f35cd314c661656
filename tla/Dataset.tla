------------------------------ MODULE Dataset ------------------------------
(***************************************************************************)
(* The dataset (internal/data, schema/catalog.go): CSV files joined and    *)
(* ordered, a cache that stands for them while they do not change, a split *)
(* by time, and the payload a payment is replayed with.                    *)
(*                                                                         *)
(* A transaction is [id, dt, amount, card, device, fraud]: amount and card *)
(* stand for the numeric columns and device for the strings; amounts are   *)
(* tenths of a cent.  A missing number is NaN, a missing string or an    *)
(* empty cell of a CSV Blank, and a cell that does not parse Junk.         *)
(***************************************************************************)
EXTENDS Integers, Sequences, FiniteSets, FiniteSetsExt, SequencesExt

CONSTANTS NaN, Junk, Blank, NoColumn, Day, DaysPerMonth, NumMonths, Epoch

-----------------------------------------------------------------------------
(* Reading the two CSV files.  A reader returns [ok, rows].                *)

Required  == {"TransactionID", "TransactionDT", "TransactionAmt", "card1"}
Column(header, name) == IF Contains(header, name)
                        THEN Min({i \in DOMAIN header : header[i] = name}) ELSE NoColumn
HasColumns(header, names) == \A n \in names : Column(header, n) # NoColumn

ParseCell(cell)     == IF cell = Blank THEN NaN ELSE cell
ParseFraud(header, rec) ==
    LET col == Column(header, "isFraud")
    IN  IF col = NoColumn THEN -1 ELSE IF rec[col] = Blank THEN -1 ELSE rec[col]
TxnCellsOK(header, rec) ==
    /\ \A n \in Required : rec[Column(header, n)] # Junk
    /\ \A n \in {"TransactionID", "TransactionDT"} : rec[Column(header, n)] # Blank
    /\ ParseFraud(header, rec) \in {-1, 0, 1}
ParseTxn(header, rec) ==
    LET Cell(n) == ParseCell(rec[Column(header, n)])
    IN  [id |-> Cell("TransactionID"), dt |-> Cell("TransactionDT"), amount |-> Cell("TransactionAmt"),
         card |-> Cell("card1"), device |-> Blank, fraud |-> ParseFraud(header, rec)]

ReadTransactions(csv) ==
    LET ok == HasColumns(csv.header, Required) /\ \A i \in DOMAIN csv.rows : TxnCellsOK(csv.header, csv.rows[i])
    IN  [ok |-> ok, rows |-> IF ok THEN [i \in DOMAIN csv.rows |-> ParseTxn(csv.header, csv.rows[i])] ELSE <<>>]

\* An identity row is <<id, device>>; an id appears once.
ReadIdentity(ids) == [ok |-> /\ \A i \in DOMAIN ids : ids[i][1] \notin {Junk, Blank}
                             /\ \A i, j \in DOMAIN ids : i # j => ids[i][1] # ids[j][1],
                      rows |-> ids]
Join(txns, ids) ==
    [i \in DOMAIN txns |->
       LET mine == {k \in DOMAIN ids : ids[k][1] = txns[i].id}
       IN  IF mine = {} THEN txns[i] ELSE [txns[i] EXCEPT !.device = ids[Min(mine)][2]]]

Less(a, b)       == a.dt < b.dt \/ (a.dt = b.dt /\ a.id < b.id)
Sort(txns)       == SortSeq(txns, Less)
CheckSorted(txns) == \A i \in 2 .. Len(txns) : Less(txns[i - 1], txns[i])

Checked(sorted, parsed) == [ok |-> parsed /\ CheckSorted(sorted), rows |-> sorted]
Ordered(t, d) == Checked(Sort(Join(t.rows, d.rows)), t.ok /\ d.ok)
ReadCSV(csv, ids) == Ordered(ReadTransactions(csv), ReadIdentity(ids))

-----------------------------------------------------------------------------
(* The cache file: columns, strings as codes into a dictionary in order of *)
(* first use, and a checksum: here the words it sums.                      *)

Magic       == "RGCACHE1"
Column1(txns, f) == [i \in DOMAIN txns |-> txns[i][f]]
Dictionary(col)  == FoldLeft(LAMBDA d, s : IF Contains(d, s) THEN d ELSE Append(d, s), <<>>, col)
Code(dict, s)    == (CHOOSE i \in DOMAIN dict : dict[i] = s) - 1
WriteStrings(col) == LET dict == Dictionary(col)
                     IN  <<Len(dict)>> \o dict \o [i \in DOMAIN col |-> Code(dict, col[i])]
WriteCache(txns, meta) ==
    LET body == <<Magic, meta.fingerprint, meta.synthetic, Len(txns)>>
                \o Column1(txns, "id") \o Column1(txns, "dt") \o Column1(txns, "amount")
                \o Column1(txns, "card") \o Column1(txns, "fraud") \o WriteStrings(Column1(txns, "device"))
    IN  [body |-> body, sum |-> body]

\* The decoder takes words in turn; what it cannot take, or leaves, is an error.
ReadCache(file) ==
    LET body == file.body
        n    == body[4]
        Col(k, i) == body[4 + (k - 1) * n + i]
        k    == body[5 + 5 * n]                    \* words of the dictionary
        Entry(i) == body[5 + 5 * n + k + i] + 1
        sound == /\ Len(body) >= 5 /\ body[1] = Magic /\ file.sum = body
                 /\ 5 + 5 * n <= Len(body) /\ Len(body) = 5 + 6 * n + k
                 /\ \A i \in 1 .. n : Entry(i) <= k
    IN  IF ~sound THEN [ok |-> FALSE]
        ELSE [ok |-> TRUE, meta |-> [fingerprint |-> body[2], synthetic |-> body[3]],
              txns |-> [i \in 1 .. n |-> [id |-> Col(1, i), dt |-> Col(2, i), amount |-> Col(3, i),
                                          card |-> Col(4, i), fraud |-> Col(5, i),
                                          device |-> body[5 + 5 * n + Entry(i)]]]]

-----------------------------------------------------------------------------
(* Load: the two CSVs may be replaced, or go, while it runs.  at[m] is the *)
(* version of the transactions and of the identities, Gone for a missing   *)
(* file, at moment m of a load: 1 when they are stat'ed, 2 when they are   *)
(* read, 3 when the new cache is renamed into place.  A version has a size *)
(* and modification time of its own, which the fingerprint is.             *)

Gone == 0
AnyGone(files) == \E i \in DOMAIN files : files[i] = Gone

StatLate(at)    == at[3]                                          \* mutant
Fingerprint(at) == at[1]

\* No cache file, one that does not decode, one of these versions.
NoCache      == <<>>
Corrupt      == <<[readable |-> FALSE]>>
CacheOf(fingerprint, content) == <<[readable |-> TRUE, fingerprint |-> fingerprint, content |-> content]>>
Readable(cache) == cache # NoCache /\ cache[1].readable

\* A cache answers if it is of the source files, and also if one of them cannot
\* be stat'ed, whatever the other has become.  WriteCacheFile renames a finished
\* file: if it fails, or a crash comes first, the cache is as it was.
Answers(cache, at) == Readable(cache) /\ (AnyGone(at[1]) \/ cache[1].fingerprint = Fingerprint(at))
Load(cache, at, written) ==
    CASE Answers(cache, at) -> [ok |-> TRUE, cache |-> cache, dataset |-> cache[1].content]
      [] ~Answers(cache, at) /\ (AnyGone(at[1]) \/ AnyGone(at[2]) \/ ~written) ->
           [ok |-> FALSE, cache |-> cache]
      [] OTHER -> [ok |-> TRUE, cache |-> CacheOf(Fingerprint(at), at[2]), dataset |-> at[2]]

-----------------------------------------------------------------------------
(* The calendar: months of days from the day of the first transaction.     *)

Trunc(a, b)    == IF a >= 0 THEN a \div b ELSE -((-a) \div b)
FloorDiv(a, b) == Trunc(a, b) - IF a # Trunc(a, b) * b /\ a < 0 THEN 1 ELSE 0
Month          == DaysPerMonth * Day
CalendarFor(txns) == IF txns = <<>> THEN 0
                     ELSE FloorDiv(Min({txns[i].dt : i \in DOMAIN txns}), Day) * Day
MonthOf(origin, dt) == Max({0, Min({FloorDiv(dt - origin, Month), NumMonths - 1})})
MonthStart(origin, m) == origin + m * Month
SplitOfMonth(m) == IF m <= 3 THEN "train" ELSE IF m = 4 THEN "valid" ELSE "test"

-----------------------------------------------------------------------------
(* The payload of a payment and its way back.                              *)

NumKeys == {"amount", "card"}
Keys    == NumKeys \cup {"device"}
Present(f, v)  == v # (IF f \in NumKeys THEN NaN ELSE Blank)
RiskFields(t)  == [f \in {f \in Keys : Present(f, t[f])} |-> t[f]]

\* A value is [type, v] when it arrives: an unknown key or a wrong type is an error.
Typed(f, x)  == x.type = "null" \/ x.type = (IF f \in NumKeys THEN "number" ELSE "string")
PayloadOK(m) == \A f \in DOMAIN m : f \in Keys /\ Typed(f, m[f])
ParseRiskFields(m) ==
    IF ~PayloadOK(m) THEN [ok |-> FALSE]
    ELSE [ok |-> TRUE,
          t |-> [id |-> 0, dt |-> 0, fraud |-> -1] @@
                [f \in Keys |-> IF f \in DOMAIN m /\ m[f].type # "null" THEN m[f].v
                                ELSE IF f \in NumKeys THEN NaN ELSE Blank]]

\* Cents are rounded half away from zero.
Cents(amount) == IF amount >= 0 THEN (amount + 5) \div 10 ELSE -((-amount + 5) \div 10)
OnTheWire(m)  == [f \in DOMAIN m |-> [type |-> IF f \in NumKeys THEN "number" ELSE "string", v |-> m[f]]]
NewReplayEvent(t) == [payment |-> t.id, created |-> Epoch + t.dt, amount |-> Cents(t.amount),
                      fields |-> OnTheWire(RiskFields(t)), fraud |-> t.fraud]
TxnOf(e) ==
    LET p == ParseRiskFields(e.fields)
    IN  IF ~p.ok THEN p
        ELSE [ok |-> TRUE,
              t  |-> [p.t EXCEPT !.id = e.payment, !.dt = e.created - Epoch,
                                 !.amount = IF "amount" \in DOMAIN e.fields THEN @ ELSE e.amount * 10,
                                 !.fraud = IF e.fraud \in {0, 1} THEN e.fraud ELSE -1]]

-----------------------------------------------------------------------------
(* What must hold of it.                                                   *)

\* A cache gives back the rows it was written from, in their order.
ReadBack(read, txns, meta) == read.ok /\ read.txns = txns /\ read.meta = meta
CacheKeepsRows(txns, meta) == ReadBack(ReadCache(WriteCache(txns, meta)), txns, meta)

\* Whatever happened to the files and to the cache during a load, one that finds
\* both files in place answers with them, and never with rows of a file that has
\* been replaced.  With a file gone it answers what the load before it did, even
\* if the other one is new: the cache is all there is (load.go:288-304).
LoadIsFresh(found, at, written, later) ==
    LET first  == Load(found, at, written)
        second == Load(first.cache, [m \in 1 .. 3 |-> later], TRUE)
    IN  /\ ~AnyGone(later) => second.ok /\ second.dataset = later
        /\ AnyGone(later) /\ first.ok => second.ok /\ second.dataset = first.dataset

Rank(split) == CASE split = "train" -> 1 [] split = "valid" -> 2 [] split = "test" -> 3

\* Rows are in one order whatever the order of the file, months and splits never
\* go back along it, and each payment is in the month its time is in.
OrderKept(rows, origin) ==
    /\ \A i, j \in DOMAIN rows : i < j =>
         /\ Less(rows[i], rows[j])
         /\ MonthOf(origin, rows[i].dt) <= MonthOf(origin, rows[j].dt)
         /\ Rank(SplitOfMonth(MonthOf(origin, rows[i].dt))) <= Rank(SplitOfMonth(MonthOf(origin, rows[j].dt)))
    /\ \A i \in DOMAIN rows :
         LET m == MonthOf(origin, rows[i].dt)
         IN  /\ MonthStart(origin, m) <= rows[i].dt
             /\ m < NumMonths - 1 => rows[i].dt < MonthStart(origin, m + 1)
InTimeOrder(r, reversed) == r.ok => reversed = r /\ OrderKept(r.rows, CalendarFor(r.rows))

\* A replayed payment is the payment of the dataset (riskfields.go:60-70).
ReplayRecovers(t) == t.amount # NaN => TxnOf(NewReplayEvent(t)) = [ok |-> TRUE, t |-> t]

\* A payload never silently loses a value (riskfields.go:163-169).
NothingIgnored(m) ==
    LET p == ParseRiskFields(m)
    IN  p.ok => \A f \in DOMAIN m : m[f].type # "null" => f \in Keys /\ p.t[f] = m[f].v
=============================================================================
