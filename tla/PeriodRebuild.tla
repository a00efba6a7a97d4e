--------------------------- MODULE PeriodRebuild ---------------------------
(***************************************************************************)
(* The requests of TransactionPeriods statement by statement: what         *)
(* FinancialPeriodService reads, what it writes and in which order, with   *)
(* requests that overlap and requests that stop half way.                  *)
(*                                                                         *)
(* A request is a database transaction under Read Committed (what it       *)
(* writes is its own until the commit, and locks the rows it writes), or,  *)
(* as getCurrentPeriod is called by budgets and by the reminder, a list of *)
(* statements that commit one by one.  A statement that has to wait for a  *)
(* row reads what is committed when it goes on.                            *)
(*                                                                         *)
(* A row of financial_periods is named by its key (see PeriodSequence) and *)
(* by who created it: requests that overlap may leave two under one key.   *)
(***************************************************************************)
EXTENDS PeriodSequence, Sequences

CONSTANTS
    Clients,    \* who sends requests, one at a time each
    Plays,      \* for each client, which kinds of request it sends
    Before,     \* creator of the rows that are there from the start
    Absent,     \* a row that is not in its table
    Idle        \* a client without a request in progress

\* A table has finitely many rows; 0 stands for no transaction.
ASSUME RequestIdsAssumption == IsFiniteSet(TxIds) /\ 0 \notin TxIds

VARIABLES
    db,         \* the committed rows: key -> row
    tx,         \* client -> its request in progress
    sends       \* client -> the kinds of request it sends; never changes

rebuildVars == <<db, tx, sends>>

Row(i) == <<"transaction", i>>
PeriodRows == {"period"} \X (TxIds \union {Bootstrap}) \X (Clients \union {Before})
Keys == {Row(i) : i \in TxIds} \union PeriodRows

\* The rows of each table; while rows move, a period starts before the epoch.
TransactionRow ==
    [date : Instants, kind : {"salary", "other"}, period : PeriodRows \union {Null}]
PeriodRow == [start : Int, end : Nat \union {Null}]

\* A request: the step it is at, those that follow, the transaction it is
\* about (0 for none), what it was when it was read or written last, the date
\* to assign, where a rebuild starts, what it must cover, what was read, the
\* rows it has written and not committed, whether it is one database
\* transaction, whether it has rebuilt, and whether no other overlaps with it.
NewRequest ==
    [at |-> "commit", then |-> <<>>, id |-> 0, row |-> Absent, date |-> 0, from |-> 0,
     cover |-> {}, got |-> <<>>, mine |-> <<>>, atomic |-> TRUE, rebuilt |-> FALSE,
     alone |-> TRUE]

\* What an edit sets of a transaction.
RowEdit == [date : Instants, kind : {"salary", "other"}]

\* What stands for a row that is not there is no row and no edit, and NULL is no
\* period.
ASSUME RebuildRowsAssumption ==
    /\ Absent \notin TransactionRow \union RowEdit /\ Absent \notin PeriodRow
    /\ Null \notin PeriodRows

Transactions(rows) ==
    [i \in {i \in TxIds : rows[Row(i)] # Absent} |-> rows[Row(i)]]
Periods(rows) == [r \in {r \in PeriodRows : rows[r] # Absent} |-> rows[r]]

\* The tables that buildPeriodSpecs makes of transactions, a period perhaps
\* reaching back to a date.
BuiltTables(T, cover) ==
    LET P == DesiredPeriods(T, cover)
    IN  [key \in Keys |->
            IF key[1] = "transaction"
            THEN IF key[2] \notin DOMAIN T THEN Absent
                 ELSE [date |-> T[key[2]].date, kind |-> T[key[2]].kind,
                       period |-> <<"period", PeriodForDate(P, T[key[2]].date), Before>>]
            ELSE IF key[3] = Before /\ key[2] \in DOMAIN P THEN P[key[2]] ELSE Absent]

\* Tables the requests have kept: what the salaries ask for, perhaps with a
\* bootstrap period that reaches back to a movement deleted since.
InitRebuild ==
    /\ sends \in Plays
    /\ \E ids \in SUBSET TxIds, cover \in SUBSET Instants :
        \E T \in [ids -> RowEdit] :
            Cardinality(cover) <= 1 /\ db = BuiltTables(T, cover)
    /\ tx = [c \in Clients |-> Idle]

-----------------------------------------------------------------------------
(* Statements *)

\* The rows, with those of `mine` in their place.
Over(mine, rows) ==
    [key \in DOMAIN mine \union DOMAIN rows |->
        IF key \in DOMAIN mine THEN mine[key] ELSE rows[key]]

Seen(c) == Over(tx[c].mine, db)
At(c, step) == tx[c] # Idle /\ tx[c].at = step

Others(c) == {d \in Clients \ {c} : tx[d] # Idle}

\* The rows d has pointed a transaction at and not committed (FOR KEY SHARE).
Referenced(d) ==
    {tx[d].mine[Row(i)].period : i \in {i \in TxIds :
        /\ Row(i) \in DOMAIN tx[d].mine
        /\ tx[d].mine[Row(i)] # Absent
        /\ db[Row(i)] = Absent \/ db[Row(i)].period # tx[d].mine[Row(i)].period}}

StartIn(rows, r) == IF r \in DOMAIN rows /\ rows[r] # Absent THEN {rows[r].start} ELSE {}

\* A write to rows that were `seen` so changes the start of a period, or whether
\* it is there.
Moves(seen, rows, r) == r \in PeriodRows /\ StartIn(seen, r) # StartIn(rows, r)

\* The statement waits for no row, for no start another request may yet give
\* up or take, and for no period another request is pointing at or deleting.
Free(c, rows) ==
    \A d \in Others(c) :
        /\ DOMAIN rows \intersect DOMAIN tx[d].mine = {}
        /\ \A r \in DOMAIN rows : Moves(Seen(c), rows, r) =>
              /\ r \notin Referenced(d)
              /\ \A s \in DOMAIN tx[d].mine \intersect PeriodRows :
                    StartIn(rows, r) \intersect (StartIn(db, s) \union StartIn(tx[d].mine, s)) = {}
        /\ \A r \in DOMAIN rows \ PeriodRows :
              (rows[r] # Absent /\ rows[r].period \in DOMAIN tx[d].mine) =>
                  ~ Moves(db, tx[d].mine, rows[r].period)

\* @@unique([userId, startDate]), and the foreign key of period_id
Permitted(c, rows) ==
    LET after == Over(rows, Seen(c))
    IN  /\ \A r \in DOMAIN rows \intersect PeriodRows : \A s \in PeriodRows \ {r} :
              StartIn(after, r) \intersect StartIn(after, s) = {}
        /\ \A r \in DOMAIN rows \ PeriodRows : (after[r] # Absent /\ after[r].period # Null) =>
              after[after[r].period] # Absent

\* c goes on as q, having written rows: within its transaction, or for good.
Write(c, rows, q) ==
    /\ Free(c, rows)
    /\ Permitted(c, rows)
    /\ IF q.atomic
       THEN tx' = [tx EXCEPT ![c] = [q EXCEPT !.mine = Over(rows, @)]] /\ UNCHANGED db
       ELSE tx' = [tx EXCEPT ![c] = q] /\ db' = Over(rows, db)
    /\ UNCHANGED sends

\* c goes on having read.
Read(c, q) == tx' = [tx EXCEPT ![c] = q] /\ UNCHANGED <<db, sends>>

\* q goes on with the next of the steps it still has to do.
Proceed(q) == [q EXCEPT !.at = Head(q.then), !.then = Tail(q.then), !.got = <<>>]

-----------------------------------------------------------------------------
(* Requests *)

Begin(c, kind, q) ==
    /\ kind \in sends[c]
    /\ tx[c] = Idle
    /\ tx' = [d \in Clients |->
                IF d = c THEN [q EXCEPT !.alone = (Others(c) = {})]
                ELSE IF tx[d] = Idle THEN Idle
                ELSE [tx[d] EXCEPT !.alone = FALSE]]
    /\ UNCHANGED <<db, sends>>

BeginCreate(c, i, date, kind) ==
    LET row == [date |-> date, kind |-> kind, period |-> Null]
    IN  /\ db[Row(i)] = Absent
        /\ \A d \in Others(c) : Row(i) \notin DOMAIN tx[d].mine
        /\ Begin(c, "create",
                 [NewRequest EXCEPT !.at = "locate", !.then = <<"commit">>, !.id = i, !.row = row,
                                    !.date = date, !.mine = [key \in {Row(i)} |-> row]])

\* Both read the transaction before theirs; an edit assigns it a period anew.
BeginUpdate(c, i, date, kind) ==
    /\ db[Row(i)] # Absent
    /\ LET old == db[Row(i)]
       IN  Begin(c, "update",
                 [NewRequest EXCEPT
                    !.at = "write", !.id = i, !.date = date,
                    !.row = [date |-> date, kind |-> kind],
                    !.from = IF old.date < date THEN old.date ELSE date,
                    !.then = IF IsSalary(old) THEN <<"rebuild", "locate", "commit">>
                             ELSE <<"locate", "commit">>])

BeginRemove(c, i) ==
    /\ db[Row(i)] # Absent
    /\ Begin(c, "remove",
             [NewRequest EXCEPT
                !.at = "write", !.id = i, !.from = db[Row(i)].date,
                !.then = IF IsSalary(db[Row(i)]) THEN <<"rebuild", "commit">> ELSE <<"commit">>])

BeginCurrent(c, now, atomic) ==
    Begin(c, "current", [NewRequest EXCEPT !.at = "current", !.then = <<"commit">>,
                                           !.date = now, !.atomic = atomic])

BeginMigrate(c) ==
    Begin(c, "migrate", [NewRequest EXCEPT !.at = "rebuild", !.then = <<"commit">>])

\* The update or the delete; what the update answers has the period of the row.
WriteTransaction(c) ==
    /\ At(c, "write")
    /\ LET q == tx[c]
           old == Seen(c)[Row(q.id)]
           row == IF q.row = Absent THEN Absent
                  ELSE [old EXCEPT !.date = q.row.date, !.kind = q.row.kind]
       IN  /\ old # Absent
           /\ Write(c, [key \in {Row(q.id)} |-> row], [Proceed(q) EXCEPT !.row = row])

\* getCurrentPeriod: the open period, or the one of today.
FindOpen(c) ==
    /\ At(c, "current")
    /\ LET P == Periods(Seen(c))
       IN  Read(c, IF \E r \in DOMAIN P : P[r].end = Null THEN Proceed(tx[c])
                   ELSE [tx[c] EXCEPT !.at = "locate"])

\* locate: the date of a salary, and one without a period, rebuild first.
LocateDate(c) ==
    /\ At(c, "locate")
    /\ LET q == tx[c]
           opens == q.id # 0 /\ IsSalary(q.row)
           covering == CoveringKeys(Periods(Seen(c)), q.date)
       IN  Read(c, IF opens \/ covering = {}
                   THEN [q EXCEPT !.at = "rebuild", !.then = <<"find">> \o @,
                                  !.from = q.date, !.cover = {q.date}]
                   ELSE [q EXCEPT !.at = "assign",
                                  !.got = PeriodForDate(Periods(Seen(c)), q.date)])

FindPeriod(c) ==
    /\ At(c, "find")
    /\ LET P == Periods(Seen(c))
       IN  /\ CoveringKeys(P, tx[c].date) # {}
           /\ Read(c, [tx[c] EXCEPT !.at = "assign", !.got = PeriodForDate(P, tx[c].date)])

AssignPeriod(c) ==
    /\ At(c, "assign")
    /\ LET q == tx[c]
           i == q.id
       IN  IF i = 0 \/ q.row.period = q.got THEN Read(c, Proceed(q))
           ELSE Write(c, [key \in {Row(i)} |-> [Seen(c)[key] EXCEPT !.period = q.got]], Proceed(q))

-----------------------------------------------------------------------------
(* rebuild *)

\* Three queries, one after the other over the connection of the transaction.
ReadSalaries(c) ==
    /\ At(c, "rebuild")
    /\ LET T == Transactions(Seen(c))
       IN  Read(c, [tx[c] EXCEPT !.at = "oldest", !.got = Restrict(T, Salaries(T))])

ReadOldest(c) ==
    /\ At(c, "oldest")
    /\ LET dates == DatesToReach(Transactions(Seen(c)), {})
       IN  Read(c, [tx[c] EXCEPT !.at = "existing",
                       !.got = DesiredPeriods(@, tx[c].cover \union
                                   (IF dates = {} THEN {} ELSE {Min(dates)}))])

\* The row that stays under its key: the first of those that have it.
Paired(P) ==
    {r \in DOMAIN P : \A s \in DOMAIN P \ {r} : s[2] = r[2] => P[r].start < P[s].start}

\* The row a desired period is written to.
RowFor(c, P, k) ==
    IF \E r \in Paired(P) : r[2] = k THEN CHOOSE r \in Paired(P) : r[2] = k
    ELSE <<"period", k, c>>

\* The row that starts n-th among some, and all of them in that order.
StartsAt(Q, rows, n) ==
    CHOOSE r \in rows : Cardinality({s \in rows : Q[s].start <= Q[r].start}) = n

ByStart(Q, rows) == [n \in 1..Cardinality(rows) |-> StartsAt(Q, rows, n)]

\* Mutant: every row goes straight to its new start.
ParkedNone(moving) == <<>>

\* The rows that move wait on starts no period can have.
Parked(moving) ==
    [n \in 1..Len(moving) |-> [op |-> "park", row |-> moving[n], start |-> -n]]

\* Mutant: a second row under a key that is wanted stays.
UnwantedOnly(P, Q) == {r \in DOMAIN P \ DOMAIN Q : \A s \in DOMAIN Q : s[2] # r[2]}

\* The rows to delete: those of keys no salary asks for, and all but the first
\* of the others.
Superfluous(P, Q) == DOMAIN P \ DOMAIN Q

Changed(P, Q) == {r \in DOMAIN P \intersect DOMAIN Q : P[r] # Q[r]}
Moving(P, Q)  == {r \in Changed(P, Q) : P[r].start # Q[r].start}

Deletion(gone) == IF gone = {} THEN <<>> ELSE <<[op |-> "delete", rows |-> gone]>>

OneByOneTo(Q, rows, op) ==
    [n \in 1..Len(rows) |-> [op |-> op, row |-> rows[n], values |-> Q[rows[n]]]]

\* The writes that make Q of P, in their order.
Writes(P, Q) ==
    Deletion(Superfluous(P, Q))
    \o Parked(ByStart(Q, Moving(P, Q)))
    \o OneByOneTo(Q, ByStart(Q, Changed(P, Q)), "update")
    \o OneByOneTo(Q, ByStart(Q, DOMAIN Q \ DOMAIN P), "create")

ReadExisting(c) ==
    /\ At(c, "existing")
    /\ LET q == tx[c]
           P == Periods(Seen(c))
           wanted == {RowFor(c, P, k) : k \in DOMAIN q.got}
           Q == [r \in wanted |-> q.got[r[2]]]
       IN  Read(c, [q EXCEPT !.at = "writes", !.from = Boundary(P, Q, q.from),
                             !.got = Writes(P, Q)])

\* Deleting a period leaves its transactions without one (ON DELETE SET NULL).
DeletedPeriods(rows, gone) ==
    LET left == {Row(i) : i \in {i \in DOMAIN Transactions(rows) : rows[Row(i)].period \in gone}}
    IN  [key \in gone \union left |->
            IF key \in gone THEN Absent ELSE [rows[key] EXCEPT !.period = Null]]

WritePeriod(c) ==
    /\ At(c, "writes")
    /\ tx[c].got # <<>>
    /\ LET s == Head(tx[c].got)
           q == [tx[c] EXCEPT !.got = Tail(@)]
           rows == Seen(c)
       IN  \/ /\ s.op = "delete"
              /\ Write(c, DeletedPeriods(rows, {r \in s.rows : rows[r] # Absent}), q)
           \/ /\ s.op = "park"
              /\ rows[s.row] # Absent
              /\ Write(c, [r \in {s.row} |-> [rows[r] EXCEPT !.start = s.start]], q)
           \/ /\ s.op = "update"
              /\ rows[s.row] # Absent
              /\ Write(c, [r \in {s.row} |-> s.values], q)
           \/ /\ s.op = "create"
              /\ Write(c, [r \in {s.row} |-> s.values], q)

\* Mutant: only the periods that start after the boundary.
StartingAfter(P, boundary) == {r \in DOMAIN P : boundary < P[r].start}

\* endDate null, or after the boundary.
EndingAfter(P, boundary) == {r \in DOMAIN P : P[r].end = Null \/ boundary < P[r].end}

\* The second read of the periods.
ReadPeriods(c) ==
    /\ At(c, "writes")
    /\ tx[c].got = <<>>
    /\ LET P == Periods(Seen(c))
       IN  Read(c, [tx[c] EXCEPT !.at = "reassign", !.rebuilt = TRUE,
                                 !.got = Restrict(P, EndingAfter(P, tx[c].from))])

\* One updateMany per period read, in any order.
Reassign(c) ==
    /\ At(c, "reassign")
    /\ LET q == tx[c]
           T == Transactions(Seen(c))
       IN  IF DOMAIN q.got = {} THEN Read(c, Proceed(q))
           ELSE \E r \in DOMAIN q.got :
                  LET moved == {i \in DOMAIN T : Covers(q.got[r], T[i].date) /\ T[i].period # r}
                  IN  Write(c, [key \in {Row(i) : i \in moved} |->
                                   [Seen(c)[key] EXCEPT !.period = r]],
                            [q EXCEPT !.got = Restrict(@, DOMAIN @ \ {r})])

Commit(c) ==
    /\ At(c, "commit")
    /\ db' = Seen(c)
    /\ tx' = [tx EXCEPT ![c] = Idle]
    /\ UNCHANGED sends

\* A constraint refuses a statement, the database ends one of two transactions
\* that wait for each other, the time of a transaction is over, or the server
\* stops.
Rollback(c) ==
    /\ tx[c] # Idle
    /\ tx' = [tx EXCEPT ![c] = Idle]
    /\ UNCHANGED <<db, sends>>

Request(c) ==
    \/ \E i \in TxIds, date \in Instants, kind \in {"salary", "other"} :
          BeginCreate(c, i, date, kind) \/ BeginUpdate(c, i, date, kind)
    \/ \E i \in TxIds : BeginRemove(c, i)
    \/ \E now \in Instants, atomic \in BOOLEAN : BeginCurrent(c, now, atomic)
    \/ BeginMigrate(c)

Statement(c) ==
    \/ WriteTransaction(c)
    \/ FindOpen(c) \/ LocateDate(c) \/ FindPeriod(c) \/ AssignPeriod(c)
    \/ ReadSalaries(c) \/ ReadOldest(c) \/ ReadExisting(c)
    \/ WritePeriod(c) \/ ReadPeriods(c) \/ Reassign(c)
    \/ Commit(c)

NextRebuild == \E c \in Clients : Request(c) \/ Statement(c) \/ Rollback(c)

RebuildSpec == InitRebuild /\ [][NextRebuild]_rebuildVars

-----------------------------------------------------------------------------
(* Properties *)

\* Rows as TransactionPeriods has them.
PeriodsOf(rows) ==
    [k \in {r[2] : r \in DOMAIN Periods(rows)} |->
        rows[CHOOSE r \in DOMAIN Periods(rows) : r[2] = k]]
TransactionsOf(rows) ==
    [i \in DOMAIN Transactions(rows) |->
        [rows[Row(i)] EXCEPT !.period = IF @ = Null THEN Null ELSE @[2]]]

Requests == INSTANCE TransactionPeriods WITH
    txs <- TransactionsOf(db), periods <- PeriodsOf(db)

\* At most one client sends requests.
OneByOne == \A c, d \in Clients : (sends[c] # {} /\ sends[d] # {}) => c = d

\* One request at a time, the statements do what TransactionPeriods says in one
\* step: they commit a request of it or, stopped anywhere, nothing, even those
\* that run outside a transaction.
RequestsAreSteps == [][OneByOne => [Requests!Next]_(Requests!vars)]_rebuildVars

\* The next row is to wait where a row waits that a rebuild outside a transaction
\* parked before it stopped.
MeetsParked(c) ==
    /\ At(c, "writes") /\ tx[c].got # <<>> /\ Head(tx[c].got).op = "park"
    /\ \E r \in PeriodRows \ {Head(tx[c].got).row} :
          Head(tx[c].got).start \in StartIn(db, r)

\* A request no other overlaps with is refused only over such a row ("Mover un
\* startDate puede chocar transitoriamente con el de otro período que también se
\* está moviendo", financial-period.service.ts:314-315): it never moves a period to
\* the start of one that stays, never updates what is not there, and finds a period
\* for its date when it has rebuilt them, whatever earlier requests left.
RequestsAloneGoOn ==
    \A c \in Clients : (tx[c] # Idle /\ tx[c].alone) => ENABLED Statement(c) \/ MeetsParked(c)

\* Requests that overlap may leave two open periods, or a salary without one.
\* The next request that rebuilds on its own repairs the sequence, and the
\* administrator's migration the assignments too.
RebuildsAloneRepair ==
    [][\A c \in Clients : (At(c, "commit") /\ tx'[c] = Idle /\ db' = Seen(c)
                            /\ tx[c].alone /\ tx[c].rebuilt) =>
          /\ Cardinality(DOMAIN Periods(db')) = Cardinality(DOMAIN PeriodsOf(db)')
          /\ Requests!PeriodsPartition'
          /\ Requests!AnchorsFollowSalaries'
          /\ tx[c].from = 0 => Requests!TransactionsInTheirPeriod'
      ]_rebuildVars

=============================================================================
