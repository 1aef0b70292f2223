--------------------------- MODULE LearningLedger ---------------------------
(* scripts/learning.py: the log of attempts, its rules (check_rows), the log *)
(* command that adds a row, and the reminders of summary.  A row keeps what  *)
(* one rule compares with another row; the checks of a field by itself       *)
(* (identifiers, minutes, categories, scores, evidence) are left out, and of *)
(* the states only Interview Ready counts.  One log command runs at a time,  *)
(* as the tool asks: its replacing of the file is then one step, since a     *)
(* crash before it leaves nothing but a .tmp file.                           *)
EXTENDS Integers, Sequences

CONSTANTS
    Items,               \* the exercises
    Days7, Days30,       \* 7 and 30
    LastDay, MaxRows     \* bounds: days that pass, attempts logged

ASSUME LedgerAssumption ==
    Days7 \in Nat /\ Days30 \in Nat /\ LastDay \in Nat /\ MaxRows \in Nat

VARIABLES
    rows,    \* attempts.csv
    today    \* dt.date.today()

ledgerVars == <<rows, today>>

LedgerInit == rows = <<>> /\ today = 0

-----------------------------------------------------------------------------
Kind == {"first", "retention7", "retention30", "review"}

\* Correct, without help and without hints; correct; or not correct.
Outcome == {"independent", "helped", "failed"}
Correct(r) == r.outcome # "failed"
Independent(r) == r.outcome = "independent"

\* The correct attempts that count as the original one.
IsSuccess(r) == Correct(r) /\ r.kind \in {"first", "review"}

\* Mutant: the retention of 30 days is let through after 7.
Days_AlwaysSeven == [retention7 |-> Days7, retention30 |-> Days7]

Days == [retention7 |-> Days7, retention30 |-> Days30]

\* Mutant: only a first attempt counts as the original success.
Anchors_FirstOnly(earlier, item) ==
    {r \in earlier : r.item = item /\ Correct(r) /\ r.kind = "first"}

Anchors(earlier, item) == {r \in earlier : r.item = item /\ IsSuccess(r)}

\* At least the interval after the earliest success.
IntervalReached(earlier, row) ==
    \E r \in Anchors(earlier, row.item) : row.date - r.date >= Days[row.kind]

ReadyAllowed(earlier, row) ==
    /\ row.kind = "review" /\ Independent(row)
    /\ \A k \in {"retention7", "retention30"} :
          \E r \in earlier : r.item = row.item /\ r.kind = k /\ Independent(r)

\* check_rows for one row, given the ones before it.
CheckRow(earlier, row) ==
    /\ \A r \in earlier : r.date <= row.date
    /\ row.kind = "first" =>
          ~\E r \in earlier : r.item = row.item /\ r.kind = "first"
    /\ row.kind \in DOMAIN Days => IntervalReached(earlier, row)
    /\ row.ready => ReadyAllowed(earlier, row)

Before(s, i) == {s[j] : j \in 1 .. i - 1}

CheckRows(s) == \A i \in DOMAIN s : CheckRow(Before(s, i), s[i])

-----------------------------------------------------------------------------
(* log *)

Row(item, date, kind, outcome, ready) ==
    [item |-> item, date |-> date, kind |-> kind, outcome |-> outcome,
     ready |-> ready]

Log(row) ==
    /\ Len(rows) < MaxRows
    /\ row.date <= today
    /\ CheckRows(Append(rows, row))
    /\ rows' = Append(rows, row)
    /\ UNCHANGED today

NextDay == today < LastDay /\ today' = today + 1 /\ UNCHANGED rows

LedgerNext ==
    \/ \E item \in Items, date \in 0 .. LastDay, kind \in Kind,
          outcome \in Outcome, ready \in BOOLEAN :
          Log(Row(item, date, kind, outcome, ready))
    \/ NextDay

LedgerSpec == LedgerInit /\ [][LedgerNext]_ledgerVars

-----------------------------------------------------------------------------
(* summary: its reminders. *)

\* The rows, by their place in the file.
Visible(day) == {i \in DOMAIN rows : rows[i].date <= day}

Done(item, kind, day) ==
    \E i \in Visible(day) :
        rows[i].item = item /\ rows[i].kind = kind /\ Independent(rows[i])

Solves(i, item) == rows[i].item = item /\ IsSuccess(rows[i])

\* The first success in the file, not the earliest by date.
Due(item, kind, day) ==
    /\ ~Done(item, kind, day)
    /\ \E i \in Visible(day) :
          /\ Solves(i, item)
          /\ \A j \in Visible(day) : Solves(j, item) => i <= j
          /\ rows[i].date + Days[kind] <= day

-----------------------------------------------------------------------------
(* Properties *)

\* The reminders and the rules, written apart, agree: summary says DUE exactly
\* when log would take today's retention attempt and none has succeeded yet.
DueIsAccepted ==
    \A item \in Items, kind \in DOMAIN Days :
        LET attempt == Row(item, today, kind, "independent", FALSE)
        IN Due(item, kind, today) <=>
              CheckRows(Append(rows, attempt)) /\ ~Done(item, kind, today)

\* An item is Interview Ready only after it was solved, and recalled without
\* help 30 days or more after that, and all this before the reviewer's row.
ReadyTakesThirtyDays ==
    \A i \in DOMAIN rows : rows[i].ready =>
        \E j, k \in 1 .. i - 1 :
            /\ j < k /\ rows[j].item = rows[i].item /\ rows[k].item = rows[i].item
            /\ IsSuccess(rows[j]) /\ Independent(rows[k])
            /\ rows[k].date - rows[j].date >= Days30

=============================================================================
