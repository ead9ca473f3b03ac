-------------------------------- MODULE Lists --------------------------------
(* The console's lists, paged by a cursor while their rows come, go and move. *)
(*                                                                            *)
(* A staff member walks one list: the console asks for a page, shows it, and  *)
(* asks for the next with the cursor that came with it.  Between two pages    *)
(* other people and jobs insert rows, rows leave the list (deleted, read,     *)
(* decided, or older than the range the list covers), and the rows of the two *)
(* lists sorted by a date that changes move.  One page is one query.          *)
(*                                                                            *)
(* Almost every list sorts by (createdAt, id), newest first, and asks for the *)
(* rows strictly older than the cursor.  The sender-ID queue sorts by         *)
(* (slaDueAt, id), oldest first.  Five do not follow a cursor: drafts and the *)
(* customer table skip a number of rows, the export list and a customer's     *)
(* requests read no cursor, and a staff search spreads its own OR over the    *)
(* cursor's.                                                                  *)
EXTENDS Naturals, FiniteSets

CONSTANTS
    Rows,      \* row ids; ids are compared, so they are numbers
    Moments,   \* the values of the date a list is sorted by
    Limit      \* rows per page

ASSUME ListsAssumption == Rows \subseteq Nat /\ Moments \subseteq Nat /\ Limit \in Nat \ {0}

Keyset == {"customers", "ledger", "notes", "campaigns", "staff", "messages",
           "inbox", "credits", "audit", "senderIds"}
Lists == Keyset \cup {"table", "drafts", "exports", "requests"}

FirstPage == [none |-> TRUE]       \* no cursor

VARIABLES
    list,      \* the list being walked
    term,      \* whether a staff search has a term
    table,     \* rows the list holds now, its filters applied
    key,       \* the date each row is sorted by
    cursor,    \* what the console sends with the next request
    ended,     \* the last page said there is no more
    seen,      \* rows shown in this walk
    repeated,  \* rows shown more than once
    stayed,    \* rows in the list since the first page was read
    moved      \* rows whose date changed since then

walkVars == <<list, term, table, key, cursor, ended, seen, repeated, stayed, moved>>
walk == <<list, term, cursor, ended, seen, repeated>>

WalkTypeOK ==
    /\ list \in Lists /\ term \in BOOLEAN /\ ended \in BOOLEAN
    /\ key \in [Rows -> Moments]
    /\ cursor \in {FirstPage} \cup [at : Moments, id : Rows] \cup [offset : Nat]
    /\ \A s \in {table, seen, repeated, stayed, moved} : s \subseteq Rows

WalkInit ==
    /\ list \in Lists /\ term \in {FALSE, list = "staff"}
    /\ table \in SUBSET Rows /\ key \in [Rows -> Moments]
    /\ cursor = FirstPage /\ ended = FALSE
    /\ seen = {} /\ repeated = {} /\ stayed = table /\ moved = {}

------------------------------------------------------------------------------
(* One page *)

\* The order of the newest-first lists and of the sender-ID queue.
Newer(a, b) == key[a] > key[b] \/ (key[a] = key[b] /\ a > b)
DueFirst(a, b) == key[a] < key[b] \/ (key[a] = key[b] /\ a < b)
Before(a, b) == IF list = "senderIds" THEN DueFirst(a, b) ELSE Newer(a, b)

\* orderBy and take: the first n of `found`, or all of them if there are fewer.
First(n, found) == {data \in SUBSET found :
    /\ \A a \in data, b \in found \ data : Before(a, b)
    /\ Cardinality(data) = n \/ (data = found /\ Cardinality(found) < n)}

\* Rows older than the cursor by their date alone.
cursorWhereByDate == {r \in table : cursor = FirstPage \/ key[r] < cursor.at}

\* Rows of the list strictly older than the cursor.
cursorWhere == {r \in table :
    \/ cursor = FirstPage
    \/ key[r] < cursor.at
    \/ key[r] = cursor.at /\ r < cursor.id}

\* Rows of the queue strictly after the cursor.
queueWhere == {r \in table :
    \/ cursor = FirstPage
    \/ key[r] > cursor.at
    \/ key[r] = cursor.at /\ r > cursor.id}

\* The console shows a page and learns whether there is more.
Show(data, hasMore, next) ==
    /\ ~ended
    /\ repeated' = repeated \cup (seen \cap data)
    /\ seen' = seen \cup data
    /\ ended' = ~hasMore
    /\ cursor' = IF hasMore THEN next ELSE FirstPage
    /\ UNCHANGED <<list, term, table, key, stayed, moved>>

\* The cursor a page hands out: the sort key of its last row, as it is then.
encodeCursor(last) == [at |-> key[last], id |-> last]

\* One row more than the limit is read: if it is there, there is more.
buildPage(found) == \E data \in First(Limit, found) :
    \/ data = found /\ Show(data, FALSE, FirstPage)
    \/ /\ data # found
       /\ \E last \in data :
            /\ \A r \in data \ {last} : Before(r, last)
            /\ Show(data, TRUE, encodeCursor(last))

\* Pages that skip as many rows as the pages before them held.
Skipping ==
    LET offset == IF cursor = FirstPage THEN 0 ELSE cursor.offset
    IN  \E skipped \in First(offset, table) : \E data \in First(Limit, table \ skipped) :
            Show(data, data # table \ skipped, [offset |-> offset + Limit])

------------------------------------------------------------------------------
(* The handlers *)

\* A filter on flagged customers that matches nobody answers before the query.
SearchNobodyFlagged == list = "customers" /\ table = {} /\ Show({}, FALSE, FirstPage)
SearchCustomers == list = "customers" /\ buildPage(cursorWhere)
CustomerLedger == list = "ledger" /\ buildPage(cursorWhere)
CustomerNotes == list = "notes" /\ buildPage(cursorWhere)
CampaignsList == list = "campaigns" /\ buildPage(cursorWhere)
MessagesList == list = "messages" /\ buildPage(cursorWhere)
InboxList == list = "inbox" /\ buildPage(cursorWhere)
CreditsList == list = "credits" /\ buildPage(cursorWhere)
AuditList == list = "audit" /\ buildPage(cursorWhere)

\* The search term's OR replaces the cursor's in the same object.
StaffList == list = "staff" /\ buildPage(IF term THEN table ELSE cursorWhere)

\* A cursor is handed out, none is read.
ExportsList == list = "exports" /\ buildPage(table)

SenderIdsList == list = "senderIds" /\ buildPage(queueWhere)

Drafts == list = "drafts" /\ Skipping

CustomersTable == list = "table" /\ Skipping

\* A full page says there is more, and no cursor leads there.
CustomerRequests ==
    /\ list = "requests"
    /\ \E data \in First(Limit, table) : Show(data, Cardinality(table) >= Limit, FirstPage)

------------------------------------------------------------------------------
(* What happens between two pages *)

\* A row comes in, or comes back into a filter.  Its date may lie behind rows
\* already shown: it was taken before the row was committed, or read late.
Insert(r) ==
    /\ r \notin table
    /\ table' = table \cup {r}
    /\ \E m \in Moments : key' = [key EXCEPT ![r] = m]
    /\ UNCHANGED <<stayed, moved>> /\ UNCHANGED walk

Leave(r) ==
    /\ r \in table
    /\ table' = table \ {r} /\ stayed' = stayed \ {r}
    /\ UNCHANGED <<key, moved>> /\ UNCHANGED walk

\* A resubmission gives a review a new, later SLA; an edit a draft a later date.
Move(r) ==
    /\ list \in {"senderIds", "drafts"} /\ r \in table
    /\ \E m \in Moments : m > key[r] /\ key' = [key EXCEPT ![r] = m]
    /\ moved' = moved \cup {r}
    /\ UNCHANGED <<table, stayed>> /\ UNCHANGED walk

\* The console opens the list again, or sends a cursor that does not decode.
Reopen ==
    /\ cursor' = FirstPage /\ ended' = FALSE
    /\ seen' = {} /\ repeated' = {} /\ stayed' = table /\ moved' = {}
    /\ UNCHANGED <<list, term, table, key>>

WalkNext ==
    \/ SearchNobodyFlagged \/ SearchCustomers \/ CustomerLedger
    \/ CustomerNotes \/ CustomersTable \/ CustomerRequests
    \/ CampaignsList \/ MessagesList \/ InboxList \/ CreditsList
    \/ AuditList \/ StaffList \/ ExportsList \/ SenderIdsList
    \/ Drafts \/ Reopen
    \/ \E r \in Rows : Insert(r) \/ Leave(r) \/ Move(r)

WalkSpec == WalkInit /\ [][WalkNext]_walkVars

------------------------------------------------------------------------------
(* Properties *)

\* The walks whose handler follows the cursor it handed out.
Followed == list \in Keyset /\ ~(list = "staff" /\ term)

Once ==
    /\ ended => stayed \subseteq seen
    /\ stayed \cap repeated \subseteq moved

\* However rows come and go between the pages, and however many share a date: a
\* row that was in the list all through the walk has been shown when the list says
\* there is no more, even a review whose SLA moved meanwhile, and only a row that
\* moved is shown twice.  (pagination.ts: the cursor is the sort key of the last
\* row seen, tie-broken by the id; sender-ids.service.ts: a page boundary never
\* skips or repeats a row when SLAs tie.)
EachRowOnce == Followed => Once
==============================================================================
