----------------------------- MODULE Extraction -----------------------------
(* Extraction of procurement notices: the runs people and the schedule ask     *)
(* for, the Celery worker that lists a source page by page, fetches details    *)
(* and ingests (procurement/tasks.py), and the recovery of runs that stopped.  *)
EXTENDS SourceNotices, FiniteSets

CONSTANTS Connectors,  \* the connectors
          Runs,        \* 1..n: the runs the tables may hold
          PageSize,    \* records of one list page
          DetailLimit, \* details one list may fetch
          Plans        \* per behaviour: the connectors' kinds and lists, and bounds

Kinds == [kind : {"setad", "hezareh", "parsnamad"}, overlap : BOOLEAN, ends : BOOLEAN, total : BOOLEAN,
          late : Nat, max : Nat]

ASSUME ConnectorsAssumption == IsFiniteSet(Connectors)
ASSUME RunsAssumption == IsFiniteSet(Runs) /\ Runs \subseteq Nat
ASSUME SizesAssumption == PageSize \in Nat \ {0} /\ DetailLimit \in Nat

(* A record belongs to one source (the key of its row holds the connector);    *)
(* only SETAD shows countdowns, and it has no details that are fetched later.  *)
(* Lists are newest first and name no record twice: behind a record that is    *)
(* too old there are only older ones, and what comes later is not too old.     *)
ASSUME PlansAssumption ==
  \A p \in Plans :
    /\ p.conns \subseteq Connectors /\ p.shape \in [Connectors -> Kinds]
    /\ p.home \in [Connectors -> SUBSET Records] /\ p.list \in [Connectors -> Seq(Records)]
    /\ \A c, e \in Connectors : c # e => p.home[c] \cap p.home[e] = {}
    /\ \A c \in Connectors : ToSet(p.list[c]) \subseteq p.home[c]
    /\ \A c \in Connectors : p.shape[c].kind # "setad" => p.home[c] \cap Countdown = {}
    /\ \A c \in Connectors : \A k, l \in DOMAIN p.list[c] :
         k < l => p.list[c][k] # p.list[c][l] /\ (p.list[c][k] \in p.old => p.list[c][l] \in p.old)
    /\ \A c \in Connectors : p.home[c] \cap p.old \subseteq ToSet(p.list[c])
    /\ p.caps \subseteq Nat /\ p.details \subseteq BOOLEAN

RunStatus == {"none", "queued", "running", "succeeded", "succeeded_with_warnings", "partial",
              "failed", "cancelled"}
Active == {"queued", "running"}

VARIABLES plan,      \* the plan of this behaviour
          list,      \* per connector: its records at the source, newest first
          content,   \* per record: what the source shows
          db,        \* per record: what is stored
          runs,      \* the ExtractionRun rows
          items,     \* per run: item rows, ok and failed
          msgs,      \* runs whose run_extraction message is in the broker
          w,         \* per run: the state of its worker
          conn,      \* per connector: enabled, status
          settings,  \* the automation settings row: enabled, next, changed by a user
          stale,     \* runs without activity for an hour (and older than two)
          form,      \* a manual request between its validation and its creation
          gap,       \* history: connectors whose listing once broke off, or outgrew its reader
          budget     \* what the plan has left of external events
extVars == <<plan, list, content, db, runs, items, msgs, w, conn, settings, stale, form, gap, budget>>

Shape(c) == plan.shape[c]
Deferred(c) == Shape(c).kind \in {"hezareh", "parsnamad"}

NoSummary == [status |-> "none", complete |-> FALSE, ok |-> 0, bad |-> 0]
Off == [pc |-> "off", conn |-> "none", todo |-> <<>>, page |-> 0, prev |-> <<>>, known |-> 0,
        floor |-> TRUE, first |-> FALSE, start |-> {}, cands |-> <<>>, jobs |-> <<>>,
        sum |-> NoSummary, sums |-> [c \in Connectors |-> NoSummary]]
NoRun == [st |-> "none", trig |-> "none", mode |-> "none", details |-> FALSE, conns |-> {},
          cap |-> 0, ok |-> 0, bad |-> 0, closed |-> FALSE]
NoForm == [conns |-> {}, mode |-> "none", details |-> FALSE, cap |-> 0]

Listed(c) == ToSet(list[c])

Free == {i \in Runs : runs[i].st = "none"}
NextRun == CHOOSE i \in Free : \A j \in Free : i <= j
Busy(conns) == {i \in Runs : runs[i].st \in Active /\ runs[i].conns \cap conns # {}}
Spend(f) == budget[f] > 0 /\ budget' = [budget EXCEPT ![f] = @ - 1]

-----------------------------------------------------------------------------
(* The source: records appear at the head of a list and change.                *)
Publish == \E r \in Records, c \in Connectors :
  /\ Spend("publishes")
  /\ r \in plan.home[c] \ Listed(c)
  /\ list' = [list EXCEPT ![c] = <<r>> \o @]
  /\ UNCHANGED <<plan, content, db, runs, items, msgs, w, conn, settings, stale, form, gap>>

Edit == \E r \in Records, f \in {"v", "dl", "tick"} :
  /\ Spend("edits")
  /\ f = "tick" => r \in Countdown
  /\ content' = [content EXCEPT ![r][f] = @ + 1]
  /\ UNCHANGED <<plan, list, db, runs, items, msgs, w, conn, settings, stale, form, gap>>

-----------------------------------------------------------------------------
(* Manual requests: the serializer looks for active runs, the row is created   *)
(* afterwards.                                                                 *)
Validate == \E conns \in SUBSET Connectors, m \in {"incremental", "range"}, d \in plan.details, k \in plan.caps :
  /\ Spend("manual")
  /\ form = NoForm /\ conns # {}
  /\ \A c \in conns : conn[c].enabled
  /\ Busy(conns) = {}
  /\ form' = [conns |-> conns, mode |-> m, details |-> d, cap |-> k]
  /\ UNCHANGED <<plan, list, content, db, runs, items, msgs, w, conn, settings, stale, gap>>

Queued(trig, mode, details, conns, cap) ==
  [NoRun EXCEPT !.st = "queued", !.trig = trig, !.mode = mode, !.details = details,
                !.conns = conns, !.cap = cap]

CreateManual ==
  /\ form # NoForm /\ Free # {}
  /\ runs' = [runs EXCEPT ![NextRun] = Queued("manual", form.mode, form.details, form.conns, form.cap)]
  /\ msgs' = msgs \cup {NextRun}
  /\ form' = NoForm
  /\ UNCHANGED <<plan, list, content, db, items, w, conn, settings, stale, gap, budget>>

-----------------------------------------------------------------------------
(* The schedule.                                                               *)
DueArrives ==
  /\ settings.next = "later" /\ Spend("due")
  /\ settings' = [settings EXCEPT !.next = "due"]
  /\ UNCHANGED <<plan, list, content, db, runs, items, msgs, w, conn, stale, form, gap>>

(* The settings page writes the whole row and plans the next extraction anew.  *)
NextExtraction(on) == IF on THEN "later" ELSE "none"
SettingsAfter(on) == [enabled |-> on, next |-> NextExtraction(on)]
Switch == \E on \in BOOLEAN :
  /\ Spend("switches")
  /\ settings' = SettingsAfter(on)
  /\ UNCHANGED <<plan, list, content, db, runs, items, msgs, w, conn, stale, form, gap>>

Scheduled == {c \in Connectors : conn[c].enabled}

Recoverable(i) == runs[i].trig = "scheduled" /\ runs[i].mode = "incremental" /\ i \in stale

Closing(i) == [runs[i] EXCEPT !.st = "failed", !.ok = items[i].ok, !.bad = items[i].bad, !.closed = TRUE]

BlockedByRunning == {i \in Busy(Scheduled) : ~Recoverable(i) /\ runs[i].st = "running"}
Blocking == {i \in Busy(Scheduled) : ~Recoverable(i)}

Dead == {i \in Busy(Scheduled) : Recoverable(i)}
Recovered == [i \in Runs |-> IF i \in Dead THEN Closing(i) ELSE runs[i]]

(* One tick of dispatch_due_extraction, under the lock of the settings row.    *)
DispatchDue ==
  /\ settings.enabled
  /\ \/ /\ settings.next = "none"
        /\ settings' = [settings EXCEPT !.next = "later"]
        /\ UNCHANGED <<runs, msgs, gap>>
     \/ /\ settings.next = "due" /\ Scheduled = {}
        /\ settings' = [settings EXCEPT !.next = "later"]
        /\ UNCHANGED <<runs, msgs, gap>>
     \/ /\ settings.next = "due" /\ Scheduled # {} /\ Blocking # {}
        /\ Dead # {}
        /\ runs' = Recovered
        /\ UNCHANGED <<settings, msgs, gap>>
     \/ /\ settings.next = "due" /\ Scheduled # {} /\ Blocking = {} /\ Free # {}
        /\ runs' = [i \in Runs |->
             IF i = NextRun THEN Queued("scheduled", "incremental", TRUE, Scheduled, 0) ELSE Recovered[i]]
        /\ msgs' = msgs \cup {NextRun}
        /\ settings' = [settings EXCEPT !.next = "later"]
        /\ UNCHANGED gap
  /\ UNCHANGED <<plan, list, content, db, items, w, conn, stale, form, budget>>

Orphan(i) == w[i].pc = "off" /\ i \notin msgs

(* An hour without activity passes, or two since the start.                    *)
TimePasses == \E i \in Runs :
  /\ runs[i].st \in Active /\ i \notin stale
  /\ IF Orphan(i) THEN UNCHANGED budget ELSE Spend("pauses")
  /\ stale' = stale \cup {i}
  /\ UNCHANGED <<plan, list, content, db, runs, items, msgs, w, conn, settings, form, gap>>

(* recover_stale_extraction_runs, which both acceptance dispatchers call first *)
(* on every tick: whatever is queued or running for too long is cancelled.     *)
OnlyQueuedTooOld == {i \in stale : runs[i].st = "queued"}
TooOld == {i \in stale : runs[i].st \in Active}
Cancelled(old) == [i \in Runs |-> IF i \in old THEN [runs[i] EXCEPT !.st = "cancelled", !.closed = TRUE] ELSE runs[i]]
RecoverStale ==
  /\ TooOld # {}
  /\ runs' = Cancelled(TooOld)
  /\ UNCHANGED <<plan, list, content, db, items, msgs, w, conn, settings, stale, form, gap, budget>>

-----------------------------------------------------------------------------
(* The worker.                                                                 *)
Cap(i, c) == IF runs[i].cap = 0 \/ runs[i].cap > Shape(c).max THEN Shape(c).max ELSE runs[i].cap
Pages(c) == (Len(list[c]) + PageSize - 1) \div PageSize
PageOf(c, p) == SubSeq(list[c], (p - 1) * PageSize + 1,
                       IF p * PageSize < Len(list[c]) THEN p * PageSize ELSE Len(list[c]))

(* _date_policy and the overlap floor of SETAD tenders: no cutoff only for an  *)
(* incremental run of a connector that has stored something before.            *)
FirstRun(c) == \A r \in Records : r \in plan.home[c] => ~Stored(db[r])
CutsOff(i, u) == runs[i].mode = "range" \/ u.first
OverlapRequired(i, u) == Shape(u.conn).overlap /\ runs[i].mode = "incremental" /\ ~u.first

StartList(i, u, c) ==
  LET v == [u EXCEPT !.pc = "list", !.conn = c, !.page = 1, !.prev = <<>>, !.known = 0,
                     !.cands = <<>>, !.first = FirstRun(c), !.start = Listed(c),
                     !.sum = [NoSummary EXCEPT !.status = "succeeded"]]
  IN [v EXCEPT !.floor = ~OverlapRequired(i, v)]

(* After a list or a batch of details: the next connector, the details left    *)
(* for last (Hezareh), or the final save.                                      *)
NextTask(i, done) ==
  LET u == [Off EXCEPT !.todo = done.todo, !.jobs = done.jobs, !.sums = done.sums] IN
  IF u.todo # <<>> THEN [StartList(i, u, Head(u.todo)) EXCEPT !.todo = Tail(u.todo)]
  ELSE IF u.jobs # <<>>
       THEN [u EXCEPT !.pc = "details", !.conn = Head(u.jobs).conn, !.cands = Head(u.jobs).cands,
                      !.jobs = Tail(u.jobs)]
       ELSE [u EXCEPT !.pc = "save"]

Warned(sum) == IF sum.status = "succeeded" THEN [sum EXCEPT !.status = "succeeded_with_warnings"] ELSE sum

(* The summary of one connector is complete; details follow only a complete    *)
(* list, at once for Parsnamad, after every list for Hezareh.                  *)
ListDone(i, u) ==
  LET v == [u EXCEPT !.sums[u.conn] = u.sum]
      cands == SubSeq(u.cands, 1, IF Len(u.cands) < DetailLimit THEN Len(u.cands) ELSE DetailLimit)
  IN IF ~(Deferred(u.conn) /\ runs[i].details /\ u.sum.complete /\ cands # <<>>) THEN NextTask(i, v)
     ELSE IF Shape(u.conn).kind = "parsnamad" THEN [Off EXCEPT !.pc = "details", !.conn = u.conn, !.cands = cands,
                                                       !.todo = v.todo, !.jobs = v.jobs, !.sums = v.sums]
     ELSE NextTask(i, [v EXCEPT !.jobs = Append(@, [conn |-> u.conn, cands |-> cands])])

Begin(i) ==
  LET runnable == {c \in runs[i].conns : conn[c].enabled}
  IN /\ runs' = [runs EXCEPT ![i].st = "running"]
     /\ w' = [w EXCEPT ![i] = NextTask(i, [Off EXCEPT !.todo = SetToSeq(runnable)])]

RunExtraction(i) ==
  /\ i \in msgs /\ w[i].pc = "off"
  /\ msgs' = msgs \ {i}
  /\ stale' = stale \ {i}
  /\ Begin(i)
  /\ UNCHANGED <<plan, list, content, db, items, conn, settings, form, gap, budget>>

(* A page that ends the list before anything is stored: it could not be        *)
(* fetched or parsed, repeats the page before, is empty, or is all too old.    *)
Broken(o) == o \in {"fetch_error", "parse_error"}
Repeated(u, page) == page # <<>> /\ page = u.prev
TooOldPage(i, u, page) == page # <<>> /\ CutsOff(i, u) /\ \A k \in DOMAIN page : page[k] \in plan.old
BlankIsEnd(u, o) == Shape(u.conn).ends
NaturalEnd(u, o) == Shape(u.conn).ends /\ o # "blank"

EndsUnread(i, u, o, page) == Broken(o) \/ Repeated(u, page) \/ page = <<>> \/ TooOldPage(i, u, page)
UnreadSummary(i, u, o, page) ==
  [u.sum EXCEPT
     !.status = IF Broken(o) THEN "failed"
                ELSE IF Repeated(u, page) \/ (page = <<>> /\ ~NaturalEnd(u, o)) THEN "partial" ELSE @,
     !.complete = ~Broken(o) /\ ~Repeated(u, page) /\ (page = <<>> => NaturalEnd(u, o)),
     !.bad = IF Broken(o) THEN @ + 1 ELSE @]

(* Storing a page: every selected record on its own; bad ones fail.            *)
Selected(i, u, page) == {r \in ToSet(page) : CutsOff(i, u) => r \notin plan.old}
DetailDropped(i, u, r) == 0
KeptDetail(i, u, r) == IF Deferred(u.conn) /\ runs[i].details THEN db[r].raw.d ELSE 0
ListedPayload(i, u, r) == Payload(content[r], KeptDetail(i, u, r))
StatusesOf(i, u, rs) == {ItemStatus(r, db[r], ListedPayload(i, u, r)) : r \in rs}
KnownPages(i, u, rs) == IF StatusesOf(i, u, rs) = {"duplicate"} THEN u.known + 1 ELSE 0
KnownBoundary(i, u, known, floor) ==
  /\ runs[i].mode = "incremental" /\ ~u.first
  /\ known >= 2
  /\ u.page >= Shape(u.conn).late
  /\ floor

(* The cap: complete only if the source itself reports no page beyond it.      *)
CapUnwarned(i, u, sum) ==
  IF Shape(u.conn).total /\ Pages(u.conn) <= Cap(i, u.conn) THEN [sum EXCEPT !.complete = TRUE] ELSE sum
CapSummary(i, u, sum) ==
  IF Shape(u.conn).total /\ Pages(u.conn) <= Cap(i, u.conn) THEN [sum EXCEPT !.complete = TRUE]
  ELSE Warned(sum)

ReadSummary(u, o, rs, bad) ==
  LET sum == [u.sum EXCEPT !.ok = @ + Cardinality(rs), !.bad = @ + Cardinality(bad)]
  IN IF o = "retried" THEN Warned(sum) ELSE sum

(* What was new or changed becomes a candidate for details, in list order.     *)
NewCandidates(cands, page, fresh) ==
  FoldLeft(LAMBDA cs, r : IF r \in fresh THEN Append(cs, [r |-> r, at |-> content[r]]) ELSE cs, cands, page)

UnreadPage(i, o, page) ==
  LET u == w[i]
      sum == UnreadSummary(i, u, o, page)
  IN /\ w' = [w EXCEPT ![i] = ListDone(i, [u EXCEPT !.sum = IF o = "retried" THEN Warned(sum) ELSE sum])]
     /\ gap' = IF sum.complete THEN gap ELSE gap \cup {u.conn}
     /\ items' = [items EXCEPT ![i].pages = @ + 1]
     /\ UNCHANGED db

(* The list has grown by two pages since it was begun: two pages that the run  *)
(* stored itself may by now come again, and look known.                        *)
Outgrown(u) == Cardinality(Listed(u.conn) \ u.start) >= 2 * PageSize

ReadPage(i, o, page, bad) ==
  LET u == w[i]
      c == u.conn
      rs == Selected(i, u, page) \ bad
      fresh == {r \in rs : ItemStatus(r, db[r], ListedPayload(i, u, r)) # "duplicate"}
      known == KnownPages(i, u, rs)
      floor == u.floor \/ \A k \in DOMAIN page : page[k] \in plan.old
      stop == KnownBoundary(i, u, known, floor) \/ (Shape(c).ends /\ u.page >= Pages(c))
      last == u.page >= Cap(i, c)
      read == ReadSummary(u, o, rs, bad)
      sum == IF stop THEN [read EXCEPT !.complete = TRUE]
             ELSE IF last THEN CapSummary(i, u, read) ELSE read
      v == [u EXCEPT !.prev = page, !.known = known, !.floor = floor, !.page = @ + 1, !.sum = sum,
                     !.cands = NewCandidates(@, page, fresh)]
  IN /\ db' = [r \in Records |-> IF r \in rs THEN Recorded(r, db[r], ListedPayload(i, u, r)) ELSE db[r]]
     /\ items' = [items EXCEPT ![i].ok = @ + Cardinality(rs), ![i].bad = @ + Cardinality(bad), ![i].pages = @ + 1]
     /\ w' = [w EXCEPT ![i] = IF stop \/ last THEN ListDone(i, v) ELSE v]
     /\ gap' = IF bad # {} \/ ((stop \/ last) /\ ~sum.complete) \/ (KnownBoundary(i, u, known, floor) /\ Outgrown(u))
               THEN gap \cup {c} ELSE gap

(* One page of a list: the outcome o of the fetch with its retries, and the    *)
(* records whose storing fails.                                                *)
Page(i) == \E o \in {"page", "retried", "fetch_error", "parse_error", "blank"} :
  LET page == IF o = "blank" THEN <<>> ELSE PageOf(w[i].conn, w[i].page)
      unread == EndsUnread(i, w[i], o, page)
  IN
  /\ w[i].pc = "list"
  /\ \E bad \in SUBSET (IF unread THEN {} ELSE Selected(i, w[i], page)) :
       /\ IF o = "page" /\ bad = {} THEN UNCHANGED budget ELSE Spend("faults")
       /\ IF unread THEN UnreadPage(i, o, page) ELSE ReadPage(i, o, page, bad)
  /\ stale' = stale \ {i}
  /\ UNCHANGED <<plan, list, content, runs, msgs, conn, settings, form>>

(* One detail page, merged over the list row that made it a candidate; then    *)
(* the candidates of rest follow.                                              *)
DetailPage(i, o, rest) ==
  LET u == w[i]
      x == Head(u.cands)
      p == Payload(x.at, content[x.r].v)
      v == [u EXCEPT !.cands = rest, !.sums[u.conn] = IF o = "enriched" THEN @ ELSE Warned(@)]
  IN
  /\ u.pc = "details"
  /\ IF o = "enriched" THEN UNCHANGED budget ELSE Spend("faults")
  /\ db' = IF o = "enriched" THEN [db EXCEPT ![x.r] = Recorded(x.r, @, p)] ELSE db
  /\ stale' = IF o = "enriched" THEN stale ELSE stale \ {i}
  /\ w' = [w EXCEPT ![i] = IF rest = <<>> THEN NextTask(i, v) ELSE v]
  /\ UNCHANGED <<plan, list, content, runs, items, msgs, conn, settings, form, gap>>

(* A security challenge ends the details of Hezareh, not those of Parsnamad.   *)
HezarehDetail(i) == \E o \in {"enriched", "failed", "challenge"} :
  /\ w[i].pc = "details" /\ Shape(w[i].conn).kind = "hezareh"
  /\ DetailPage(i, o, IF o = "challenge" THEN <<>> ELSE Tail(w[i].cands))
ParsnamadDetail(i) == \E o \in {"enriched", "failed"} :
  /\ w[i].pc = "details" /\ Shape(w[i].conn).kind = "parsnamad"
  /\ DetailPage(i, o, Tail(w[i].cands))

(* The worker writes its result, whatever the row says by now.                 *)
ResultStatus(i, sums) ==
  LET of == {c \in Connectors : sums[c].status # "none"}
      with(s) == {c \in of : sums[c].status = s}
  IN IF of = {} THEN "cancelled"
     ELSE IF with("failed") = of THEN "failed"
     ELSE IF with("failed") # {} \/ with("partial") # {} THEN "partial"
     ELSE IF with("succeeded_with_warnings") # {} \/ of # runs[i].conns THEN "succeeded_with_warnings"
     ELSE "succeeded"
SumOver(sums, f) == FoldSet(LAMBDA c, n : n + sums[c][f], 0, Connectors)

Save(i) ==
  LET sums == w[i].sums IN
  /\ w[i].pc = "save"
  /\ runs' = [runs EXCEPT ![i].st = ResultStatus(i, sums), ![i].ok = SumOver(sums, "ok"),
                          ![i].bad = SumOver(sums, "bad")]
  /\ conn' = [c \in Connectors |->
                IF sums[c].status = "none" THEN conn[c]
                ELSE [conn[c] EXCEPT !.ok = sums[c].status \notin {"failed", "partial"}]]
  /\ w' = [w EXCEPT ![i] = [Off EXCEPT !.sums = sums]]
  /\ stale' = stale \ {i}
  /\ UNCHANGED <<plan, list, content, db, items, msgs, settings, form, gap, budget>>

(* The process dies, or the task raises: the row keeps its status.             *)
Stop(i) ==
  /\ w[i].pc # "off" /\ Spend("faults")
  /\ w' = [w EXCEPT ![i] = Off]
  /\ gap' = gap \cup (IF w[i].pc = "list" THEN {w[i].conn} ELSE {})
  /\ UNCHANGED <<plan, list, content, db, runs, items, msgs, conn, settings, stale, form>>

(* The broker was down when the request committed, or lost the message.        *)
LoseMessage(i) ==
  /\ i \in msgs /\ Spend("faults")
  /\ msgs' = msgs \ {i}
  /\ UNCHANGED <<plan, list, content, db, runs, items, w, conn, settings, stale, form, gap>>

-----------------------------------------------------------------------------
ExtInit ==
  /\ plan \in Plans
  /\ list = plan.list
  /\ content = [r \in Records |-> [v |-> 1, dl |-> 1, tick |-> 0]]
  /\ db = [r \in Records |-> Absent]
  /\ runs = [i \in Runs |-> NoRun]
  /\ items = [i \in Runs |-> [ok |-> 0, bad |-> 0, pages |-> 0]]
  /\ msgs = {} /\ stale = {} /\ form = NoForm /\ gap = {}
  /\ w = [i \in Runs |-> Off]
  /\ conn = [c \in Connectors |-> [enabled |-> c \in plan.conns, ok |-> TRUE]]
  /\ settings = [enabled |-> TRUE, next |-> "later"]
  /\ budget = plan.budget

Worker(i) == RunExtraction(i) \/ Page(i) \/ HezarehDetail(i) \/ ParsnamadDetail(i) \/ Save(i)
==============================================================================
