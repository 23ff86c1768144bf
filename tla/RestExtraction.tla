---------------------------- MODULE RestExtraction ----------------------------
(***************************************************************************)
(* extract_rest (aws-native/mdep_ingestion/extractors.py) as a walk over   *)
(* the pages of a source, one GET at a time, and the extractors that read  *)
(* a table or a file at once.  The source answers each GET from what it    *)
(* holds then (source-data/rest-api/app.py), so a walk over several pages  *)
(* may meet several versions of it.  A source is a sequence of records     *)
(* with well-formed links, or one whose next_page always names the first   *)
(* page.  The limits of an extraction are its caller's.                    *)
(***************************************************************************)
EXTENDS FiniteSets, Integers, Sequences

CONSTANTS
  Invalid,    \* records that validate_record refuses
  PageSize,   \* records on a page
  FetchSize,  \* fetch_size: rows that a cursor fetches at once
  MaxRetries, \* max_retries: attempts at one page beyond the first
  Outages,    \* transport errors and retryable statuses, as they are reported
  Refusals    \* other statuses, and bodies that are no page

(* max_pages and max_records of one extraction *)
Limit == [pages : Nat \ {0}, records : Nat]

ASSUME LimitsAssumption ==
  PageSize \in Nat \ {0} /\ FetchSize \in Nat \ {0} /\ MaxRetries \in Nat

(* What is wrong with the records of a source, or with its links, and what *)
(* is too much for an extraction.                                          *)
ContentReasons == {"invalid_source_schema", "pagination_loop"}

SourceReasons == ContentReasons \cup {"max_records_exceeded", "max_pages_exceeded"}

ASSUME AnswersAssumption ==
  \A answer \in Outages \cup Refusals :
    answer.reason \in { "rest_transport_error", "rest_retry_exhausted", "rest_non_retryable_http",
                        "malformed_json", "invalid_response_schema", "invalid_next_page" }

NoPage == 0  \* next_page: null

(* paginate *)
PageItems(source, page) ==
  [i \in {n \in 1 .. PageSize : (page - 1) * PageSize + n <= Len(source.records)} |->
     source.records[(page - 1) * PageSize + i]]

NextPage(source, page) ==
  IF source.loops THEN 1
  ELSE IF page * PageSize < Len(source.records) THEN page + 1
  ELSE NoPage

-----------------------------------------------------------------------------
(* A locator names the source, one of its pages, an item on a page, a row  *)
(* by its key, or a line of a file by the file's checksum.                 *)
Locator(content, place) == [content |-> content, place |-> place]

Whole == Locator(<< >>, << >>)

PageUrl(page) == Locator(<< >>, <<page>>)

SourceError(reason, locator, original) ==
  [reason |-> reason, locator |-> locator, original |-> original]

NoError == SourceError("none", Whole, NoPage)

(* A walk has read items, each with the page of its locator. *)
StartWalk ==
  [state |-> "reading", page |-> 1, seen |-> {1}, tries |-> 0, items |-> << >>, error |-> NoError]

Complete(walk) == [walk EXCEPT !.state = "complete"]

Raised(walk, error) == [walk EXCEPT !.state = "refused", !.error = error]

TurnTo(walk, next) == [walk EXCEPT !.page = next, !.seen = @ \cup {next}, !.tries = 0]

(* Mutants: a walk cut at the page limit counts as complete; no guard      *)
(* against a page already read.                                            *)
FollowToLimit(walk, next, limit) ==
  IF next = NoPage \/ Cardinality(walk.seen) >= limit.pages THEN Complete(walk)
  ELSE IF next \in walk.seen THEN Raised(walk, SourceError("pagination_loop", Whole, next))
  ELSE TurnTo(walk, next)

FollowAnyLink(walk, next, limit) ==
  IF next = NoPage THEN Complete(walk)
  ELSE IF Cardinality(walk.seen) >= limit.pages
       THEN Raised(walk, SourceError("max_pages_exceeded", Whole, limit.pages))
  ELSE TurnTo(walk, next)

(* The head of the loop, for the page the response named. *)
Follow(walk, next, limit) ==
  IF next = NoPage THEN Complete(walk)
  ELSE IF next \in walk.seen THEN Raised(walk, SourceError("pagination_loop", Whole, next))
  ELSE IF Cardinality(walk.seen) >= limit.pages
       THEN Raised(walk, SourceError("max_pages_exceeded", Whole, limit.pages))
  ELSE TurnTo(walk, next)

(* validate_record, record by record: one refused record ends the          *)
(* extraction.                                                             *)
Accepted(items) == \A i \in DOMAIN items : items[i] \notin Invalid

(* The records at the head of items that are accepted, by their number. *)
AcceptedHead(items) == {n \in DOMAIN items : Accepted(SubSeq(items, 1, n))}

FirstRefused(items) == Cardinality(AcceptedHead(items)) + 1

TooMany(limit) == SourceError("max_records_exceeded", Whole, limit.records)

InvalidRecord(items, locator) ==
  SourceError("invalid_source_schema", locator, items[FirstRefused(items)])

(* A 2xx response with a well-formed body; each record is validated and    *)
(* then counted.                                                           *)
TakePage(walk, items, next, limit) ==
  IF Len(walk.items) + Cardinality(AcceptedHead(items)) > limit.records THEN Raised(walk, TooMany(limit))
  ELSE IF AcceptedHead(items) # DOMAIN items
       THEN Raised(walk, InvalidRecord(items, Locator(<< >>, <<walk.page, FirstRefused(items)>>)))
  ELSE Follow([walk EXCEPT !.items = @ \o [i \in DOMAIN items |-> <<walk.page, items[i]>>]], next, limit)

FailedGet(walk, answer) ==
  Raised(walk, SourceError(answer.reason, PageUrl(walk.page), answer.original))

(* An outage; the last attempt's is the one that is raised. *)
TryAgain(walk, outage) ==
  IF walk.tries < MaxRetries THEN [walk EXCEPT !.tries = @ + 1] ELSE FailedGet(walk, outage)

GiveUp(walk, refusal) == FailedGet(walk, refusal)

-----------------------------------------------------------------------------
ReadWhole(items) ==
  Complete([StartWalk EXCEPT !.items = [i \in DOMAIN items |-> <<1, items[i]>>]])

(* extract_file_bytes: the records are counted, then validated. *)
TakeFile(source, limit) ==
  LET items == source.records
  IN IF Len(items) > limit.records THEN Raised(StartWalk, TooMany(limit))
     ELSE IF AcceptedHead(items) # DOMAIN items
          THEN Raised(StartWalk, InvalidRecord(items, Locator(items, <<FirstRefused(items)>>)))
     ELSE ReadWhole(items)

(* extract_postgres: the rows of a snapshot; each fetch is counted and     *)
(* then validated.                                                         *)
TakeRows(source, limit) ==
  LET items == source.records
      fetched == (Cardinality(AcceptedHead(items)) \div FetchSize + 1) * FetchSize
  IN IF Len(items) > limit.records /\ fetched > limit.records THEN Raised(StartWalk, TooMany(limit))
     ELSE IF AcceptedHead(items) # DOMAIN items
          THEN Raised(StartWalk, InvalidRecord(items, Locator(<<items[FirstRefused(items)]>>, << >>)))
     ELSE ReadWhole(items)

Records(items) == [i \in DOMAIN items |-> items[i][2]]
===============================================================================
