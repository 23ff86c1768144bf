--------------------------- MODULE AwsIngestionProofs ---------------------------
(***************************************************************************)
(* Proofs about AwsIngestion for all callers, entities, sources, page      *)
(* sizes and limits: what was reported as ingested is committed and stays, *)
(* what is stored is the whole of a source that held still, and such a     *)
(* source is refused by every run of a caller in the same way, or by none. *)
(***************************************************************************)
EXTENDS AwsIngestion, SequenceTheorems, FiniteSetTheorems, TLAPS

Walk(error) ==
  [ state : {"reading", "complete", "refused"}, page : Nat \ {0}, seen : SUBSET (Nat \ {0}),
    tries : 0 .. MaxRetries, items : Seq(Item), error : {error} ]

(* A walk has read accepted records only, page after page from the first.  *)
WalkOK(w, limit) ==
  /\ w \in Walk(w.error)
  /\ Accepted(Records(w.items))
  /\ w.seen \subseteq 1 .. limit.pages
  /\ w.state = "reading" => w.seen = 1 .. w.page /\ w.error = NoError

(* A walk that has met only this state of the source has read all records  *)
(* of the pages before its own, and all there are once it is complete.     *)
Reads(w, s) ==
  /\ w.state = "reading" =>
       /\ Len(w.items) = (w.page - 1) * PageSize
       /\ Len(w.items) <= Len(s.records)
       /\ \A i \in 1 .. Len(w.items) : w.items[i][2] = s.records[i]
  /\ w.state = "complete" => Records(w.items) = s.records

IsSource(s) == s.records \in Seq(Payload) /\ s.loops \in BOOLEAN

-----------------------------------------------------------------------------
(* What a page of a source holds. *)
LEMMA PageShape ==
  ASSUME NEW s, IsSource(s), NEW page \in Nat \ {0}
  PROVE  LET items == PageItems(s, page)
             before == (page - 1) * PageSize
         IN /\ items \in Seq(Payload)
            /\ \A i \in 1 .. Len(items) :
                 items[i] = s.records[before + i] /\ before + i \in 1 .. Len(s.records)
            /\ page * PageSize < Len(s.records) => Len(items) = PageSize
            /\ before <= Len(s.records) /\ page * PageSize >= Len(s.records) =>
                 Len(items) = Len(s.records) - before
<1> DEFINE items == PageItems(s, page)
           before == (page - 1) * PageSize
           size == Len(s.records)
           length == IF before + PageSize <= size THEN PageSize
                     ELSE IF before <= size THEN size - before ELSE 0
<1>1. /\ PageSize \in Nat \ {0} /\ before \in Nat /\ size \in Nat
      /\ page * PageSize = before + PageSize
  <2>1. PageSize \in Nat \ {0} /\ size \in Nat
    BY LimitsAssumption, LenProperties DEF IsSource
  <2>2. before \in Nat /\ page * PageSize = before + PageSize
    BY <2>1
  <2>. QED
    BY <2>1, <2>2
<1>2. length \in Nat /\ {n \in 1 .. PageSize : before + n <= size} = 1 .. length
  <2> HIDE DEF before, size
  <2>. QED
    BY <1>1
<1>3. items = [i \in 1 .. length |-> s.records[before + i]]
  <2> HIDE DEF length
  <2>. QED
    BY <1>2 DEF PageItems
<1>4. \A i \in 1 .. length : before + i \in 1 .. size
  <2> HIDE DEF before, size
  <2>. QED
    BY <1>1
<1>5. items \in [1 .. length -> Payload]
  <2>1. \A n \in 1 .. size : s.records[n] \in Payload
    BY ElementOfSeq DEF IsSource
  <2> HIDE DEF before, size, length, items
  <2>. QED
    BY <1>3, <1>4, <2>1
<1>6. items \in Seq(Payload) /\ Len(items) = length
  <2> HIDE DEF items, length
  <2>. QED
    BY <1>2, <1>5, SeqDef
<1>7. \A i \in 1 .. Len(items) : items[i] = s.records[before + i] /\ before + i \in 1 .. size
  <2> HIDE DEF length, before, size
  <2>. QED
    BY <1>3, <1>4, <1>6
<1>8. /\ before + PageSize < size => length = PageSize
      /\ before <= size /\ before + PageSize >= size => length = size - before
  <2> HIDE DEF before, size
  <2>. QED
    BY <1>1
<1> HIDE DEF items, before, size, length
<1>9. /\ page * PageSize < size => Len(items) = PageSize
      /\ before <= size /\ page * PageSize >= size => Len(items) = size - before
  BY <1>1, <1>6, <1>8
<1>. QED
  BY <1>6, <1>7, <1>9 DEF items, before, size

(* The page a response names: none after the last one, else the next, or   *)
(* the first of a source whose links lead back.                            *)
LEMMA PageNamed ==
  ASSUME NEW s, IsSource(s), NEW page \in Nat \ {0}
  PROVE  /\ NextPage(s, page) \in {NoPage, 1, page + 1}
         /\ NextPage(s, page) = NoPage => page * PageSize >= Len(s.records) /\ ~ s.loops
         /\ NextPage(s, page) = 1 => s.loops
         /\ NextPage(s, page) \notin {NoPage, 1} => page * PageSize < Len(s.records)
<1>1. page * PageSize \in Nat /\ Len(s.records) \in Nat
  BY LimitsAssumption, LenProperties DEF IsSource
<1>2. CASE s.loops
  BY <1>2 DEF NextPage, NoPage
<1>3. CASE ~ s.loops
  <2>1. NextPage(s, page) = IF page * PageSize < Len(s.records) THEN page + 1 ELSE NoPage
    BY <1>3 DEF NextPage
  <2>. QED
    BY <1>1, <1>3, <2>1 DEF NoPage
<1>. QED
  BY <1>2, <1>3

(* A page is accepted when each of its beginnings is, and only then. *)
LEMMA AcceptedPage ==
  ASSUME NEW items \in Seq(Payload)
  PROVE  AcceptedHead(items) = DOMAIN items <=> Accepted(items)
<1>1. ASSUME NEW n \in DOMAIN items
      PROVE  /\ n \in 1 .. Len(items)
             /\ DOMAIN SubSeq(items, 1, n) = 1 .. n
             /\ \A i \in 1 .. n : SubSeq(items, 1, n)[i] = items[i]
  <2>1. n \in 1 .. Len(items) /\ n \in Nat \ {0} /\ Len(items) \in Nat
    BY LenProperties
  <2>2. \A i \in 1 .. n : items[i] \in Payload
    BY <2>1, ElementOfSeq
  <2>3. /\ SubSeq(items, 1, n) \in Seq(Payload) /\ Len(SubSeq(items, 1, n)) = n
        /\ \A i \in 1 .. n : SubSeq(items, 1, n)[i] = items[i]
    BY <2>1, <2>2, SubSeqProperties
  <2>. QED
    BY <2>1, <2>3, LenProperties
<1>2. \A n \in DOMAIN items : n \in 1 .. n /\ 1 .. n \subseteq DOMAIN items
  <2>1. DOMAIN items = 1 .. Len(items) /\ Len(items) \in Nat
    BY LenProperties
  <2>. QED
    BY <2>1
<1>3. ASSUME AcceptedHead(items) = DOMAIN items PROVE Accepted(items)
  <2> SUFFICES ASSUME NEW n \in DOMAIN items PROVE items[n] \notin Invalid
    BY DEF Accepted
  <2>1. Accepted(SubSeq(items, 1, n))
    BY <1>3 DEF AcceptedHead
  <2>. QED
    BY <1>1, <1>2, <2>1 DEF Accepted
<1>4. ASSUME Accepted(items) PROVE AcceptedHead(items) = DOMAIN items
  <2> SUFFICES ASSUME NEW n \in DOMAIN items PROVE Accepted(SubSeq(items, 1, n))
    BY DEF AcceptedHead
  <2>. QED
    BY <1>1, <1>2, <1>4 DEF Accepted
<1>. QED
  BY <1>3, <1>4

(* The items a walk has after a page it accepted. *)
LEMMA PageAdded ==
  ASSUME NEW w, NEW limit, WalkOK(w, limit), NEW items \in Seq(Payload), Accepted(items)
  PROVE  LET longer == w.items \o [i \in DOMAIN items |-> <<w.page, items[i]>>]
         IN /\ longer \in Seq(Item)
            /\ Len(longer) = Len(w.items) + Len(items)
            /\ \A i \in 1 .. Len(w.items) : longer[i] = w.items[i]
            /\ \A i \in 1 .. Len(items) : longer[Len(w.items) + i][2] = items[i]
            /\ Accepted(Records(longer))
<1> DEFINE page == [i \in DOMAIN items |-> <<w.page, items[i]>>]
           longer == w.items \o page
<1>1. w.items \in Seq(Item) /\ w.page \in Nat \ {0}
  BY DEF WalkOK, Walk
<1>2. /\ Len(items) \in Nat /\ DOMAIN items = 1 .. Len(items)
      /\ Len(w.items) \in Nat /\ DOMAIN w.items = 1 .. Len(w.items)
  BY <1>1, LenProperties
<1>3. page \in Seq(Item) /\ Len(page) = Len(items)
  <2>1. page \in [1 .. Len(items) -> Item]
    BY <1>1, <1>2, ElementOfSeq DEF Item
  <2> HIDE DEF page
  <2>. QED
    BY <1>2, <2>1, SeqDef
<1>4. \A i \in 1 .. Len(items) : page[i][2] = items[i]
  BY <1>2
<1> HIDE DEF page
<1>5. /\ longer \in Seq(Item) /\ Len(longer) = Len(w.items) + Len(items)
      /\ \A i \in 1 .. Len(w.items) + Len(items) :
           longer[i] = IF i <= Len(w.items) THEN w.items[i] ELSE page[i - Len(w.items)]
  <2>1. ASSUME NEW old \in Seq(Item)
        PROVE  /\ old \o page \in Seq(Item) /\ Len(old \o page) = Len(old) + Len(page)
               /\ \A i \in 1 .. Len(old) + Len(page) :
                    (old \o page)[i] = IF i <= Len(old) THEN old[i] ELSE page[i - Len(old)]
    BY <1>3, ConcatProperties
  <2>2. /\ longer \in Seq(Item) /\ Len(longer) = Len(w.items) + Len(page)
        /\ \A i \in 1 .. Len(w.items) + Len(page) :
             longer[i] = IF i <= Len(w.items) THEN w.items[i] ELSE page[i - Len(w.items)]
    BY <1>1, <2>1, Zenon
  <2>. QED
    BY <1>3, <2>2, Zenon
<1> HIDE DEF longer
<1>6. \A i \in 1 .. Len(w.items) : longer[i] = w.items[i]
  <2> SUFFICES ASSUME NEW i \in 1 .. Len(w.items) PROVE longer[i] = w.items[i]
    OBVIOUS
  <2>1. i \in 1 .. Len(w.items) + Len(items) /\ i <= Len(w.items)
    BY <1>2
  <2>. QED
    BY <1>5, <2>1
<1>7. \A i \in 1 .. Len(items) : longer[Len(w.items) + i][2] = items[i]
  <2> SUFFICES ASSUME NEW i \in 1 .. Len(items)
               PROVE  longer[Len(w.items) + i][2] = items[i]
    OBVIOUS
  <2>1. /\ Len(w.items) + i \in 1 .. Len(w.items) + Len(items)
        /\ ~ (Len(w.items) + i <= Len(w.items)) /\ (Len(w.items) + i) - Len(w.items) = i
    BY <1>2
  <2>2. longer[Len(w.items) + i] = page[i]
    BY <1>5, <2>1
  <2>. QED
    BY <1>4, <2>2
<1>8. Accepted(Records(longer))
  <2>1. DOMAIN longer = 1 .. Len(w.items) + Len(items)
    BY <1>5, LenProperties
  <2>2. ASSUME NEW i \in 1 .. Len(w.items) PROVE longer[i][2] \notin Invalid
    <3>1. w.items[i][2] \notin Invalid
      BY <1>2 DEF WalkOK, Accepted, Records
    <3>. QED
      BY <1>6, <3>1
  <2>3. ASSUME NEW i \in 1 .. Len(items) PROVE longer[Len(w.items) + i][2] \notin Invalid
    BY <1>2, <1>7, <2>3 DEF Accepted
  <2>4. \A i \in 1 .. Len(w.items) + Len(items) :
          i \in 1 .. Len(w.items) \/ \E n \in 1 .. Len(items) : i = Len(w.items) + n
    <3> SUFFICES ASSUME NEW i \in 1 .. Len(w.items) + Len(items), i \notin 1 .. Len(w.items)
                 PROVE  \E n \in 1 .. Len(items) : i = Len(w.items) + n
      OBVIOUS
    <3>1. i - Len(w.items) \in 1 .. Len(items) /\ i = Len(w.items) + (i - Len(w.items))
      BY <1>2
    <3>. QED
      BY <3>1
  <2>. QED
    BY <2>1, <2>2, <2>3, <2>4 DEF Accepted, Records
<1>. QED
  BY <1>5, <1>6, <1>7, <1>8 DEF longer, page

(* A walk that is over keeps what it has. *)
LEMMA StopOK ==
  ASSUME NEW w, NEW limit, WalkOK(w, limit)
  PROVE  /\ WalkOK(Complete(w), limit)
         /\ Complete(w).state = "complete" /\ Complete(w).items = w.items /\ Complete(w).error = w.error
         /\ \A error : /\ WalkOK(Raised(w, error), limit)
                       /\ Raised(w, error).state = "refused" /\ Raised(w, error).error = error
<1>1. w \in Walk(w.error)
  BY DEF WalkOK
<1>2. /\ Complete(w) \in Walk(w.error) /\ Complete(w).state = "complete" /\ Complete(w).items = w.items
      /\ Complete(w).seen = w.seen /\ Complete(w).error = w.error
  BY <1>1 DEF Complete, Walk
<1>3. ASSUME NEW error
      PROVE  /\ Raised(w, error) \in Walk(error) /\ Raised(w, error).state = "refused"
             /\ Raised(w, error).items = w.items /\ Raised(w, error).seen = w.seen
             /\ Raised(w, error).error = error
  BY <1>1 DEF Raised, Walk
<1>. QED
  BY <1>2, <1>3 DEF WalkOK

(* The head of the loop goes to the next page, as long as the limit and    *)
(* the pages seen allow it, or the walk is over.                           *)
LEMMA FollowOK ==
  ASSUME NEW limit \in Limit, NEW w, WalkOK(w, limit), w.state = "reading",
         NEW next \in {NoPage, 1, w.page + 1}
  PROVE  LET v == Follow(w, next, limit)
         IN /\ WalkOK(v, limit)
            /\ v.state = "reading" => /\ next \notin {NoPage, 1} /\ v.page = next /\ next = w.page + 1
                                      /\ v.tries = 0 /\ v.items = w.items
            /\ v.state = "complete" => next = NoPage /\ v.items = w.items
<1>1. /\ w \in Walk(w.error) /\ w.seen = 1 .. w.page /\ w.page \in Nat \ {0} /\ w.error = NoError
      /\ limit.pages \in Nat \ {0} /\ w.seen \subseteq 1 .. limit.pages
  BY DEF WalkOK, Walk, Limit
<1>2. Cardinality(w.seen) = w.page
  BY <1>1, FS_Interval
<1>3. CASE Follow(w, next, limit) = Complete(w) /\ next = NoPage
  BY <1>3, StopOK
<1>4. CASE \E error : Follow(w, next, limit) = Raised(w, error)
  BY <1>4, StopOK
<1>5. CASE ~ (next = NoPage \/ next \in w.seen \/ Cardinality(w.seen) >= limit.pages)
  <2>1. next = w.page + 1 /\ next \in 1 .. limit.pages /\ next # 1 /\ next # NoPage
    BY <1>1, <1>2, <1>5 DEF NoPage
  <2>2. w.seen \cup {next} = 1 .. next /\ w.seen \cup {next} \subseteq 1 .. limit.pages
    BY <1>1, <2>1
  <2>3. Follow(w, next, limit) = TurnTo(w, next)
    BY <1>5 DEF Follow
  <2>4. /\ TurnTo(w, next).page = next /\ TurnTo(w, next).seen = 1 .. next /\ TurnTo(w, next).tries = 0
        /\ TurnTo(w, next).state = "reading" /\ TurnTo(w, next).items = w.items
        /\ TurnTo(w, next).error = NoError
    BY <1>1, <2>2, w.state = "reading" DEF Walk, TurnTo
  <2>5. TurnTo(w, next) \in Walk(NoError)
    <3>1. 0 \in 0 .. MaxRetries /\ next \in Nat \ {0} /\ 1 .. next \in SUBSET (Nat \ {0})
      BY <1>1, <2>1, LimitsAssumption
    <3>. QED
      BY <1>1, <2>2, <3>1 DEF Walk, TurnTo
  <2>. QED
    BY <1>1, <2>1, <2>2, <2>3, <2>4, <2>5 DEF WalkOK
<1>. QED
  BY <1>3, <1>4, <1>5 DEF Follow

(* One page more. *)
LEMMA TakePageOK ==
  ASSUME NEW limit \in Limit, NEW w, WalkOK(w, limit), w.state = "reading", NEW s, IsSource(s)
  PROVE  LET v == TakePage(w, PageItems(s, w.page), NextPage(s, w.page), limit)
         IN /\ WalkOK(v, limit) /\ (Reads(w, s) => Reads(v, s))
            /\ v.state = "reading" => v.page = w.page + 1 /\ v.tries = 0
            /\ v.state = "complete" => ~ s.loops
<1> DEFINE items == PageItems(s, w.page)
           next == NextPage(s, w.page)
           longer == w.items \o [i \in DOMAIN items |-> <<w.page, items[i]>>]
           x == [w EXCEPT !.items = longer]
           v == TakePage(w, items, next, limit)
<1>1. w \in Walk(w.error) /\ w.page \in Nat \ {0} /\ w.items \in Seq(Item)
  BY DEF WalkOK, Walk
<1>2. items \in Seq(Payload) /\ next \in {NoPage, 1, w.page + 1}
  BY <1>1, PageShape, PageNamed
<1>3. \/ \E error : v = Raised(w, error)
      \/ v = Follow(x, next, limit) /\ AcceptedHead(items) = DOMAIN items
  <2> HIDE DEF items, next
  <2>. QED
    BY DEF TakePage, v, x, longer
<1>4. CASE \E error : v = Raised(w, error)
  <2> HIDE DEF v
  <2>1. WalkOK(v, limit) /\ v.state = "refused"
    BY <1>4, StopOK
  <2>. QED
    BY <2>1 DEF Reads, v
<1>5. CASE v = Follow(x, next, limit) /\ AcceptedHead(items) = DOMAIN items
  <2>1. Accepted(items)
    <3> HIDE DEF items
    <3>. QED
      BY <1>2, <1>5, AcceptedPage
  <2>2. /\ longer \in Seq(Item) /\ Len(longer) = Len(w.items) + Len(items)
        /\ \A i \in 1 .. Len(w.items) : longer[i] = w.items[i]
        /\ \A i \in 1 .. Len(items) : longer[Len(w.items) + i][2] = items[i]
        /\ Accepted(Records(longer))
    <3> HIDE DEF items
    <3>. QED
      BY <1>2, <2>1, PageAdded DEF longer
  <2> HIDE DEF longer
  <2>3. WalkOK(x, limit) /\ x.items = longer /\ x.state = "reading" /\ x.page = w.page
    BY <1>1, <2>2 DEF WalkOK, Walk
  <2> HIDE DEF x
  <2>4. /\ WalkOK(v, limit)
        /\ v.state = "reading" => /\ next \notin {NoPage, 1} /\ v.page = w.page + 1
                                  /\ v.tries = 0 /\ v.items = longer
        /\ v.state = "complete" => next = NoPage /\ v.items = longer
    <3> HIDE DEF next, v
    <3>. QED
      BY <1>2, <1>5, <2>3, FollowOK
  <2>5. ASSUME Reads(w, s) PROVE Reads(v, s)
    <3>1. /\ Len(w.items) = (w.page - 1) * PageSize /\ Len(w.items) <= Len(s.records)
          /\ \A i \in 1 .. Len(w.items) : w.items[i][2] = s.records[i]
      BY <2>5 DEF Reads
    <3>2. /\ Len(w.items) \in Nat /\ Len(items) \in Nat /\ Len(s.records) \in Nat
          /\ DOMAIN longer = 1 .. Len(longer) /\ DOMAIN s.records = 1 .. Len(s.records)
          /\ s.records \in [1 .. Len(s.records) -> Payload]
      BY <1>1, <1>2, <2>2, LenProperties DEF IsSource
    <3>3. /\ \A i \in 1 .. Len(items) : items[i] = s.records[Len(w.items) + i]
          /\ w.page * PageSize < Len(s.records) => Len(items) = PageSize
          /\ w.page * PageSize >= Len(s.records) => Len(items) = Len(s.records) - Len(w.items)
      <4>1. /\ \A i \in 1 .. Len(items) : items[i] = s.records[(w.page - 1) * PageSize + i]
            /\ w.page * PageSize < Len(s.records) => Len(items) = PageSize
            /\ (w.page - 1) * PageSize <= Len(s.records) /\ w.page * PageSize >= Len(s.records) =>
                 Len(items) = Len(s.records) - (w.page - 1) * PageSize
        BY <1>1, PageShape
      <4> HIDE DEF items
      <4>. QED
        BY <3>1, <4>1
    <3>4. /\ next = NoPage => w.page * PageSize >= Len(s.records)
          /\ next \notin {NoPage, 1} => w.page * PageSize < Len(s.records)
      BY <1>1, PageNamed
    <3> HIDE DEF items, next, v
    <3>5. \A i \in 1 .. Len(longer) : longer[i][2] = s.records[i]
      <4> SUFFICES ASSUME NEW i \in 1 .. Len(longer) PROVE longer[i][2] = s.records[i]
        OBVIOUS
      <4>1. CASE i \in 1 .. Len(w.items)
        BY <2>2, <3>1, <4>1
      <4>2. CASE i \notin 1 .. Len(w.items)
        <5>1. PICK n \in 1 .. Len(items) : i = Len(w.items) + n
          <6>1. i - Len(w.items) \in 1 .. Len(items) /\ i = Len(w.items) + (i - Len(w.items))
            BY <2>2, <3>2, <4>2
          <6>. QED
            BY <6>1
        <5>2. longer[Len(w.items) + n][2] = items[n] /\ items[n] = s.records[Len(w.items) + n]
          BY <2>2, <3>3
        <5>. QED
          BY <5>1, <5>2
      <4>. QED
        BY <4>1, <4>2
    <3>6. /\ w.page * PageSize \in Nat /\ PageSize \in Nat
          /\ w.page * PageSize = (w.page - 1) * PageSize + PageSize
          /\ ((w.page + 1) - 1) * PageSize = w.page * PageSize
      BY <1>1, LimitsAssumption
    <3>7. CASE v.state = "reading"
      <4>1. v.page = w.page + 1 /\ w.page * PageSize < Len(s.records) /\ Len(items) = PageSize
        BY <2>4, <3>3, <3>4, <3>7
      <4>2. Len(longer) = w.page * PageSize /\ Len(longer) <= Len(s.records)
        BY <2>2, <3>1, <3>2, <3>6, <4>1
      <4>3. Len(v.items) = (v.page - 1) * PageSize
        BY <2>4, <3>6, <3>7, <4>1, <4>2
      <4>. QED
        BY <2>4, <3>5, <3>7, <4>2, <4>3 DEF Reads
    <3>8. CASE v.state = "complete"
      <4>1. Len(longer) = Len(s.records)
        BY <2>2, <2>4, <3>2, <3>3, <3>4, <3>8
      <4>2. Records(longer) = s.records
        BY <3>2, <3>5, <4>1 DEF Records
      <4>. QED
        BY <2>4, <3>8, <4>2 DEF Reads
    <3>. QED
      BY <3>7, <3>8 DEF Reads
  <2>6. next = NoPage => ~ s.loops
    BY <1>1, PageNamed
  <2>. QED
    BY <2>4, <2>5, <2>6
<1>. QED
  BY <1>3, <1>4, <1>5

(* An attempt that failed leaves a walk where it was, or ends it. *)
LEMMA FailedGetOK ==
  ASSUME NEW limit, NEW w, WalkOK(w, limit), w.state = "reading", NEW s,
         NEW answer, NEW v \in {TryAgain(w, answer), GiveUp(w, answer)}
  PROVE  /\ WalkOK(v, limit) /\ (Reads(w, s) => Reads(v, s))
         /\ v.state # "complete"
         /\ v.state = "reading" => v.page = w.page /\ v.tries = w.tries + 1
         /\ v.state = "refused" => v.error.reason = answer.reason
<1>1. w \in Walk(w.error) /\ w.error = NoError /\ MaxRetries \in Nat
  BY LimitsAssumption DEF WalkOK
<1>2. CASE v = [w EXCEPT !.tries = @ + 1] /\ w.tries < MaxRetries
  <2>1. w.tries + 1 \in 0 .. MaxRetries
    BY <1>1, <1>2 DEF Walk
  <2>2. /\ v \in Walk(w.error) /\ v.items = w.items /\ v.state = w.state /\ v.page = w.page
        /\ v.seen = w.seen /\ v.error = w.error /\ v.tries = w.tries + 1
    BY <1>1, <1>2, <2>1 DEF Walk
  <2>. QED
    BY <2>2 DEF WalkOK, Reads
<1>3. CASE v = FailedGet(w, answer)
  <2> DEFINE error == SourceError(answer.reason, PageUrl(w.page), answer.original)
  <2>1. v = Raised(w, error) /\ error.reason = answer.reason
    BY <1>3 DEF FailedGet, SourceError
  <2> HIDE DEF error
  <2>2. WalkOK(v, limit) /\ v.state = "refused" /\ v.error = error
    BY <2>1, StopOK
  <2>. QED
    BY <2>1, <2>2 DEF Reads
<1>. QED
  BY <1>2, <1>3 DEF TryAgain, GiveUp

(* A walk at its start. *)
LEMMA StartOK ==
  ASSUME NEW limit \in Limit
  PROVE  /\ WalkOK(StartWalk, limit) /\ StartWalk.state = "reading" /\ StartWalk.page = 1
         /\ \A s : IsSource(s) => Reads(StartWalk, s)
<1>1. limit.pages \in Nat \ {0} /\ MaxRetries \in Nat /\ PageSize \in Nat
  BY LimitsAssumption DEF Limit
<1>2. /\ StartWalk \in Walk(NoError) /\ StartWalk.items = << >> /\ StartWalk.page = 1
      /\ StartWalk.seen = 1 .. 1 /\ StartWalk.state = "reading" /\ StartWalk.error = NoError
      /\ 1 .. 1 \subseteq 1 .. limit.pages
  <2>1. {1} = 1 .. 1 /\ 0 \in 0 .. MaxRetries /\ << >> \in Seq(Item)
    BY <1>1, EmptySeq
  <2>. QED
    BY <1>1, <2>1 DEF StartWalk, Walk
<1>3. Accepted(Records(<< >>))
  BY DEF Accepted, Records
<1>4. ASSUME NEW s, IsSource(s) PROVE Reads(StartWalk, s)
  <2>1. Len(s.records) \in Nat /\ Len(<< >>) = 0 /\ (1 - 1) * PageSize = 0
    BY <1>1, <1>4, LenProperties DEF IsSource
  <2>. QED
    BY <1>2, <2>1 DEF Reads
<1>. QED
  BY <1>2, <1>3, <1>4 DEF WalkOK

(* A source that is read at once. *)
LEMMA ReadAllOK ==
  ASSUME NEW limit \in Limit, NEW s, IsSource(s), NEW v \in {TakeFile(s, limit), TakeRows(s, limit)}
  PROVE  WalkOK(v, limit) /\ Reads(v, s) /\ v.state # "reading"
<1> DEFINE items == [i \in DOMAIN s.records |-> <<1, s.records[i]>>]
           read == [StartWalk EXCEPT !.items = items]
<1>1. CASE \E error : v = Raised(StartWalk, error)
  <2>1. WalkOK(v, limit) /\ v.state = "refused"
    BY <1>1, StartOK, StopOK
  <2>. QED
    BY <2>1 DEF Reads
<1>2. CASE v = Complete(read) /\ AcceptedHead(s.records) = DOMAIN s.records
  <2>1. /\ s.records \in Seq(Payload) /\ s.records \in [1 .. Len(s.records) -> Payload]
        /\ Len(s.records) \in Nat /\ DOMAIN s.records = 1 .. Len(s.records)
    BY LenProperties DEF IsSource
  <2>2. Accepted(s.records)
    BY <1>2, <2>1, AcceptedPage
  <2>3. items \in Seq(Item)
    <3>1. items \in [1 .. Len(s.records) -> Item]
      BY <2>1 DEF Item
    <3> HIDE DEF items
    <3>. QED
      BY <2>1, <3>1, SeqDef
  <2>4. Records(items) = s.records
    BY <2>1 DEF Records
  <2> HIDE DEF items
  <2>5. WalkOK(read, limit) /\ read.items = items
    <3>1. WalkOK(StartWalk, limit) /\ StartWalk \in Walk(StartWalk.error)
      BY StartOK DEF WalkOK
    <3>2. /\ read \in Walk(StartWalk.error) /\ read.items = items /\ read.state = StartWalk.state
          /\ read.error = StartWalk.error /\ read.seen = StartWalk.seen /\ read.page = StartWalk.page
      BY <2>3, <3>1 DEF Walk
    <3> HIDE DEF read
    <3>. QED
      BY <2>2, <2>4, <3>1, <3>2 DEF WalkOK
  <2> HIDE DEF read
  <2>6. WalkOK(v, limit) /\ v.state = "complete" /\ v.items = items
    BY <1>2, <2>5, StopOK
  <2>. QED
    BY <2>4, <2>6 DEF Reads
<1>. QED
  BY <1>1, <1>2 DEF TakeFile, TakeRows, ReadWhole

-----------------------------------------------------------------------------
Outcomes == [status : Success \cup {"none", "conflict", "failed", "rejected"}, items : Seq(Item)]

Labels == {"extract", "publish", "reject", "report", "done", "failed"}

VarTypes ==
  /\ source \in [Entities -> UNION {Sources[e] : e \in Entities}]
  /\ object \in [Entities -> Object \cup {Absent}]
  /\ pc \in [Callers -> Labels]
  /\ runs \in [Callers -> Nat] /\ at \in [Callers -> Nat]
  /\ DOMAIN walk = Callers
  /\ outcome \in [Callers -> Outcomes]
  /\ results \in [Callers -> Seq(Entities \X Seq(Item))]
  /\ faults \in 0 .. MaxFaults /\ changes \in 0 .. MaxChanges
  /\ \A e \in Entities : source[e] \in Sources[e]

(* A caller reads while its walk goes on and publishes a complete one. *)
CallerTypes ==
  /\ \A c \in Callers : runs[c] \in 1 .. Retries[c] + 1 /\ at[c] \in 1 .. Len(Work[c])
  /\ \A c \in Callers : WalkOK(walk[c], LimitOf(c))
  /\ \A c \in Callers : pc[c] = "extract" => walk[c].state = "reading"
  /\ \A c \in Callers : pc[c] = "publish" => walk[c].state = "complete"

Types == VarTypes /\ CallerTypes

(* Sources, entities and limits of a caller are typed. *)
LEMMA EntityType ==
  ASSUME Types, NEW c \in Callers
  PROVE  Entity(c) \in Entities /\ IsSource(source[Entity(c)]) /\ LimitOf(c) \in Limit
<1>1. Entity(c) \in Entities
  BY CallersAssumption, ElementOfSeq DEF Types, VarTypes, CallerTypes, Entity
<1>2. LimitOf(c) \in Limit
  BY <1>1, CallersAssumption DEF LimitOf
<1>. QED
  BY <1>1, <1>2, SourcesAssumption DEF Types, VarTypes, CallerTypes, IsSource

(* Whichever of its entities a caller turns to has a limit. *)
LEMMA StartWithin ==
  ASSUME NEW c \in Callers, at'[c] \in 1 .. Len(Work[c])
  PROVE  WalkOK(StartWalk, LimitOf(c)') /\ StartWalk.state = "reading"
<1>1. Work[c][at'[c]] \in Entities
  BY CallersAssumption, ElementOfSeq
<1>2. LimitOf(c)' = Limits[c][Work[c][at'[c]]]
  BY DEF LimitOf, Entity
<1>3. LimitOf(c)' \in Limit
  BY <1>1, <1>2, CallersAssumption
<1>. QED
  BY <1>3, StartOK

(* A walk stays within the limit of its entity. *)
LEMMA WalkStays ==
  ASSUME Types, NEW c \in Callers, at'[c] = at[c], walk'[c] = walk[c]
  PROVE  WalkOK(walk'[c], LimitOf(c)')
<1>1. LimitOf(c)' = LimitOf(c)
  BY DEF LimitOf, Entity
<1>. QED
  BY <1>1 DEF Types, CallerTypes

(* Where an extraction leaves its caller. *)
LEMMA ExtractedType ==
  ASSUME Types, NEW c \in Callers, pc[c] = "extract", NEW w, WalkOK(w, LimitOf(c)), Extracted(c, w),
         UNCHANGED <<source, object, runs, at, outcome, results, changes>>, faults' \in 0 .. MaxFaults
  PROVE  Types'
<1>1. PICK label \in Labels : /\ pc' = [pc EXCEPT ![c] = label]
                              /\ label = "extract" => w.state = "reading"
                              /\ label = "publish" => w.state = "complete"
  BY DEF Extracted, Goto, Labels
<1>2. walk' = [walk EXCEPT ![c] = w]
  BY DEF Extracted
<1>0. pc \in [Callers -> Labels] /\ DOMAIN walk = Callers
  BY DEF Types, VarTypes
<1>3. VarTypes'
  <2>1. pc' \in [Callers -> Labels] /\ DOMAIN walk' = Callers
    BY <1>0, <1>1, <1>2
  <2>. QED
    BY <2>1 DEF Types, VarTypes
<1>4. \A d \in Callers : /\ WalkOK(walk'[d], LimitOf(d)')
                         /\ runs'[d] \in 1 .. Retries[d] + 1 /\ at'[d] \in 1 .. Len(Work[d])
  <2> SUFFICES ASSUME NEW d \in Callers PROVE WalkOK(walk'[d], LimitOf(d)')
    BY DEF Types, CallerTypes
  <2>1. LimitOf(d)' = LimitOf(d)
    BY DEF LimitOf, Entity
  <2>2. CASE d = c
    BY <1>0, <1>2, <2>1, <2>2
  <2>3. CASE d # c
    BY <1>0, <1>2, <2>3, WalkStays
  <2>. QED
    BY <2>2, <2>3
<1>5. \A d \in Callers : /\ pc'[d] = "extract" => walk'[d].state = "reading"
                         /\ pc'[d] = "publish" => walk'[d].state = "complete"
  BY <1>0, <1>1, <1>2 DEF Types, CallerTypes
<1>. QED
  BY <1>3, <1>4, <1>5 DEF Types, CallerTypes

(* The walks that one GET may leave. *)
AfterGet(c, w) ==
  LET s == source[Entity(c)]
  IN \/ w = TakePage(walk[c], PageItems(s, walk[c].page), NextPage(s, walk[c].page), LimitOf(c))
     \/ \E answer \in Outages \cup Refusals : w \in {TryAgain(walk[c], answer), GiveUp(walk[c], answer)}

(* The walk that reading a whole source leaves. *)
AfterReadAll(c, w) ==
  LET s == source[Entity(c)]
  IN w = IF Entity(c) \in FileEntities THEN TakeFile(s, LimitOf(c)) ELSE TakeRows(s, LimitOf(c))

(* A walk that is read on is well-formed. *)
LEMMA GetWalk ==
  ASSUME Types, NEW c \in Callers, Get(c) \/ ReadAll(c)
  PROVE  \E w : /\ WalkOK(w, LimitOf(c)) /\ Extracted(c, w) /\ faults' \in 0 .. MaxFaults
                /\ Reads(walk[c], source[Entity(c)]) => Reads(w, source[Entity(c)])
                /\ Get(c) => AfterGet(c, w)
                /\ ReadAll(c) => AfterReadAll(c, w)
<1> DEFINE s == source[Entity(c)]
<1>1. /\ WalkOK(walk[c], LimitOf(c)) /\ walk[c].state = "reading" /\ IsSource(s)
      /\ LimitOf(c) \in Limit
  BY EntityType DEF Types, VarTypes, CallerTypes, Get, ReadAll
<1>2. faults' \in 0 .. MaxFaults
  <2>1. faults' = faults \/ Fault
    BY DEF Get, ReadAll
  <2>. QED
    BY <2>1, CallersAssumption DEF Types, VarTypes, CallerTypes, Fault
<1>0. ~ (Get(c) /\ ReadAll(c))
  BY DEF Get, ReadAll
<1>3. CASE Get(c)
  <2>1. PICK w : AfterGet(c, w) /\ Extracted(c, w)
    BY <1>3 DEF Get, AfterGet
  <2>2. WalkOK(w, LimitOf(c)) /\ (Reads(walk[c], s) => Reads(w, s))
    <3>1. CASE w = TakePage(walk[c], PageItems(s, walk[c].page), NextPage(s, walk[c].page), LimitOf(c))
      <4> HIDE DEF s
      <4>. QED
        BY <1>1, <3>1, TakePageOK
    <3>2. ASSUME NEW answer \in Outages \cup Refusals,
                 w \in {TryAgain(walk[c], answer), GiveUp(walk[c], answer)}
          PROVE  WalkOK(w, LimitOf(c)) /\ (Reads(walk[c], s) => Reads(w, s))
      <4> HIDE DEF s
      <4>. QED
        BY <1>1, <3>2, FailedGetOK
    <3>. QED
      BY <2>1, <3>1, <3>2 DEF AfterGet
  <2>. QED
    BY <1>0, <1>2, <1>3, <2>1, <2>2
<1>4. CASE ReadAll(c)
  <2>1. PICK w : AfterReadAll(c, w) /\ Extracted(c, w)
    BY <1>4 DEF ReadAll, AfterReadAll
  <2>2. WalkOK(w, LimitOf(c)) /\ Reads(w, s)
    <3>1. w \in {TakeFile(s, LimitOf(c)), TakeRows(s, LimitOf(c))}
      BY <2>1 DEF AfterReadAll
    <3> HIDE DEF s
    <3>. QED
      BY <1>1, <3>1, ReadAllOK
  <2>. QED
    BY <1>0, <1>2, <1>4, <2>1, <2>2
<1>. QED
  BY <1>3, <1>4

(* A run that raises is begun again from its first entity, or is over. *)
LEMMA RaiseType ==
  ASSUME Types, NEW c \in Callers, Raise(c),
         UNCHANGED <<source, changes>>, faults' \in 0 .. MaxFaults,
         object' \in [Entities -> Object \cup {Absent}]
  PROVE  Types'
<1>1. results' \in [Callers -> Seq(Entities \X Seq(Item))]
  BY EmptySeq DEF Raise, Types, VarTypes
<1>2. CASE runs[c] <= Retries[c]
  <2>1. /\ pc' = [pc EXCEPT ![c] = "extract"] /\ runs' = [runs EXCEPT ![c] = @ + 1]
        /\ at' = [at EXCEPT ![c] = 1] /\ walk' = [walk EXCEPT ![c] = StartWalk]
        /\ outcome' = [outcome EXCEPT ![c] = NoOutcome]
    BY <1>2 DEF Raise, Goto
  <2>2. runs[c] \in Nat /\ Retries[c] \in Nat /\ runs[c] + 1 \in 1 .. Retries[c] + 1
    BY <1>2, CallersAssumption DEF Types, VarTypes, CallerTypes
  <2>3. 1 \in 1 .. Len(Work[c])
    <3>1. Work[c] \in Seq(Entities) /\ Work[c] # << >>
      BY CallersAssumption
    <3>. QED
      BY <3>1, EmptySeq
  <2>4. NoOutcome \in Outcomes
    BY EmptySeq DEF NoOutcome, Outcomes
  <2>5. /\ pc' \in [Callers -> Labels] /\ runs' \in [Callers -> Nat] /\ at' \in [Callers -> Nat]
        /\ DOMAIN walk' = Callers /\ outcome' \in [Callers -> Outcomes]
    BY <2>1, <2>2, <2>4 DEF Types, VarTypes, CallerTypes, Labels
  <2>6. \A d \in Callers : runs'[d] \in 1 .. Retries[d] + 1 /\ at'[d] \in 1 .. Len(Work[d])
    BY <2>1, <2>2, <2>3 DEF Types, VarTypes, CallerTypes
  <2>7. \A d \in Callers : /\ WalkOK(walk'[d], LimitOf(d)')
                           /\ pc'[d] = "extract" => walk'[d].state = "reading"
                           /\ pc'[d] = "publish" => walk'[d].state = "complete"
    <3> SUFFICES ASSUME NEW d \in Callers
                 PROVE  /\ WalkOK(walk'[d], LimitOf(d)')
                        /\ pc'[d] = "extract" => walk'[d].state = "reading"
                        /\ pc'[d] = "publish" => walk'[d].state = "complete"
      OBVIOUS
    <3>1. CASE d = c
      <4>1. walk'[d] = StartWalk /\ pc'[d] = "extract" /\ at'[d] \in 1 .. Len(Work[d])
        BY <2>1, <2>6, <3>1 DEF Types, VarTypes
      <4>. QED
        BY <4>1, StartWithin
    <3>2. CASE d # c
      <4>1. walk'[d] = walk[d] /\ pc'[d] = pc[d] /\ at'[d] = at[d]
        BY <2>1, <3>2 DEF Types, VarTypes
      <4>. QED
        BY <4>1, WalkStays DEF Types, CallerTypes
    <3>. QED
      BY <3>1, <3>2
  <2>8. /\ source' \in [Entities -> UNION {Sources[e] : e \in Entities}] /\ changes' \in 0 .. MaxChanges
        /\ \A e \in Entities : source'[e] \in Sources[e]
    BY DEF Types, VarTypes, CallerTypes
  <2>9. VarTypes'
    BY <1>1, <2>5, <2>8 DEF VarTypes
  <2>. QED
    BY <2>6, <2>7, <2>9 DEF Types, CallerTypes
<1>3. CASE ~ (runs[c] <= Retries[c])
  <2>1. pc' = [pc EXCEPT ![c] = "failed"] /\ UNCHANGED <<runs, at, walk, outcome>>
    BY <1>3 DEF Raise, Goto
  <2>2. VarTypes'
    BY <1>1, <2>1 DEF Types, VarTypes, Labels
  <2>3. CallerTypes'
    <3>1. \A d \in Callers : WalkOK(walk'[d], LimitOf(d)')
      BY <2>1, WalkStays
    <3>. QED
      BY <2>1, <3>1 DEF Types, VarTypes, CallerTypes
  <2>. QED
    BY <2>2, <2>3 DEF Types
<1>. QED
  BY <1>2, <1>3

(* What a walk has read are items. *)
LEMMA WalkItems ==
  ASSUME Types, NEW c \in Callers
  PROVE  walk[c].items \in Seq(Item)
BY DEF Types, CallerTypes, WalkOK, Walk

(* A data object with its manifest. *)
Batch(items) == [items |-> items, committed |-> TRUE]

(* What a publication may do to the objects: a committed batch is never    *)
(* replaced, and what is new has the items that were published.            *)
ObjectsAfter(e, items) ==
  /\ object' \in [Entities -> Object \cup {Absent}]
  /\ \A d \in Entities \ {e} : object'[d] = object[d]
  /\ \A batch \in Seq(Item) : object[e] = Batch(batch) => object'[e] = object[e]
  /\ object'[e] = object[e] \/ (object'[e] \in Object /\ object'[e].items = items)

(* What a publication that is cut short does to the objects. *)
LEMMA LeftoversKept ==
  ASSUME Types, NEW c \in Callers, pc[c] = "publish",
         NEW left \in Leftovers(object[Entity(c)], walk[c].items),
         object' = [object EXCEPT ![Entity(c)] = left]
  PROVE  ObjectsAfter(Entity(c), walk[c].items)
<1> DEFINE e == Entity(c)
           items == walk[c].items
<1>1. e \in Entities /\ items \in Seq(Item) /\ object[e] \in Object \cup {Absent}
  BY EntityType, WalkItems DEF Types, VarTypes
<1>2. \/ left = object[e]
      \/ /\ left \in Object /\ left.items = items
         /\ object[e] = Absent \/ (object[e].items = items /\ left = Batch(items))
  <2>1. CASE left = object[e]
    BY <2>1
  <2>2. CASE object[e] = Absent /\ left \in {[items |-> items, committed |-> b] : b \in BOOLEAN}
    BY <1>1, <2>2 DEF Object
  <2>3. CASE object[e].items = items /\ left = Batch(items)
    BY <1>1, <2>3 DEF Object, Batch
  <2>. QED
    BY <2>1, <2>2, <2>3 DEF Leftovers, Batch
<1>3. \A batch \in Seq(Item) : object[e] = Batch(batch) => left = object[e]
  <2> SUFFICES ASSUME NEW batch \in Seq(Item), object[e] = Batch(batch) PROVE left = object[e]
    OBVIOUS
  <2>1. object[e] # Absent
    <3>1. Batch(batch) \in Object
      BY DEF Batch, Object
    <3>. QED
      BY <3>1, SourcesAssumption
  <2>. QED
    BY <1>2, <2>1 DEF Batch
<1> HIDE DEF e, items
<1>. QED
  BY <1>1, <1>2, <1>3 DEF Types, VarTypes, ObjectsAfter, e, items

(* What a whole publication does to them; one that succeeds is committed. *)
LEMMA PublicationKept ==
  ASSUME Types, NEW c \in Callers, Publish(c)
  PROVE  /\ ObjectsAfter(Entity(c), walk[c].items)
         /\ outcome' = [outcome EXCEPT ![c] =
              Outcome(PublishStatus(object[Entity(c)], walk[c].items), walk[c].items)]
         /\ PublishStatus(object[Entity(c)], walk[c].items) \in Success =>
              object'[Entity(c)] = Batch(walk[c].items)
<1> DEFINE e == Entity(c)
           items == walk[c].items
           status == PublishStatus(object[e], items)
<1>1. e \in Entities /\ items \in Seq(Item) /\ object[e] \in Object \cup {Absent}
  BY EntityType, WalkItems DEF Types, VarTypes
<1>2. /\ object \in [Entities -> Object \cup {Absent}]
      /\ object' = IF status \in {"published", "recovered"}
                   THEN [object EXCEPT ![e] = Batch(items)] ELSE object
      /\ outcome' = [outcome EXCEPT ![c] = Outcome(status, items)]
  BY DEF Types, VarTypes, Publish, Batch
<1>3. Batch(items) \in Object /\ Batch(items).items = items
  BY <1>1 DEF Batch, Object
<1>4. /\ status = "published" => object[e] = Absent
      /\ status = "recovered" => object[e] \in Object /\ object[e].items = items /\ ~ object[e].committed
      /\ status = "already_published" => object[e] = Batch(items)
  BY <1>1 DEF PublishStatus, Batch, Object
<1>5. \A batch \in Seq(Item) : object[e] = Batch(batch) => status \notin {"published", "recovered"}
  <2> SUFFICES ASSUME NEW batch \in Seq(Item), object[e] = Batch(batch)
               PROVE  status \notin {"published", "recovered"}
    OBVIOUS
  <2>1. Batch(batch) \in Object /\ Batch(batch).committed
    BY DEF Batch, Object
  <2>. QED
    BY <1>4, <2>1, SourcesAssumption
<1> HIDE DEF e, items, status
<1>6. ObjectsAfter(e, items)
  <2>1. CASE status \in {"published", "recovered"}
    BY <1>1, <1>2, <1>3, <1>5, <2>1 DEF ObjectsAfter
  <2>2. CASE status \notin {"published", "recovered"}
    BY <1>2, <2>2 DEF ObjectsAfter
  <2>. QED
    BY <2>1, <2>2
<1>7. status \in Success => object'[e] = Batch(items)
  BY <1>1, <1>2, <1>4 DEF Success
<1>. QED
  BY <1>2, <1>6, <1>7 DEF e, items, status

(* Objects change only by the publication of a complete walk. *)
LEMMA ObjectStep ==
  ASSUME Types, [Next]_vars
  PROVE  \/ object' = object
         \/ \E c \in Callers : pc[c] = "publish" /\ ObjectsAfter(Entity(c), walk[c].items)
<1>1. ASSUME NEW c \in Callers, Publish(c) \/ PublishFails(c) \/ Crash(c)
      PROVE  \/ object' = object
             \/ pc[c] = "publish" /\ ObjectsAfter(Entity(c), walk[c].items)
  <2>1. CASE Publish(c)
    BY <2>1, PublicationKept DEF Publish
  <2>2. CASE PublishFails(c)
    BY <2>2, LeftoversKept DEF PublishFails
  <2>3. CASE Crash(c)
    BY <2>3, LeftoversKept DEF Crash
  <2>. QED
    BY <1>1, <2>1, <2>2, <2>3
<1>2. CASE ~ \E c \in Callers : Publish(c) \/ PublishFails(c) \/ Crash(c)
  BY <1>2 DEF Next, Run, Get, ReadAll, Reject, Report, CompletionSummary, Change, Done, vars
<1>. QED
  BY <1>1, <1>2

(* A committed batch stays, and every object stays typed. *)
LEMMA BatchesStay ==
  ASSUME Types, [Next]_vars
  PROVE  /\ object' \in [Entities -> Object \cup {Absent}]
         /\ \A e \in Entities : \A items \in Seq(Item) :
              object[e] = Batch(items) => object'[e] = Batch(items)
<1>1. CASE object' = object
  BY <1>1 DEF Types, VarTypes
<1>2. ASSUME NEW c \in Callers, ObjectsAfter(Entity(c), walk[c].items)
      PROVE  /\ object' \in [Entities -> Object \cup {Absent}]
             /\ \A e \in Entities : \A items \in Seq(Item) :
                  object[e] = Batch(items) => object'[e] = Batch(items)
  BY <1>2 DEF ObjectsAfter
<1>. QED
  BY <1>1, <1>2, ObjectStep

-----------------------------------------------------------------------------
(* Every step keeps every variable in its type. *)
LEMMA TypesStep == Types /\ [Next]_vars => Types'
<1> SUFFICES ASSUME Types, [Next]_vars PROVE Types'
  OBVIOUS
<1>0. /\ object' \in [Entities -> Object \cup {Absent}]
      /\ pc \in [Callers -> Labels] /\ DOMAIN walk = Callers /\ outcome \in [Callers -> Outcomes]
      /\ runs \in [Callers -> Nat] /\ at \in [Callers -> Nat]
      /\ results \in [Callers -> Seq(Entities \X Seq(Item))]
      /\ faults \in 0 .. MaxFaults /\ MaxFaults \in Nat /\ changes \in 0 .. MaxChanges /\ MaxChanges \in Nat
  BY BatchesStay, CallersAssumption DEF Types, VarTypes
<1>1. CASE UNCHANGED vars
  <2>1. \A d \in Callers : WalkOK(walk'[d], LimitOf(d)')
    BY <1>1, WalkStays DEF vars
  <2>. QED
    BY <1>1, <2>1 DEF vars, Types, VarTypes, CallerTypes
<1>2. ASSUME NEW c \in Callers, Get(c) \/ ReadAll(c) PROVE Types'
  <2>1. PICK w : WalkOK(w, LimitOf(c)) /\ Extracted(c, w) /\ faults' \in 0 .. MaxFaults
    BY <1>2, GetWalk
  <2>2. pc[c] = "extract" /\ UNCHANGED <<source, object, runs, at, outcome, results, changes>>
    BY <1>2 DEF Get, ReadAll
  <2>. QED
    BY <2>1, <2>2, ExtractedType
<1>3. ASSUME NEW c \in Callers, Reject(c) \/ Publish(c) \/ PublishFails(c) PROVE Types'
  <2>1. \E out \in Outcomes : outcome' = [outcome EXCEPT ![c] = out]
    <3>1. walk[c].items \in Seq(Item) /\ << >> \in Seq(Item)
      BY EmptySeq, WalkItems
    <3>2. \E status \in Success \cup {"conflict", "failed", "rejected"} : \E items \in Seq(Item) :
            outcome' = [outcome EXCEPT ![c] = Outcome(status, items)]
      BY <1>3, <3>1 DEF Reject, Publish, PublishFails, PublishStatus, Success
    <3>. QED
      BY <3>2 DEF Outcome, Outcomes
  <2>2. outcome' \in [Callers -> Outcomes]
    BY <1>0, <2>1
  <2>3. pc' = [pc EXCEPT ![c] = "report"] /\ UNCHANGED <<source, runs, at, walk, results, changes>>
    BY <1>3 DEF Reject, Publish, PublishFails, Goto
  <2>4. faults' \in 0 .. MaxFaults
    <3>1. faults' = faults \/ (faults < MaxFaults /\ faults' = faults + 1)
      BY <1>3 DEF Reject, Publish, PublishFails, Fault
    <3>. QED
      BY <1>0, <3>1
  <2>5. VarTypes'
    BY <1>0, <2>2, <2>3, <2>4 DEF Types, VarTypes, Labels
  <2>6. CallerTypes'
    <3>1. \A d \in Callers : WalkOK(walk'[d], LimitOf(d)')
      BY <2>3, WalkStays
    <3>. QED
      BY <1>0, <2>3, <3>1 DEF Types, CallerTypes
  <2>. QED
    BY <2>5, <2>6 DEF Types
<1>4. ASSUME NEW c \in Callers, Report(c) PROVE Types'
  <2>1. UNCHANGED <<source, object, faults, changes>>
    BY <1>4 DEF Report
  <2>2. CASE outcome[c].status \notin Success
    BY <1>0, <1>4, <2>1, <2>2, RaiseType DEF Report
  <2>3. CASE outcome[c].status \in Success
    <3>1. results' \in [Callers -> Seq(Entities \X Seq(Item))]
      <4>1. results[c] \in Seq(Entities \X Seq(Item))
        BY <1>0
      <4>2. <<Entity(c), outcome[c].items>> \in Entities \X Seq(Item)
        BY <1>0, EntityType DEF Outcomes
      <4>3. Append(results[c], <<Entity(c), outcome[c].items>>) \in Seq(Entities \X Seq(Item))
        BY <4>1, <4>2, AppendProperties
      <4>. QED
        BY <1>0, <1>4, <2>3, <4>3 DEF Report
    <3>2. UNCHANGED <<runs, outcome>>
      BY <1>4, <2>3 DEF Report
    <3>3. CASE at[c] = Len(Work[c])
      <4>1. pc' = [pc EXCEPT ![c] = "done"] /\ UNCHANGED <<at, walk>>
        BY <1>4, <2>3, <3>3 DEF Report, Goto
      <4>2. VarTypes'
        BY <1>0, <2>1, <3>1, <3>2, <4>1 DEF Types, VarTypes, Labels
      <4>3. CallerTypes'
        <5>1. \A d \in Callers : WalkOK(walk'[d], LimitOf(d)')
          BY <4>1, WalkStays
        <5>. QED
          BY <1>0, <3>2, <4>1, <5>1 DEF Types, CallerTypes
      <4>. QED
        BY <4>2, <4>3 DEF Types
    <3>4. CASE at[c] # Len(Work[c])
      <4>1. /\ pc' = [pc EXCEPT ![c] = "extract"] /\ at' = [at EXCEPT ![c] = @ + 1]
            /\ walk' = [walk EXCEPT ![c] = StartWalk]
        BY <1>4, <2>3, <3>4 DEF Report, Goto
      <4>2. at[c] \in 1 .. Len(Work[c]) /\ Len(Work[c]) \in Nat
        BY CallersAssumption, LenProperties DEF Types, CallerTypes
      <4>3. at[c] + 1 \in Nat /\ at[c] + 1 \in 1 .. Len(Work[c])
        BY <3>4, <4>2
      <4>5. VarTypes'
        BY <1>0, <2>1, <3>1, <3>2, <4>1, <4>3 DEF Types, VarTypes, Labels
      <4>6. \A d \in Callers : runs'[d] \in 1 .. Retries[d] + 1 /\ at'[d] \in 1 .. Len(Work[d])
        BY <1>0, <3>2, <4>1, <4>3 DEF Types, CallerTypes
      <4>7. ASSUME NEW d \in Callers
            PROVE  /\ WalkOK(walk'[d], LimitOf(d)')
                   /\ pc'[d] = "extract" => walk'[d].state = "reading"
                   /\ pc'[d] = "publish" => walk'[d].state = "complete"
        <5>1. CASE d = c
          <6>1. walk'[d] = StartWalk /\ pc'[d] = "extract" /\ at'[d] \in 1 .. Len(Work[d])
            BY <1>0, <4>1, <4>6, <5>1
          <6>. QED
            BY <6>1, StartWithin
        <5>2. CASE d # c
          <6>1. walk'[d] = walk[d] /\ pc'[d] = pc[d] /\ at'[d] = at[d]
            BY <1>0, <4>1, <5>2
          <6>. QED
            BY <6>1, WalkStays DEF Types, CallerTypes
        <5>. QED
          BY <5>1, <5>2
      <4>8. CallerTypes'
        BY <4>6, <4>7 DEF CallerTypes
      <4>. QED
        BY <4>5, <4>8 DEF Types
    <3>. QED
      BY <3>3, <3>4
  <2>. QED
    BY <2>2, <2>3
<1>5. ASSUME NEW c \in Callers, Crash(c) PROVE Types'
  <2>1. faults' \in 0 .. MaxFaults
    BY <1>0, <1>5 DEF Crash, Fault
  <2>. QED
    BY <1>0, <1>5, <2>1, RaiseType DEF Crash
<1>6. ASSUME NEW e \in Entities, Change(e) PROVE Types'
  <2>1. PICK s \in Sources[e] : source' = [source EXCEPT ![e] = s]
    BY <1>6 DEF Change
  <2>2. changes' \in 0 .. MaxChanges
    BY <1>0, <1>6 DEF Change
  <2>3. /\ source' \in [Entities -> UNION {Sources[d] : d \in Entities}]
        /\ \A d \in Entities : source'[d] \in Sources[d]
    BY <2>1 DEF Types, VarTypes
  <2>4. UNCHANGED <<object, pc, runs, at, walk, outcome, results, faults>>
    BY <1>6 DEF Change
  <2>5. \A d \in Callers : WalkOK(walk'[d], LimitOf(d)')
    BY <2>4, WalkStays
  <2>. QED
    BY <1>0, <2>2, <2>3, <2>4, <2>5 DEF Types, VarTypes, CallerTypes
<1>7. CASE CompletionSummary
  <2>1. \A d \in Callers : WalkOK(walk'[d], LimitOf(d)')
    BY <1>7, WalkStays DEF CompletionSummary
  <2>. QED
    BY <1>7, <2>1 DEF CompletionSummary, Types, VarTypes, CallerTypes
<1>8. CASE Done
  BY <1>1, <1>8 DEF Done
<1>. QED
  BY <1>1, <1>2, <1>3, <1>4, <1>5, <1>6, <1>7, <1>8 DEF Next, Run

(* The initial state is typed. *)
LEMMA InitTypes == Init => Types
<1> SUFFICES ASSUME Init PROVE Types
  OBVIOUS
<1>1. /\ source \in [Entities -> UNION {Sources[e] : e \in Entities}]
      /\ \A e \in Entities : source[e] \in Sources[e]
  BY DEF Init
<1>2. /\ object \in [Entities -> Object \cup {Absent}] /\ pc \in [Callers -> Labels]
      /\ runs \in [Callers -> Nat] /\ at \in [Callers -> Nat]
      /\ \A c \in Callers : runs[c] = 1 /\ at[c] = 1 /\ pc[c] = "extract" /\ walk[c] = StartWalk
  BY DEF Init, Labels
<1>4. NoOutcome \in Outcomes
  BY EmptySeq DEF NoOutcome, Outcomes
<1>5. /\ DOMAIN walk = Callers /\ outcome \in [Callers -> Outcomes]
      /\ results \in [Callers -> Seq(Entities \X Seq(Item))]
  BY <1>4, EmptySeq DEF Init
<1>6. faults \in 0 .. MaxFaults /\ changes \in 0 .. MaxChanges
  BY CallersAssumption DEF Init
<1>7. VarTypes
  BY <1>1, <1>2, <1>5, <1>6 DEF VarTypes
<1>8. \A c \in Callers : 1 \in 1 .. Retries[c] + 1 /\ 1 \in 1 .. Len(Work[c])
  <2> SUFFICES ASSUME NEW c \in Callers PROVE 1 \in 1 .. Retries[c] + 1 /\ 1 \in 1 .. Len(Work[c])
    OBVIOUS
  <2>1. Retries[c] \in Nat /\ Work[c] \in Seq(Entities) /\ Work[c] # << >>
    BY CallersAssumption
  <2>2. Len(Work[c]) \in Nat /\ Len(Work[c]) # 0
    BY <2>1, EmptySeq, LenProperties
  <2>. QED
    BY <2>1, <2>2
<1>9. CallerTypes
  <2>1. ASSUME NEW c \in Callers PROVE WalkOK(walk[c], LimitOf(c)) /\ walk[c].state = "reading"
    <3>1. Work[c][1] \in Entities
      BY <1>8, CallersAssumption, ElementOfSeq
    <3>2. LimitOf(c) \in Limit /\ walk[c] = StartWalk
      BY <1>2, <3>1, CallersAssumption DEF LimitOf, Entity
    <3>. QED
      BY <3>2, StartOK
  <2>. QED
    BY <1>2, <1>8, <2>1 DEF CallerTypes
<1>. QED
  BY <1>7, <1>9 DEF Types

(* The type part of the inductive invariant. *)
LEMMA TypesHold == Spec => []Types
  BY InitTypes, TypesStep, PTL DEF Spec

(* Every variable of the run stays in its type. *)
THEOREM TypeCorrect == Spec => []TypeOK
<1>1. Types => TypeOK
  <2> SUFFICES ASSUME Types PROVE TypeOK
    OBVIOUS
  <2>1. \A e \in Entities : object[e] # Absent => object[e].committed \in BOOLEAN
    BY DEF Types, VarTypes, Object
  <2>2. \A c \in Callers : walk[c].seen \subseteq 1 .. LimitOf(c).pages /\ walk[c].tries \in 0 .. MaxRetries
    BY DEF Types, CallerTypes, WalkOK, Walk
  <2>3. \A c \in Callers : outcome[c].status \in Success \cup {"none", "conflict", "failed", "rejected"}
    BY DEF Types, VarTypes, Outcomes
  <2>. QED
    BY <2>1, <2>2, <2>3 DEF Types, VarTypes, CallerTypes, TypeOK, Labels
<1>. QED
  BY TypesHold, <1>1, PTL

-----------------------------------------------------------------------------
(* What a caller does is its own. *)
Unmoved(c) ==
  /\ pc'[c] = pc[c] /\ at'[c] = at[c] /\ walk'[c] = walk[c]
  /\ outcome'[c] = outcome[c] /\ results'[c] = results[c]

(* The steps of one caller. *)
Moves(c) == Run(c) \/ PublishFails(c) \/ Crash(c)

(* A run that raises starts over or is over. *)
RaisedAnew(c) ==
  /\ results'[c] = << >>
  /\ \/ pc'[c] = "extract" /\ at'[c] = 1 /\ walk'[c] = StartWalk /\ outcome'[c] = NoOutcome
     \/ pc'[c] = "failed" /\ UNCHANGED <<at, walk, outcome>>

(* A caller's step, as it shows in the caller's own variables. *)
LEMMA RaisedStep ==
  ASSUME Types, NEW c \in Callers, Raise(c)
  PROVE  RaisedAnew(c)
<1>1. c \in DOMAIN results /\ c \in DOMAIN pc /\ c \in DOMAIN at /\ c \in DOMAIN walk /\ c \in DOMAIN outcome
  BY DEF Types, VarTypes
<1>. QED
  BY <1>1 DEF Raise, Goto, RaisedAnew

(* No caller moves another one. *)
LEMMA OthersUnmoved ==
  ASSUME Types, NEW c \in Callers, Moves(c), NEW d \in Callers, d # c
  PROVE  Unmoved(d)
<1>0. d \in DOMAIN results /\ d \in DOMAIN pc /\ d \in DOMAIN at /\ d \in DOMAIN walk /\ d \in DOMAIN outcome
  BY DEF Types, VarTypes
<1>1. ASSUME Raise(c) PROVE Unmoved(d)
  BY <1>0, <1>1 DEF Raise, Goto, Unmoved
<1>2. CASE Get(c)
  BY <1>0, <1>2 DEF Get, Extracted, Goto, Unmoved
<1>3. CASE ReadAll(c)
  BY <1>0, <1>3 DEF ReadAll, Extracted, Goto, Unmoved
<1>4. CASE Reject(c)
  BY <1>0, <1>4 DEF Reject, Goto, Unmoved
<1>5. CASE Publish(c)
  BY <1>0, <1>5 DEF Publish, Goto, Unmoved
<1>6. CASE PublishFails(c)
  BY <1>0, <1>6 DEF PublishFails, Goto, Unmoved
<1>7. CASE Crash(c)
  BY <1>1, <1>7 DEF Crash
<1>8. CASE Report(c)
  BY <1>0, <1>1, <1>8 DEF Report, Goto, Unmoved
<1>. QED
  BY <1>2, <1>3, <1>4, <1>5, <1>6, <1>7, <1>8 DEF Moves, Run

(* Every step moves one caller or none. *)
LEMMA CallerStep ==
  ASSUME Types, [Next]_vars, NEW d \in Callers
  PROVE  Moves(d) \/ Unmoved(d)
<1>1. ASSUME NEW c \in Callers, Moves(c) PROVE Moves(d) \/ Unmoved(d)
  BY <1>1, OthersUnmoved
<1>2. CASE ~ \E c \in Callers : Moves(c)
  BY <1>2 DEF Moves, Next, CompletionSummary, Change, Done, vars, Unmoved
<1>. QED
  BY <1>1, <1>2

-----------------------------------------------------------------------------
(* While no source has changed, every walk has read what its source holds. *)
ReadInv ==
  changes = 0 =>
    \A c \in Callers : pc[c] \in {"extract", "publish"} => Reads(walk[c], source[Entity(c)])

StoredInv == Types /\ ReadInv /\ StoredIsWhole

(* While the count of changes is zero no source has moved. *)
LEMMA SourcesHold ==
  ASSUME Types, [Next]_vars, changes' = 0
  PROVE  changes = 0 /\ source' = source
<1>1. CASE \E e \in Entities : Change(e)
  <2>1. changes' = changes + 1 /\ changes \in Nat
    BY <1>1, CallersAssumption DEF Change, Types, VarTypes
  <2>. QED
    BY <2>1
<1>2. CASE ~ \E e \in Entities : Change(e)
  BY <1>2 DEF Next, Run, Get, ReadAll, Reject, Publish, Report, PublishFails, Crash,
              CompletionSummary, Done, vars
<1>. QED
  BY <1>1, <1>2

(* Walks go on reading their own entity. *)
LEMMA ReadStep ==
  ASSUME Types, ReadInv, [Next]_vars
  PROVE  ReadInv'
<1> SUFFICES ASSUME changes' = 0, NEW c \in Callers, pc'[c] \in {"extract", "publish"}
             PROVE  Reads(walk'[c], source'[Entity(c)'])
  BY DEF ReadInv
<1>1. changes = 0 /\ source' = source
  BY SourcesHold
<1>2. Types'
  BY TypesStep
<1>3. Entity(c) \in Entities /\ IsSource(source[Entity(c)])
  BY EntityType
<1>4. Entity(c)' \in Entities /\ IsSource(source[Entity(c)'])
  <2>1. Work[c] \in Seq(Entities) /\ at'[c] \in 1 .. Len(Work[c])
    BY <1>2, CallersAssumption DEF Types, CallerTypes
  <2>2. Entity(c)' = Work[c][at'[c]]
    BY DEF Entity
  <2>3. Entity(c)' \in Entities
    BY <2>1, <2>2, ElementOfSeq
  <2>. QED
    BY <2>3, SourcesAssumption DEF Types, VarTypes, IsSource
<1>5. CASE walk'[c] = StartWalk
  <2>1. LimitOf(c) \in Limit
    BY EntityType
  <2>. QED
    BY <1>1, <1>4, <1>5, <2>1, StartOK
<1>6. CASE Unmoved(c)
  <2>1. Reads(walk[c], source[Entity(c)])
    BY <1>1, <1>6 DEF ReadInv, Unmoved
  <2>2. Entity(c)' = Entity(c)
    BY <1>6 DEF Unmoved, Entity
  <2>. QED
    BY <1>1, <1>6, <2>1, <2>2 DEF Unmoved
<1>7. CASE Get(c) \/ ReadAll(c)
  <2>1. pc[c] = "extract" /\ UNCHANGED at
    BY <1>7 DEF Get, ReadAll
  <2>2. Reads(walk[c], source[Entity(c)]) /\ Entity(c)' = Entity(c)
    BY <1>1, <2>1 DEF ReadInv, Entity
  <2>3. PICK w : Extracted(c, w) /\ Reads(w, source[Entity(c)])
    BY <1>7, <2>2, GetWalk
  <2>4. walk'[c] = w
    BY <2>3 DEF Extracted, Types, VarTypes
  <2>. QED
    BY <1>1, <2>2, <2>3, <2>4
<1>8. CASE Reject(c) \/ Publish(c) \/ PublishFails(c)
  <2>1. pc'[c] = "report"
    BY <1>8 DEF Reject, Publish, PublishFails, Goto, Types, VarTypes
  <2>. QED
    BY <2>1
<1>9. CASE Raise(c)
  <2>1. pc'[c] = "extract" /\ walk'[c] = StartWalk
    BY <1>9, RaisedStep DEF RaisedAnew
  <2>. QED
    BY <1>5, <2>1
<1>10. CASE Report(c)
  <2>1. CASE Raise(c)
    BY <1>9, <2>1
  <2>2. CASE Goto(c, "done")
    BY <2>2 DEF Goto, Types, VarTypes
  <2>3. CASE walk' = [walk EXCEPT ![c] = StartWalk]
    BY <1>5, <2>3 DEF Types, VarTypes
  <2>. QED
    BY <1>10, <2>1, <2>2, <2>3 DEF Report
<1>. QED
  BY <1>6, <1>7, <1>8, <1>9, <1>10, CallerStep DEF Moves, Run, Crash

(* What is stored is what a complete walk has read. *)
LEMMA StoredStep ==
  ASSUME Types, ReadInv, StoredIsWhole, [Next]_vars
  PROVE  StoredIsWhole'
<1> SUFFICES ASSUME NEW e \in Entities, object'[e] # Absent
             PROVE  /\ Accepted(Records(object'[e].items))
                    /\ changes' = 0 => Records(object'[e].items) = source'[e].records
  BY DEF StoredIsWhole, Accepted, Records
<1>1. changes' = 0 => changes = 0 /\ source' = source
  BY SourcesHold
<1>2. CASE object'[e] = object[e]
  BY <1>1, <1>2 DEF StoredIsWhole
<1>3. CASE object'[e] # object[e]
  <2>1. PICK c \in Callers : pc[c] = "publish" /\ ObjectsAfter(Entity(c), walk[c].items)
    BY <1>3, ObjectStep
  <2>2. e = Entity(c) /\ object'[e].items = walk[c].items
    BY <1>3, <2>1 DEF ObjectsAfter
  <2>3. WalkOK(walk[c], LimitOf(c)) /\ walk[c].state = "complete"
    BY <2>1 DEF Types, CallerTypes
  <2>4. changes = 0 => Records(walk[c].items) = source[e].records
    BY <2>1, <2>2, <2>3 DEF ReadInv, Reads
  <2>. QED
    BY <1>1, <2>2, <2>3, <2>4 DEF WalkOK
<1>. QED
  BY <1>2, <1>3

(* Nothing is read or stored at first. *)
LEMMA InitStored == Init => StoredInv
<1> SUFFICES ASSUME Init PROVE ReadInv /\ StoredIsWhole
  BY InitTypes DEF StoredInv
<1>1. ReadInv
  <2> SUFFICES ASSUME NEW c \in Callers PROVE Reads(walk[c], source[Entity(c)])
    BY DEF ReadInv
  <2>1. walk[c] = StartWalk
    BY DEF Init
  <2>. QED
    BY <2>1, InitTypes, EntityType, StartOK
<1>2. StoredIsWhole
  BY DEF Init, StoredIsWhole
<1>. QED
  BY <1>1, <1>2

(* No refused record and no truncated walk reaches Bronze, however many    *)
(* tasks, invocations and retries publish the same identities, and while   *)
(* no source has changed each stored object is its whole source.           *)
THEOREM NothingIsTruncated == Spec => []StoredIsWhole
<1>1. Init => StoredInv
  BY InitStored
<1>2. StoredInv /\ [Next]_vars => StoredInv'
  BY TypesStep, ReadStep, StoredStep DEF StoredInv
<1>3. StoredInv => StoredIsWhole
  BY DEF StoredInv
<1>. QED
  BY <1>1, <1>2, <1>3, PTL DEF Spec

-----------------------------------------------------------------------------
Committed(e, items) == e \in Entities /\ items \in Seq(Item) /\ object[e] = Batch(items)

(* What a caller holds as a success, what it has returned, and what events *)
(* and summary report are committed.                                       *)
CommittedInv ==
  /\ \A c \in Callers : pc[c] = "report" /\ outcome[c].status \in Success =>
       Committed(Entity(c), outcome[c].items)
  /\ \A c \in Callers : \A i \in 1 .. Len(results[c]) : Committed(results[c][i][1], results[c][i][2])
  /\ \A v \in events : v.status \in Success => Committed(v.entity, v.items)
  /\ summary # Absent => \A r \in summary : Committed(r[1], r[2])

(* What is committed stays so. *)
LEMMA CommittedStays ==
  ASSUME Types, [Next]_vars, NEW e, NEW items, Committed(e, items)
  PROVE  Committed(e, items)'
BY BatchesStay DEF Committed

(* A caller reports a success only of what it has committed. *)
LEMMA OutcomeCommitted ==
  ASSUME Types, CommittedInv, [Next]_vars, NEW c \in Callers,
         pc'[c] = "report", outcome'[c].status \in Success
  PROVE  Committed(Entity(c), outcome[c].items)'
<1>1. CASE Unmoved(c)
  <2>1. Committed(Entity(c), outcome[c].items)
    BY <1>1 DEF CommittedInv, Unmoved
  <2>2. Entity(c)' = Entity(c) /\ outcome'[c] = outcome[c]
    BY <1>1 DEF Unmoved, Entity
  <2>. QED
    BY <2>1, <2>2, CommittedStays
<1>2. CASE Publish(c)
  <2>1. /\ outcome'[c] = Outcome(PublishStatus(object[Entity(c)], walk[c].items), walk[c].items)
        /\ PublishStatus(object[Entity(c)], walk[c].items) \in Success =>
             object'[Entity(c)] = Batch(walk[c].items)
    BY <1>2, PublicationKept DEF Types, VarTypes
  <2>2. Entity(c)' = Entity(c)
    BY <1>2 DEF Publish, Entity
  <2>3. Entity(c) \in Entities /\ walk[c].items \in Seq(Item)
    BY EntityType, WalkItems
  <2>. QED
    BY <2>1, <2>2, <2>3 DEF Committed, Outcome
<1>3. CASE Reject(c) \/ PublishFails(c)
  <2>1. outcome'[c].status \in {"rejected", "failed"}
    BY <1>3 DEF Reject, PublishFails, Outcome, Types, VarTypes
  <2>. QED
    BY <2>1 DEF Success
<1>4. CASE Get(c) \/ ReadAll(c)
  <2>1. pc'[c] \in {"extract", "publish", "reject"}
    BY <1>4 DEF Get, ReadAll, Extracted, Goto, Types, VarTypes
  <2>. QED
    BY <2>1
<1>5. CASE Raise(c)
  <2>1. pc'[c] \in {"extract", "failed"}
    BY <1>5, RaisedStep DEF RaisedAnew
  <2>. QED
    BY <2>1
<1>6. CASE Report(c)
  <2>1. CASE Raise(c)
    BY <1>5, <2>1
  <2>2. CASE Goto(c, "done") \/ Goto(c, "extract")
    <3>1. pc'[c] \in {"extract", "done"}
      BY <2>2 DEF Goto, Types, VarTypes
    <3>. QED
      BY <3>1
  <2>. QED
    BY <1>6, <2>1, <2>2 DEF Report
<1>. QED
  BY <1>1, <1>2, <1>3, <1>4, <1>5, <1>6, CallerStep DEF Moves, Run, Crash

(* A run returns what it has reported as a success. *)
LEMMA ResultsCommitted ==
  ASSUME Types, CommittedInv, [Next]_vars, NEW c \in Callers, NEW i \in 1 .. Len(results'[c])
  PROVE  Committed(results[c][i][1], results[c][i][2])'
<1>1. results[c] \in Seq(Entities \X Seq(Item)) /\ Len(results[c]) \in Nat
  BY LenProperties DEF Types, VarTypes
<1>2. CASE results'[c] = results[c]
  BY <1>2, CommittedStays DEF CommittedInv
<1>3. CASE Raise(c)
  <2>1. Len(results'[c]) = 0
    BY <1>3, RaisedStep, EmptySeq DEF RaisedAnew
  <2>. QED
    BY <2>1
<1>4. CASE Report(c) /\ ~ Raise(c)
  <2> DEFINE new == <<Entity(c), outcome[c].items>>
  <2>1. results'[c] = Append(results[c], new) /\ pc[c] = "report" /\ outcome[c].status \in Success
    BY <1>4 DEF Report, Types, VarTypes
  <2>2. new \in Entities \X Seq(Item)
    BY EntityType DEF Types, VarTypes, Outcomes
  <2>3. Committed(new[1], new[2])
    BY <2>1 DEF CommittedInv
  <2> HIDE DEF new
  <2>4. /\ Len(results'[c]) = Len(results[c]) + 1 /\ results'[c][Len(results[c]) + 1] = new
        /\ \A n \in 1 .. Len(results[c]) : results'[c][n] = results[c][n]
    BY <1>1, <2>1, <2>2, AppendProperties
  <2>5. i \in 1 .. Len(results[c]) \/ i = Len(results[c]) + 1
    BY <1>1, <2>4
  <2>6. CASE i \in 1 .. Len(results[c])
    BY <2>4, <2>6, CommittedStays DEF CommittedInv
  <2>7. CASE i = Len(results[c]) + 1
    BY <2>3, <2>4, <2>7, CommittedStays
  <2>. QED
    BY <2>5, <2>6, <2>7
<1>5. CASE Get(c) \/ ReadAll(c) \/ Reject(c) \/ Publish(c) \/ PublishFails(c) \/ Unmoved(c)
  BY <1>2, <1>5 DEF Get, ReadAll, Reject, Publish, PublishFails, Unmoved
<1>. QED
  BY <1>3, <1>4, <1>5, CallerStep DEF Moves, Run, Crash

(* Every step keeps what is reported committed. *)
LEMMA CommittedStep ==
  ASSUME Types, CommittedInv, [Next]_vars
  PROVE  CommittedInv'
<1>1. ASSUME NEW c \in Callers, pc'[c] = "report" /\ outcome'[c].status \in Success
      PROVE  Committed(Entity(c), outcome[c].items)'
  BY <1>1, OutcomeCommitted
<1>2. ASSUME NEW c \in Callers, NEW i \in 1 .. Len(results'[c])
      PROVE  Committed(results[c][i][1], results[c][i][2])'
  BY ResultsCommitted
<1>3. ASSUME NEW v \in events', v.status \in Success PROVE Committed(v.entity, v.items)'
  <2>1. CASE v \in events
    BY <1>3, <2>1, CommittedStays DEF CommittedInv
  <2>2. CASE v \notin events
    <3>1. PICK c \in Callers : pc[c] = "report" /\ v = Event(c, outcome[c].status)
      BY <2>2 DEF Next, Run, Get, ReadAll, Reject, Publish, Report, PublishFails, Crash,
                  CompletionSummary, Change, Done, vars
    <3>2. v.entity = Entity(c) /\ v.status = outcome[c].status /\ v.items = outcome[c].items
      BY <3>1 DEF Event
    <3>3. Committed(v.entity, v.items)
      BY <1>3, <3>1, <3>2 DEF CommittedInv
    <3>. QED
      BY <3>3, CommittedStays
  <2>. QED
    BY <2>1, <2>2
<1>4. ASSUME summary' # Absent, NEW r \in summary' PROVE Committed(r[1], r[2])'
  <2>1. CASE CompletionSummary
    <3>1. PICK t \in Tasks : \E i \in DOMAIN results[t] : r = results[t][i]
      BY <1>4, <2>1 DEF CompletionSummary
    <3>2. t \in Callers /\ DOMAIN results[t] = 1 .. Len(results[t])
      BY LenProperties DEF Callers, Types, VarTypes
    <3>. QED
      BY <3>1, <3>2, CommittedStays DEF CommittedInv
  <2>2. CASE ~ CompletionSummary
    <3>1. summary' = summary
      BY <2>2 DEF Next, Run, Get, ReadAll, Reject, Publish, Report, PublishFails, Crash,
                  Change, Done, vars
    <3>. QED
      BY <1>4, <3>1, CommittedStays DEF CommittedInv
  <2>. QED
    BY <2>1, <2>2
<1>. QED
  BY <1>1, <1>2, <1>3, <1>4 DEF CommittedInv

(* Whatever a summary or an event reported as ingested is committed under  *)
(* that identity, then and ever after: no retry, no other caller and no    *)
(* changed source replaces it.                                             *)
THEOREM ReportsAreOfCommitted == Spec => []ReportedIsCommitted
<1> DEFINE I == Types /\ CommittedInv
<1>1. Init => I
  <2>1. ASSUME Init PROVE CommittedInv
    BY <2>1, EmptySeq DEF Init, CommittedInv
  <2>. QED
    BY <2>1, InitTypes
<1>2. I /\ [Next]_vars => I'
  BY TypesStep, CommittedStep
<1>3. I => ReportedIsCommitted
  BY DEF CommittedInv, ReportedIsCommitted, Committed, Batch
<1> HIDE DEF I
<1>. QED
  BY <1>1, <1>2, <1>3, PTL DEF Spec

-----------------------------------------------------------------------------
(* The error that a page of a source ends a walk with, or none; it depends *)
(* on the source, the page and the limit alone.                            *)
PageVerdict(s, page, limit) ==
  LET items == PageItems(s, page)
      next == NextPage(s, page)
  IN IF (page - 1) * PageSize + Cardinality(AcceptedHead(items)) > limit.records THEN TooMany(limit)
     ELSE IF AcceptedHead(items) # DOMAIN items
          THEN InvalidRecord(items, Locator(<< >>, <<page, FirstRefused(items)>>))
     ELSE IF next = NoPage THEN NoError
     ELSE IF next \in 1 .. page THEN SourceError("pagination_loop", Whole, next)
     ELSE IF page >= limit.pages THEN SourceError("max_pages_exceeded", Whole, limit.pages)
     ELSE NoError

(* No page before this one ends a walk. *)
Passed(s, page, limit) == \A q \in 1 .. page - 1 : PageVerdict(s, q, limit) = NoError

(* A source that ends an extraction, and the error it ends with. *)
RefusedWith(e, s, limit, error) ==
  IF e \in RestEntities
  THEN \E page \in Nat \ {0} : /\ Passed(s, page, limit)
                               /\ error = PageVerdict(s, page, limit) /\ error # NoError
  ELSE IF e \in FileEntities THEN error = TakeFile(s, limit).error
  ELSE error = TakeRows(s, limit).error

(* A source has one error at most. *)
LEMMA OneVerdict ==
  ASSUME NEW e, NEW s, NEW limit, NEW error, NEW other,
         RefusedWith(e, s, limit, error), RefusedWith(e, s, limit, other)
  PROVE  error = other
<1>1. CASE e \in RestEntities
  <2>1. PICK p \in Nat \ {0} : Passed(s, p, limit) /\ error = PageVerdict(s, p, limit) /\ error # NoError
    BY <1>1 DEF RefusedWith
  <2>2. PICK q \in Nat \ {0} : Passed(s, q, limit) /\ other = PageVerdict(s, q, limit) /\ other # NoError
    BY <1>1 DEF RefusedWith
  <2>3. CASE p < q
    <3>1. p \in 1 .. q - 1
      BY <2>3
    <3>. QED
      BY <2>1, <2>2, <3>1 DEF Passed
  <2>4. CASE q < p
    <3>1. q \in 1 .. p - 1
      BY <2>4
    <3>. QED
      BY <2>1, <2>2, <3>1 DEF Passed
  <2>5. CASE p = q
    BY <2>1, <2>2, <2>5
  <2>. QED
    BY <2>3, <2>4, <2>5
<1>2. CASE e \notin RestEntities
  BY <1>2 DEF RefusedWith
<1>. QED
  BY <1>1, <1>2

(* What a walk that has read its source so far makes of the next page. *)
LEMMA SameVerdict ==
  ASSUME NEW limit \in Limit, NEW w, WalkOK(w, limit), w.state = "reading",
         NEW s, IsSource(s), Reads(w, s)
  PROVE  LET v == TakePage(w, PageItems(s, w.page), NextPage(s, w.page), limit)
         IN IF PageVerdict(s, w.page, limit) = NoError
            THEN v.state # "refused"
            ELSE v.state = "refused" /\ v.error = PageVerdict(s, w.page, limit)
<1> DEFINE items == PageItems(s, w.page)
           next == NextPage(s, w.page)
           x == [w EXCEPT !.items = @ \o [i \in DOMAIN items |-> <<w.page, items[i]>>]]
           v == TakePage(w, items, next, limit)
           verdict == PageVerdict(s, w.page, limit)
<1>1. /\ w \in Walk(w.error) /\ w.page \in Nat \ {0} /\ w.seen = 1 .. w.page
      /\ Len(w.items) = (w.page - 1) * PageSize
  BY DEF WalkOK, Walk, Reads
<1>2. Cardinality(w.seen) = w.page
  BY <1>1, FS_Interval
<1>3. /\ x.seen = w.seen /\ x.page = w.page /\ x.state = "reading"
      /\ x \in [ state : {"reading", "complete", "refused"}, page : {w.page}, seen : {w.seen},
                 tries : {w.tries}, items : {x.items}, error : {w.error} ]
  BY <1>1 DEF Walk
<1>4. \A error : /\ Raised(w, error).state = "refused" /\ Raised(w, error).error = error
                 /\ Raised(x, error).state = "refused" /\ Raised(x, error).error = error
  BY <1>1, <1>3 DEF Raised, Walk
<1>5. Complete(x).state = "complete" /\ TurnTo(x, next).state = "reading"
  BY <1>3 DEF Complete, TurnTo
<1>6. \A reason, locator, original :
        reason # "none" => SourceError(reason, locator, original) # NoError
  <2> SUFFICES ASSUME NEW reason, NEW locator, NEW original,
                      SourceError(reason, locator, original) = NoError
               PROVE  reason = "none"
    OBVIOUS
  <2>1. SourceError(reason, locator, original).reason = reason /\ NoError.reason = "none"
    BY DEF SourceError, NoError
  <2>. QED
    BY <2>1
<1>7. \A locator : TooMany(limit) # NoError /\ InvalidRecord(items, locator) # NoError
  BY <1>6 DEF TooMany, InvalidRecord
<1> HIDE DEF items, next, x
<1>8. CASE Len(w.items) + Cardinality(AcceptedHead(items)) > limit.records
  <2>1. verdict = TooMany(limit) /\ v = Raised(w, TooMany(limit))
    BY <1>1, <1>8 DEF PageVerdict, TakePage, items
  <2>. QED
    BY <1>4, <1>7, <2>1 DEF items, next
<1>9. CASE /\ ~ (Len(w.items) + Cardinality(AcceptedHead(items)) > limit.records)
           /\ AcceptedHead(items) # DOMAIN items
  <2> DEFINE error == InvalidRecord(items, Locator(<< >>, <<w.page, FirstRefused(items)>>))
  <2>1. verdict = error /\ v = Raised(w, error)
    BY <1>1, <1>9 DEF PageVerdict, TakePage, items
  <2>2. error # NoError
    BY <1>7
  <2> HIDE DEF error
  <2>. QED
    BY <1>4, <2>1, <2>2 DEF items, next
<1>10. CASE /\ ~ (Len(w.items) + Cardinality(AcceptedHead(items)) > limit.records)
            /\ AcceptedHead(items) = DOMAIN items
  <2>1. v = Follow(x, next, limit)
    BY <1>10 DEF TakePage, x
  <2>2. verdict = IF next = NoPage THEN NoError
                  ELSE IF next \in 1 .. w.page THEN SourceError("pagination_loop", Whole, next)
                  ELSE IF w.page >= limit.pages THEN SourceError("max_pages_exceeded", Whole, limit.pages)
                  ELSE NoError
    BY <1>1, <1>10 DEF PageVerdict, items, next
  <2>3. v = IF next = NoPage THEN Complete(x)
            ELSE IF next \in 1 .. w.page THEN Raised(x, SourceError("pagination_loop", Whole, next))
            ELSE IF w.page >= limit.pages
                 THEN Raised(x, SourceError("max_pages_exceeded", Whole, limit.pages))
            ELSE TurnTo(x, next)
    BY <1>1, <1>2, <1>3, <2>1 DEF Follow
  <2> HIDE DEF v, verdict
  <2>4. IF verdict = NoError THEN v.state # "refused" ELSE v.state = "refused" /\ v.error = verdict
    BY <1>4, <1>5, <1>6, <2>2, <2>3
  <2>. QED
    BY <2>4 DEF v, verdict, items, next
<1>. QED
  BY <1>8, <1>9, <1>10

(* A source that is refused for what it holds has a record that is refused *)
(* or pages that lead back.                                                *)
LEMMA ContentVerdict ==
  ASSUME NEW e, NEW s, IsSource(s), NEW limit, NEW error, RefusedWith(e, s, limit, error)
  PROVE  /\ error.reason = "invalid_source_schema" => ~ Accepted(s.records)
         /\ error.reason = "pagination_loop" => e \in RestEntities /\ s.loops
<1>1. \A reason, locator, original : SourceError(reason, locator, original).reason = reason
  BY DEF SourceError
<1>2. NoError.reason = "none" /\ TooMany(limit).reason = "max_records_exceeded"
  BY <1>1 DEF NoError, TooMany
<1>3. \A items, locator : InvalidRecord(items, locator).reason = "invalid_source_schema"
  BY <1>1 DEF InvalidRecord
<1>4. CASE e \in RestEntities
  <2>1. PICK page \in Nat \ {0} : error = PageVerdict(s, page, limit)
    BY <1>4 DEF RefusedWith
  <2> DEFINE items == PageItems(s, page)
             next == NextPage(s, page)
  <2>2. ASSUME error.reason = "invalid_source_schema" PROVE ~ Accepted(s.records)
    <3>1. AcceptedHead(items) # DOMAIN items
      BY <1>1, <1>2, <2>1, <2>2 DEF PageVerdict
    <3>2. /\ items \in Seq(Payload)
          /\ \A i \in 1 .. Len(items) : /\ items[i] = s.records[(page - 1) * PageSize + i]
                                        /\ (page - 1) * PageSize + i \in 1 .. Len(s.records)
      BY PageShape
    <3> HIDE DEF items
    <3>3. ~ Accepted(items) /\ DOMAIN items = 1 .. Len(items)
      BY <3>1, <3>2, AcceptedPage, LenProperties
    <3>4. DOMAIN s.records = 1 .. Len(s.records)
      BY LenProperties DEF IsSource
    <3>. QED
      BY <3>2, <3>3, <3>4 DEF Accepted
  <2>3. ASSUME error.reason = "pagination_loop" PROVE s.loops
    <3>1. next \in 1 .. page
      BY <1>1, <1>2, <1>3, <2>1, <2>3 DEF PageVerdict
    <3>2. next \in {NoPage, 1, page + 1} /\ (next = 1 => s.loops)
      BY PageNamed
    <3> HIDE DEF next
    <3>. QED
      BY <3>1, <3>2 DEF NoPage
  <2>. QED
    BY <1>4, <2>2, <2>3
<1>5. CASE e \notin RestEntities
  <2>1. error \in {TakeFile(s, limit).error, TakeRows(s, limit).error}
    BY <1>5 DEF RefusedWith
  <2>2. \A x : Raised(StartWalk, x).error = x
    BY DEF Raised, StartWalk
  <2>3. ReadWhole(s.records).error = NoError
    BY DEF ReadWhole, Complete, StartWalk
  <2>4. \/ error = TooMany(limit) \/ error = NoError
        \/ /\ \E locator : error = InvalidRecord(s.records, locator)
           /\ AcceptedHead(s.records) # DOMAIN s.records
    BY <2>1, <2>2, <2>3 DEF TakeFile, TakeRows
  <2>5. AcceptedHead(s.records) # DOMAIN s.records => ~ Accepted(s.records)
    BY AcceptedPage DEF IsSource
  <2>. QED
    BY <1>2, <1>3, <2>4, <2>5
<1>. QED
  BY <1>4, <1>5

(* A caller that has met one state of its source and goes on has passed    *)
(* the pages behind it, one that is refused for the source is refused as   *)
(* every other would be, and one that publishes has met the last page.     *)
CallerVerdict(c) ==
  /\ pc[c] = "extract" /\ Entity(c) \in RestEntities =>
       Passed(source[Entity(c)], walk[c].page, LimitOf(c))
  /\ pc[c] = "reject" /\ walk[c].error.reason \in SourceReasons =>
       RefusedWith(Entity(c), source[Entity(c)], LimitOf(c), walk[c].error)
  /\ pc[c] = "publish" /\ Entity(c) \in RestEntities => ~ source[Entity(c)].loops

(* Evidence of what a source holds is that of some caller's limits. *)
EvidenceVerdict(v) ==
  /\ v = [entity |-> v.entity, ingested_at |-> v.ingested_at, error |-> v.error]
  /\ v.error.reason \in SourceReasons =>
       \E c \in Callers : /\ v.ingested_at = Stamp(c)
                          /\ RefusedWith(v.entity, source[v.entity], Limits[c][v.entity], v.error)

VerdictInv ==
  changes = 0 =>
    /\ \A c \in Callers : CallerVerdict(c)
    /\ \A e \in RestEntities : object[e] # Absent => ~ source[e].loops
    /\ \A v \in evidence : EvidenceVerdict(v)

(* Where one GET leaves a caller. *)
LEMMA GetVerdict ==
  ASSUME Types, ReadInv, changes = 0, NEW c \in Callers, Get(c), CallerVerdict(c)
  PROVE  \E w : /\ Extracted(c, w)
                /\ w.state = "reading" => Passed(source[Entity(c)], w.page, LimitOf(c))
                /\ w.state = "refused" /\ w.error.reason \in SourceReasons =>
                     RefusedWith(Entity(c), source[Entity(c)], LimitOf(c), w.error)
                /\ w.state = "complete" => ~ source[Entity(c)].loops
<1> DEFINE s == source[Entity(c)]
           limit == LimitOf(c)
           page == walk[c].page
<1>1. /\ WalkOK(walk[c], limit) /\ walk[c].state = "reading" /\ Reads(walk[c], s)
      /\ IsSource(s) /\ limit \in Limit /\ Passed(s, page, limit) /\ Entity(c) \in RestEntities
  BY EntityType DEF Types, CallerTypes, ReadInv, CallerVerdict, Get
<1>2. page \in Nat \ {0}
  BY <1>1 DEF WalkOK, Walk
<1>3. PICK w : Extracted(c, w) /\ AfterGet(c, w)
  BY GetWalk
<1>4. CASE w = TakePage(walk[c], PageItems(s, page), NextPage(s, page), limit)
  <2> HIDE DEF s, limit
  <2>1. /\ w.state = "reading" => w.page = page + 1
        /\ w.state = "complete" => ~ s.loops
    BY <1>1, <1>4, TakePageOK
  <2>2. IF PageVerdict(s, page, limit) = NoError THEN w.state # "refused"
        ELSE w.state = "refused" /\ w.error = PageVerdict(s, page, limit)
    BY <1>1, <1>4, SameVerdict
  <2>3. w.state = "reading" => Passed(s, w.page, limit)
    <3> SUFFICES ASSUME w.state = "reading", NEW q \in 1 .. w.page - 1
                 PROVE  PageVerdict(s, q, limit) = NoError
      BY DEF Passed
    <3>1. q \in 1 .. page - 1 \/ q = page
      BY <1>2, <2>1
    <3>. QED
      BY <1>1, <2>2, <3>1 DEF Passed
  <2>4. w.state = "refused" => RefusedWith(Entity(c), s, limit, w.error)
    BY <1>1, <1>2, <2>2 DEF RefusedWith
  <2>. QED
    BY <1>3, <2>1, <2>3, <2>4 DEF s, limit
<1>5. ASSUME NEW answer \in Outages \cup Refusals,
             w \in {TryAgain(walk[c], answer), GiveUp(walk[c], answer)}
      PROVE  /\ w.state = "reading" => w.page = page
             /\ w.state = "refused" => w.error.reason \notin SourceReasons
             /\ w.state # "complete"
  <2>1. /\ w.state # "complete"
        /\ w.state = "reading" => w.page = page
        /\ w.state = "refused" => w.error.reason = answer.reason
    <3> HIDE DEF limit
    <3>. QED
      BY <1>1, <1>5, FailedGetOK
  <2>2. answer.reason \notin SourceReasons
    BY AnswersAssumption DEF SourceReasons, ContentReasons
  <2>. QED
    BY <2>1, <2>2
<1>. QED
  BY <1>1, <1>3, <1>4, <1>5 DEF AfterGet

(* Where reading a source at once leaves a caller. *)
LEMMA ReadAllVerdict ==
  ASSUME Types, NEW c \in Callers, ReadAll(c)
  PROVE  \E w : /\ Extracted(c, w) /\ w.state # "reading"
                /\ RefusedWith(Entity(c), source[Entity(c)], LimitOf(c), w.error)
<1>1. PICK w : Extracted(c, w) /\ AfterReadAll(c, w)
  BY GetWalk
<1>2. Entity(c) \notin RestEntities /\ IsSource(source[Entity(c)]) /\ LimitOf(c) \in Limit
  BY EntityType DEF ReadAll
<1>3. w \in {TakeFile(source[Entity(c)], LimitOf(c)), TakeRows(source[Entity(c)], LimitOf(c))}
  BY <1>1 DEF AfterReadAll
<1>4. w.state # "reading"
  BY <1>2, <1>3, ReadAllOK
<1>5. RefusedWith(Entity(c), source[Entity(c)], LimitOf(c), w.error)
  BY <1>1, <1>2 DEF AfterReadAll, RefusedWith
<1>. QED
  BY <1>1, <1>4, <1>5

(* Callers go on meeting one state of their source. *)
LEMMA CallerVerdictStep ==
  ASSUME Types, ReadInv, changes = 0, source' = source, [Next]_vars, NEW c \in Callers, CallerVerdict(c)
  PROVE  CallerVerdict(c)'
<1>1. ASSUME walk'[c] = StartWalk, pc'[c] = "extract" PROVE CallerVerdict(c)'
  <2>1. StartWalk.page = 1
    BY DEF StartWalk
  <2>2. \A s, limit : Passed(s, 1, limit)
    BY DEF Passed
  <2>. QED
    BY <1>1, <2>1, <2>2 DEF CallerVerdict
<1>2. CASE Unmoved(c)
  <2>1. Entity(c)' = Entity(c) /\ LimitOf(c)' = LimitOf(c)
    BY <1>2 DEF Unmoved, Entity, LimitOf
  <2>. QED
    BY <1>2, <2>1 DEF Unmoved, CallerVerdict
<1>3. ASSUME pc'[c] \in {"report", "done", "failed"} PROVE CallerVerdict(c)'
  BY <1>3 DEF CallerVerdict
<1>4. ASSUME NEW w, Extracted(c, w), UNCHANGED at,
             /\ w.state = "reading" /\ Entity(c) \in RestEntities =>
                  Passed(source[Entity(c)], w.page, LimitOf(c))
             /\ w.state = "refused" /\ w.error.reason \in SourceReasons =>
                  RefusedWith(Entity(c), source[Entity(c)], LimitOf(c), w.error)
             /\ w.state = "complete" /\ Entity(c) \in RestEntities => ~ source[Entity(c)].loops,
             WalkOK(w, LimitOf(c))
      PROVE  CallerVerdict(c)'
  <2>1. Entity(c)' = Entity(c) /\ LimitOf(c)' = LimitOf(c)
    BY <1>4 DEF Entity, LimitOf
  <2>2. walk'[c] = w /\ w.state \in {"reading", "complete", "refused"}
    BY <1>4 DEF Extracted, Types, VarTypes, WalkOK, Walk
  <2>3. /\ pc'[c] = "extract" => w.state = "reading"
        /\ pc'[c] = "publish" => w.state = "complete"
        /\ pc'[c] = "reject" => w.state = "refused"
    BY <1>4, <2>2 DEF Extracted, Goto, Types, VarTypes
  <2>. QED
    BY <1>4, <2>1, <2>2, <2>3 DEF CallerVerdict
<1>5. CASE Get(c)
  <2>1. PICK w : /\ Extracted(c, w)
                 /\ w.state = "reading" => Passed(source[Entity(c)], w.page, LimitOf(c))
                 /\ w.state = "refused" /\ w.error.reason \in SourceReasons =>
                      RefusedWith(Entity(c), source[Entity(c)], LimitOf(c), w.error)
                 /\ w.state = "complete" => ~ source[Entity(c)].loops
    BY <1>5, GetVerdict
  <2>2. PICK v : WalkOK(v, LimitOf(c)) /\ Extracted(c, v)
    BY <1>5, GetWalk
  <2>3. v = w
    BY <2>1, <2>2 DEF Extracted, Types, VarTypes
  <2>. QED
    BY <1>4, <1>5, <2>1, <2>2, <2>3 DEF Get
<1>6. CASE ReadAll(c)
  <2>1. PICK w : /\ Extracted(c, w) /\ w.state # "reading"
                 /\ RefusedWith(Entity(c), source[Entity(c)], LimitOf(c), w.error)
    BY <1>6, ReadAllVerdict
  <2>2. PICK v : WalkOK(v, LimitOf(c)) /\ Extracted(c, v)
    BY <1>6, GetWalk
  <2>3. v = w
    BY <2>1, <2>2 DEF Extracted, Types, VarTypes
  <2>. QED
    BY <1>4, <1>6, <2>1, <2>2, <2>3 DEF ReadAll
<1>7. CASE Reject(c) \/ Publish(c) \/ PublishFails(c)
  <2>1. pc'[c] = "report"
    BY <1>7 DEF Reject, Publish, PublishFails, Goto, Types, VarTypes
  <2>. QED
    BY <1>3, <2>1
<1>8. CASE Raise(c)
  BY <1>1, <1>3, <1>8, RaisedStep DEF RaisedAnew
<1>9. CASE Report(c)
  <2>1. CASE Raise(c)
    BY <1>8, <2>1
  <2>2. CASE Goto(c, "done")
    <3>1. pc'[c] = "done"
      BY <2>2 DEF Goto, Types, VarTypes
    <3>. QED
      BY <1>3, <3>1
  <2>3. CASE walk' = [walk EXCEPT ![c] = StartWalk] /\ Goto(c, "extract")
    <3>1. walk'[c] = StartWalk /\ pc'[c] = "extract"
      BY <2>3 DEF Goto, Types, VarTypes
    <3>. QED
      BY <1>1, <3>1
  <2>. QED
    BY <1>9, <2>1, <2>2, <2>3 DEF Report
<1>. QED
  BY <1>2, <1>5, <1>6, <1>7, <1>8, <1>9, CallerStep DEF Moves, Run, Crash

(* Evidence is only added, by a rejection. *)
LEMMA EvidenceGrows ==
  ASSUME [Next]_vars
  PROVE  evidence' = evidence \/ \E c \in Callers : Reject(c)
BY DEF Next, Run, Get, ReadAll, Publish, Report, PublishFails, Crash, CompletionSummary, Change, Done, vars

(* While no source changes, every step keeps what callers and evidence say *)
(* about it.                                                               *)
LEMMA VerdictStep ==
  ASSUME Types, ReadInv, VerdictInv, [Next]_vars
  PROVE  VerdictInv'
<1> SUFFICES ASSUME changes' = 0
             PROVE  /\ \A c \in Callers : CallerVerdict(c)'
                    /\ \A e \in RestEntities : object'[e] # Absent => ~ source'[e].loops
                    /\ \A v \in evidence' : EvidenceVerdict(v)'
  BY DEF VerdictInv
<1>1. changes = 0 /\ source' = source
  BY SourcesHold
<1>2. /\ \A c \in Callers : CallerVerdict(c)
      /\ \A e \in RestEntities : object[e] # Absent => ~ source[e].loops
      /\ \A v \in evidence : EvidenceVerdict(v)
  BY <1>1 DEF VerdictInv
<1>3. ASSUME NEW c \in Callers PROVE CallerVerdict(c)'
  BY <1>1, <1>2, CallerVerdictStep
<1>4. ASSUME NEW e \in RestEntities, object'[e] # Absent PROVE ~ source'[e].loops
  <2>1. CASE object'[e] = object[e]
    BY <1>1, <1>2, <1>4, <2>1
  <2>2. CASE object'[e] # object[e]
    <3>1. PICK c \in Callers : pc[c] = "publish" /\ ObjectsAfter(Entity(c), walk[c].items)
      BY <2>2, ObjectStep
    <3>2. e \in Entities
      BY CallersAssumption
    <3>3. e = Entity(c)
      BY <2>2, <3>1, <3>2 DEF ObjectsAfter
    <3>4. CallerVerdict(c)
      BY <1>2
    <3>. QED
      BY <1>1, <3>1, <3>3, <3>4 DEF CallerVerdict
  <2>. QED
    BY <2>1, <2>2
<1>5. ASSUME NEW v \in evidence' PROVE EvidenceVerdict(v)'
  <2>1. CASE v \in evidence
    BY <1>1, <1>2, <2>1 DEF EvidenceVerdict
  <2>2. CASE v \notin evidence
    <3>1. PICK c \in Callers : pc[c] = "reject" /\ v = Evidence(c)
      BY <2>2, EvidenceGrows DEF Reject
    <3>2. /\ v.entity = Entity(c) /\ v.ingested_at = Stamp(c) /\ v.error = walk[c].error
          /\ v = [entity |-> v.entity, ingested_at |-> v.ingested_at, error |-> v.error]
      BY <3>1 DEF Evidence
    <3>3. CallerVerdict(c)
      BY <1>2
    <3>4. v.error.reason \in SourceReasons =>
            RefusedWith(v.entity, source[v.entity], Limits[c][v.entity], v.error)
      BY <3>1, <3>2, <3>3 DEF CallerVerdict, LimitOf
    <3>. QED
      BY <1>1, <3>2, <3>4 DEF EvidenceVerdict
  <2>. QED
    BY <2>1, <2>2
<1>. QED
  BY <1>3, <1>4, <1>5

(* Callers that stamp alike have the same limits. *)
LEMMA StampsTell ==
  ASSUME NEW c \in Callers, NEW d \in Callers,
         Stamp(c) = Stamp(d) \/ (c \in Tasks /\ d \in Tasks)
  PROVE  Stamp(c) = Stamp(d) /\ Limits[c] = Limits[d]
<1>1. CASE c \in Tasks /\ d \in Tasks
  BY <1>1, CallersAssumption DEF Stamp
<1>2. CASE c \in Tasks /\ d \notin Tasks
  <2>1. Tasks = {d}
    BY <1>2 DEF Stamp
  <2>. QED
    BY <1>2, <2>1
<1>3. CASE c \notin Tasks /\ d \in Tasks
  <2>1. Tasks = {c}
    BY <1>3 DEF Stamp
  <2>. QED
    BY <1>3, <2>1
<1>4. CASE c \notin Tasks /\ d \notin Tasks
  BY <1>4 DEF Stamp
<1>. QED
  BY <1>1, <1>2, <1>3, <1>4

(* While no source has changed, all callers agree about one that is        *)
(* refused: nobody stores what another refuses for its content, and the    *)
(* attempts of a DAG run, or of an invocation, refuse it for one reason at *)
(* one place, whatever outages and deaths cut them short                   *)
(* (pipeline.py:37, publication.py:183-194).                               *)
THEOREM SourceIsRefusedOnce == Spec => []RefusalsAgree
<1> DEFINE I == StoredInv /\ VerdictInv
<1>1. Init => I
  <2> SUFFICES ASSUME Init PROVE StoredInv /\ VerdictInv
    OBVIOUS
  <2>1. StoredInv
    BY InitStored
  <2>2. \A s, limit : Passed(s, StartWalk.page, limit)
    BY DEF Passed, StartWalk
  <2>3. \A c \in Callers : CallerVerdict(c)
    BY <2>2 DEF Init, CallerVerdict
  <2>4. \A e \in RestEntities : object[e] = Absent
    BY CallersAssumption DEF Init
  <2>5. evidence = {}
    BY DEF Init
  <2>. QED
    BY <2>1, <2>3, <2>4, <2>5 DEF VerdictInv
<1>2. I /\ [Next]_vars => I'
  BY TypesStep, ReadStep, StoredStep, VerdictStep DEF StoredInv
<1>3. I => RefusalsAgree
  <2> SUFFICES ASSUME I, changes = 0, NEW e \in Entities, NEW v \in Refused(e), NEW w \in Refused(e)
               PROVE  /\ v.error.reason \in ContentReasons => object[e] = Absent
                      /\ v.ingested_at = w.ingested_at \/ (OfDag(v) /\ OfDag(w)) => v = w
    BY DEF RefusalsAgree
  <2>1. /\ v.entity = e /\ v.error.reason \in SourceReasons /\ EvidenceVerdict(v)
        /\ w.entity = e /\ w.error.reason \in SourceReasons /\ EvidenceVerdict(w)
    BY DEF Refused, VerdictInv
  <2>2. PICK c \in Callers : v.ingested_at = Stamp(c) /\ RefusedWith(e, source[e], Limits[c][e], v.error)
    BY <2>1 DEF EvidenceVerdict
  <2>3. PICK d \in Callers : w.ingested_at = Stamp(d) /\ RefusedWith(e, source[e], Limits[d][e], w.error)
    BY <2>1 DEF EvidenceVerdict
  <2>4. IsSource(source[e])
    BY SourcesAssumption DEF StoredInv, Types, VarTypes, IsSource
  <2>5. ASSUME v.error.reason \in ContentReasons, object[e] # Absent PROVE FALSE
    <3>1. Accepted(source[e].records)
      BY <2>5 DEF StoredInv, StoredIsWhole
    <3>2. ~ (e \in RestEntities /\ source[e].loops)
      BY <2>5 DEF VerdictInv
    <3>. QED
      BY <2>2, <2>4, <2>5, <3>1, <3>2, ContentVerdict DEF ContentReasons
  <2>6. ASSUME v.ingested_at = w.ingested_at \/ (OfDag(v) /\ OfDag(w)) PROVE v = w
    <3>1. Stamp(c) = Stamp(d) \/ (c \in Tasks /\ d \in Tasks)
      <4> SUFFICES ASSUME OfDag(v), OfDag(w) PROVE c \in Tasks /\ d \in Tasks
        BY <2>2, <2>3, <2>6
      <4>. QED
        BY <2>2, <2>3 DEF OfDag, Stamp, Callers
    <3>2. v.ingested_at = w.ingested_at /\ Limits[c] = Limits[d]
      BY <2>2, <2>3, <3>1, StampsTell
    <3>3. v.error = w.error
      BY <2>2, <2>3, <3>2, OneVerdict
    <3>. QED
      BY <2>1, <3>2, <3>3 DEF EvidenceVerdict
  <2>. QED
    BY <2>5, <2>6
<1> HIDE DEF I
<1>. QED
  BY <1>1, <1>2, <1>3, PTL DEF Spec
-----------------------------------------------------------------------------
(* The GETs a walk may still make: the attempts left at its page, and all  *)
(* of the pages behind it.                                                 *)
GetsLeft(w, limit) == (limit.pages - w.page) * (MaxRetries + 1) + (MaxRetries + 1 - w.tries)

(* There is one left while a walk goes on, and a walk that has made it and *)
(* goes on has fewer.                                                      *)
LEMMA GetCosts ==
  ASSUME NEW limit \in Limit, NEW w, WalkOK(w, limit), w.state = "reading", NEW v,
         v.state = "reading" => \/ v.page = w.page + 1 /\ v.tries = 0
                                \/ v.page = w.page /\ v.tries = w.tries + 1,
         WalkOK(v, limit)
  PROVE  /\ GetsLeft(w, limit) \in Nat \ {0}
         /\ v.state = "reading" => GetsLeft(v, limit) < GetsLeft(w, limit)
<1>1. /\ limit.pages \in Nat \ {0} /\ MaxRetries \in Nat
      /\ w.page \in Nat \ {0} /\ w.tries \in 0 .. MaxRetries
      /\ 1 .. w.page \subseteq 1 .. limit.pages
  BY LimitsAssumption DEF WalkOK, Walk, Limit
<1>2. w.page \in 1 .. limit.pages
  <2>1. w.page \in 1 .. w.page
    BY <1>1
  <2>. QED
    BY <1>1, <2>1
<1> DEFINE pages == limit.pages
           later == (pages - w.page) * (MaxRetries + 1)
<1>3. later \in Nat /\ GetsLeft(w, limit) = later + (MaxRetries + 1 - w.tries)
  <2>1. pages - w.page \in Nat /\ MaxRetries + 1 \in Nat
    BY <1>1, <1>2
  <2>. QED
    BY <2>1 DEF GetsLeft
<1>4. GetsLeft(w, limit) \in Nat \ {0}
  <2> HIDE DEF later
  <2>. QED
    BY <1>1, <1>3
<1>5. CASE v.page = w.page + 1 /\ v.tries = 0
  <2>1. GetsLeft(v, limit) = (pages - (w.page + 1)) * (MaxRetries + 1) + (MaxRetries + 1 - 0)
    BY <1>5 DEF GetsLeft
  <2>2. (pages - (w.page + 1)) * (MaxRetries + 1) + (MaxRetries + 1) = later
    BY <1>1
  <2>3. GetsLeft(v, limit) = later
    BY <1>1, <2>1, <2>2
  <2> HIDE DEF later
  <2>. QED
    BY <1>1, <1>3, <1>4, <2>3
<1>6. CASE v.page = w.page /\ v.tries = w.tries + 1
  <2>1. GetsLeft(v, limit) = later + (MaxRetries + 1 - (w.tries + 1))
    BY <1>6 DEF GetsLeft
  <2> HIDE DEF later
  <2>. QED
    BY <1>1, <1>3, <1>4, <2>1
<1>. QED
  BY <1>4, <1>5, <1>6

(* A walk makes limit.pages * (MaxRetries + 1) GETs at most, whatever      *)
(* pages, links and failures the source answers them with: each costs one, *)
(* and what is left is a natural number (extractors.py:76-102).            *)
THEOREM WalksAreBounded ==
  /\ \A limit \in Limit : GetsLeft(StartWalk, limit) = limit.pages * (MaxRetries + 1)
  /\ Spec => [][\A c \in Callers : Get(c) =>
                  /\ GetsLeft(walk[c], LimitOf(c)) \in Nat \ {0}
                  /\ pc'[c] = "extract" =>
                       GetsLeft(walk'[c], LimitOf(c)) < GetsLeft(walk[c], LimitOf(c))]_vars
<1> DEFINE Costs(c) == /\ GetsLeft(walk[c], LimitOf(c)) \in Nat \ {0}
                       /\ pc'[c] = "extract" =>
                            GetsLeft(walk'[c], LimitOf(c)) < GetsLeft(walk[c], LimitOf(c))
           A == \A c \in Callers : Get(c) => Costs(c)
<1>1. ASSUME NEW limit \in Limit PROVE GetsLeft(StartWalk, limit) = limit.pages * (MaxRetries + 1)
  <2>1. StartWalk.page = 1 /\ StartWalk.tries = 0 /\ limit.pages \in Nat /\ MaxRetries \in Nat
    BY LimitsAssumption DEF StartWalk, Limit
  <2>2. (limit.pages - 1) * (MaxRetries + 1) + (MaxRetries + 1) = limit.pages * (MaxRetries + 1)
    BY <2>1
  <2>. QED
    BY <2>1, <2>2 DEF GetsLeft
<1>2. Types /\ [Next]_vars => [A]_vars
  <2> SUFFICES ASSUME Types, NEW c \in Callers, Get(c) PROVE Costs(c)
    OBVIOUS
  <2>1. /\ WalkOK(walk[c], LimitOf(c)) /\ walk[c].state = "reading" /\ LimitOf(c) \in Limit
        /\ IsSource(source[Entity(c)])
    BY EntityType DEF Types, CallerTypes, Get
  <2>2. PICK v : Extracted(c, v) /\ WalkOK(v, LimitOf(c)) /\ AfterGet(c, v)
    BY GetWalk
  <2>3. walk'[c] = v /\ (pc'[c] = "extract" => v.state = "reading")
    BY <2>2 DEF Extracted, Goto, Types, VarTypes
  <2>4. v.state = "reading" => \/ v.page = walk[c].page + 1 /\ v.tries = 0
                               \/ v.page = walk[c].page /\ v.tries = walk[c].tries + 1
    BY <2>1, <2>2, TakePageOK, FailedGetOK DEF AfterGet
  <2>5. /\ GetsLeft(walk[c], LimitOf(c)) \in Nat \ {0}
        /\ v.state = "reading" => GetsLeft(v, LimitOf(c)) < GetsLeft(walk[c], LimitOf(c))
    BY <2>1, <2>2, <2>4, GetCosts
  <2>. QED
    BY <2>3, <2>5
<1>3. Spec => [][A]_vars
  BY TypesHold, <1>2, PTL DEF Spec
<1>. QED
  BY <1>1, <1>3
=================================================================================
