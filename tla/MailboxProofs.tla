---------------------------- MODULE MailboxProofs ----------------------------
(***************************************************************************)
(* No mail is missed, stored twice or credited wrongly without a reason,   *)
(* for any number of addresses, mails, overlapping fetches, staff actions  *)
(* and troubles.                                                           *)
(***************************************************************************)
EXTENDS Mailbox, SequenceTheorems, FiniteSetTheorems, WellFoundedInduction, TLAPS

Mail == [id : Nat, from : Sender, text : {"words", "rating", "no sender"}]
Item == [uid : Nat, mail : Mail]
FetchRow ==
  [pc : {"rest", "find", "customer", "thread", "update", "store", "rate"},
   list : Seq(Item), from : Nat, into : Nat, rates : BOOLEAN]
Thread ==
  [of : Nat, status : {"OPEN", "RESOLVED", "CLOSED", "deleted"},
   awaits : BOOLEAN, rated : BOOLEAN]
Stamp == [in : Nat, uid : Nat, mail : Nat]

\* What a fetch remembers at the step it is at.
Shape(row) ==
  /\ row.list = <<>> <=> row.pc = "rest"
  /\ row.pc \in {"find", "customer", "thread"} => row.into = 0 /\ ~row.rates
  /\ row.pc = "update" => row.into \in DOMAIN thread \/ (row.into = 0 /\ ~row.rates)
  /\ row.pc \in {"store", "rate"} => row.into \in DOMAIN thread
  /\ row.pc = "rate" => row.rates

\* Every variable stays within what it stands for.
TypeInv ==
  /\ box \in Seq(Mail)
  /\ mark \in Nat
  /\ link \in {"down", "opening", "up", "deaf"}
  /\ fetch \in [Fetcher -> FetchRow]
  /\ customer \in Seq(Sender)
  /\ thread \in Seq(Thread)
  /\ message \in Seq(Stamp)
  /\ credits \in Nat
  /\ arrived \in Nat
  /\ \A f \in Fetcher : Shape(fetch[f])
  /\ \A i \in DOMAIN message : message[i].in \in DOMAIN thread

\* A set of positions has a greatest one.
LEMMA Newest ==
  ASSUME NEW n \in Nat, NEW S \in SUBSET (1..n), S # {}
  PROVE  \E v \in S : \A w \in S : w <= v
<1>. DEFINE T == {n - v : v \in S}
            R == OpToRel(<, Nat)
<1>0. \A v \in S : v \in 1..n
  OBVIOUS
<1>1. T \subseteq Nat /\ T # {}
  <2>1. \A v \in S : n - v \in Nat
    BY <1>0
  <2>2. QED
    BY <2>1
<1>2. IsWellFoundedOn(R, Nat)
  BY NatLessThanWellFounded
<1>3. \A x, y \in Nat : <<x, y>> \in R <=> x < y
  BY DEF OpToRel
<1>. HIDE DEF R, T
<1>4. PICK x \in T : \A y \in T : ~(<<y, x>> \in R)
  BY <1>1, <1>2, WFMin
<1>5. \A y \in T : x <= y
  <2>. SUFFICES ASSUME NEW y \in T PROVE x <= y
    OBVIOUS
  <2>1. x \in Nat /\ y \in Nat
    BY <1>1
  <2>2. ~(y < x)
    BY <1>3, <1>4, <2>1
  <2>3. QED
    BY <2>1, <2>2
<1>6. PICK v \in S : x = n - v
  BY <1>4 DEF T
<1>7. \A w \in S : n - v <= n - w
  BY <1>5, <1>6 DEF T
<1>8. \A w \in S : w <= v
  BY <1>0, <1>7
<1>9. QED
  BY <1>8

\* The mail a fetch works on.
LEMMA FirstType ==
  ASSUME TypeInv, NEW f \in Fetcher, ~At(f, "rest")
  PROVE  /\ fetch[f] \in FetchRow /\ fetch[f].list \in Seq(Item) /\ fetch[f].list # <<>>
         /\ First(f) = fetch[f].list[1] /\ 1 \in DOMAIN fetch[f].list
         /\ First(f) \in Item /\ First(f).uid \in Nat /\ First(f).mail \in Mail
         /\ First(f).mail.id \in Nat
<1>1. /\ fetch[f] \in FetchRow /\ fetch[f].list \in Seq(Item) /\ fetch[f].list # <<>>
  BY DEF TypeInv, Shape, FetchRow, At
<1>2. First(f) = fetch[f].list[1] /\ 1 \in DOMAIN fetch[f].list /\ First(f) \in Item
  BY <1>1 DEF First
<1>3. QED
  BY <1>1, <1>2 DEF Item, Mail

\* A fetch that begins with a list.
LEMMA BeginType ==
  ASSUME NEW list \in Seq(Item)
  PROVE  /\ Begin(list) \in FetchRow
         /\ Begin(list).list = list /\ Begin(list).pc \in {"rest", "find"}
         /\ Begin(list).pc = "rest" <=> list = <<>>
         /\ Begin(list).into = 0 /\ ~Begin(list).rates
<1>1. CASE list = <<>>
  BY <1>1 DEF Begin, Rest, FetchRow
<1>2. CASE list # <<>>
  BY <1>2 DEF Begin, Rest, FetchRow
<1>3. QED
  BY <1>1, <1>2

\* What a fetch that changes leaves.
LEMMA GoesType ==
  ASSUME TypeInv, NEW f \in Fetcher, NEW row, Goes(f, row)
  PROVE  fetch'[f] = row /\ \A g \in Fetcher : g # f => fetch'[g] = fetch[g]
BY DEF TypeInv, Goes

\* A fetch that is done with its first mail goes on with the others.
LEMMA DoneType ==
  ASSUME TypeInv, NEW f \in Fetcher, ~At(f, "rest"), Done(f)
  PROVE  /\ fetch'[f] \in FetchRow /\ fetch'[f].into = 0 /\ ~fetch'[f].rates
         /\ fetch'[f].pc \in {"rest", "find"}
         /\ fetch'[f].pc = "rest" <=> fetch'[f].list = <<>>
         /\ \A g \in Fetcher : g # f => fetch'[g] = fetch[g]
         /\ fetch'[f].list \in Seq(Item)
         /\ \A i \in DOMAIN fetch'[f].list :
              i + 1 \in DOMAIN fetch[f].list /\ fetch'[f].list[i] = fetch[f].list[i + 1]
         /\ mark' \in Nat /\ mark' \in {mark, First(f).uid}
         /\ mark <= mark' /\ First(f).uid <= mark'
<1>1. /\ fetch[f].list \in Seq(Item) /\ fetch[f].list # <<>> /\ First(f).uid \in Nat
  BY FirstType
<1>2. /\ fetch'[f] = Begin(Tail(fetch[f].list))
      /\ \A g \in Fetcher : g # f => fetch'[g] = fetch[g]
  BY GoesType DEF Done
<1>3. /\ Tail(fetch[f].list) \in Seq(Item)
      /\ Len(Tail(fetch[f].list)) = Len(fetch[f].list) - 1
      /\ \A i \in 1..Len(Tail(fetch[f].list)) : Tail(fetch[f].list)[i] = fetch[f].list[i + 1]
  BY <1>1, HeadTailProperties
<1>4. \A i \in DOMAIN Tail(fetch[f].list) :
         i + 1 \in DOMAIN fetch[f].list /\ Tail(fetch[f].list)[i] = fetch[f].list[i + 1]
  BY <1>1, <1>3
<1>5. mark' \in Nat /\ mark' \in {mark, First(f).uid} /\ mark <= mark' /\ First(f).uid <= mark'
  BY <1>1 DEF Done, TypeInv
<1>6. /\ fetch'[f] \in FetchRow /\ fetch'[f].into = 0 /\ ~fetch'[f].rates
      /\ fetch'[f].pc \in {"rest", "find"} /\ fetch'[f].list = Tail(fetch[f].list)
      /\ fetch'[f].pc = "rest" <=> fetch'[f].list = <<>>
  BY <1>2, <1>3, BeginType
<1>7. QED
  BY <1>2, <1>3, <1>4, <1>5, <1>6

\* A fetch that begins has what is above the mark.
LEMMA AboveType ==
  ASSUME box \in Seq(Mail), NEW m \in Nat
  PROVE  /\ Above(m) \in Seq(Item)
         /\ \A i \in DOMAIN Above(m) :
              /\ Above(m)[i].uid = m + i /\ m + i \in DOMAIN box
              /\ Above(m)[i].mail = box[m + i]
<1>. DEFINE n == Len(box) - m
<1>1. CASE n <= 0
  <2>1. 1..n = {} /\ 1..0 = {}
    BY <1>1
  <2>2. Above(m) \in [1..0 -> Item] /\ DOMAIN Above(m) = {}
    BY <2>1 DEF Above
  <2>3. Above(m) \in Seq(Item)
    BY <2>2
  <2>4. QED
    BY <2>2, <2>3
<1>2. CASE n > 0
  <2>1. n \in Nat /\ \A i \in 1..n : m + i \in 1..Len(box)
    BY <1>2
  <2>2. \A i \in 1..n : box[m + i] \in Mail
    BY <2>1
  <2>3. /\ DOMAIN Above(m) = 1..n
        /\ \A i \in 1..n : Above(m)[i] = [uid |-> m + i, mail |-> box[m + i]]
    BY DEF Above
  <2>4. \A i \in 1..n : Above(m)[i] \in Item
    BY <2>1, <2>2, <2>3 DEF Item
  <2>5. Above(m) \in [1..n -> Item]
    BY <2>3, <2>4 DEF Above
  <2>6. Above(m) \in Seq(Item)
    BY <2>1, <2>5
  <2>7. QED
    BY <2>1, <2>3, <2>6
<1>3. QED
  BY <1>1, <1>2
-----------------------------------------------------------------------------
(***************************************************************************)
(* Types                                                                   *)
(***************************************************************************)
\* A step that leaves the conversations, or adds to them, keeps what fetches
\* remember of them.
LEMMA ShapeStays ==
  ASSUME NEW row, Shape(row), DOMAIN thread \subseteq DOMAIN thread'
  PROVE  Shape(row)'
BY DEF Shape

\* What one fetch writes to the store, and how it goes on.
LEMMA FetchTypes ==
  ASSUME TypeInv, NEW f \in Fetcher,
         fetch'[f] \in FetchRow, Shape(fetch[f])',
         \A g \in Fetcher : g # f => fetch'[g] = fetch[g],
         fetch' \in [Fetcher -> FetchRow],
         DOMAIN thread \subseteq DOMAIN thread',
         mark' \in Nat, link' = link \/ link' = "opening", box' = box, arrived' = arrived,
         customer' \in Seq(Sender), thread' \in Seq(Thread), credits' \in Nat,
         message' \in Seq(Stamp),
         \A i \in DOMAIN message' : \/ i \in DOMAIN message /\ message'[i] = message[i]
                                  \/ message'[i].in \in DOMAIN thread'
  PROVE  TypeInv'
<1>1. \A g \in Fetcher : Shape(fetch[g])'
  <2>. SUFFICES ASSUME NEW g \in Fetcher, g # f PROVE Shape(fetch[g])'
    OBVIOUS
  <2>1. PICK row : row = fetch[g]
    OBVIOUS
  <2>2. Shape(row) /\ fetch'[g] = row
    BY <2>1 DEF TypeInv
  <2>3. Shape(row)'
    BY <2>2, ShapeStays
  <2>4. QED
    BY <2>2, <2>3 DEF Shape
<1>2. \A i \in DOMAIN message' : message'[i].in \in DOMAIN thread'
  BY DEF TypeInv
<1>3. QED
  BY <1>1, <1>2 DEF TypeInv

\* The mark that is read back is that of a message, or 0.
LEMMA LastType ==
  ASSUME TypeInv
  PROVE  /\ loadLastProcessedUID \in Nat
         /\ \/ loadLastProcessedUID = 0 /\ (Kept = {} \/ ~EmailChannel)
            \/ \E i \in Kept : /\ loadLastProcessedUID = message[i].uid
                              /\ \A j \in Kept : j <= i
<1>1. CASE Kept = {} \/ ~EmailChannel
  BY <1>1 DEF loadLastProcessedUID
<1>2. CASE ~(Kept = {} \/ ~EmailChannel)
  <2>1. Kept \in SUBSET (1..Len(message)) /\ Len(message) \in Nat
    BY DEF Kept, TypeInv
  <2>2. \E i \in Kept : \A j \in Kept : j <= i
    BY <1>2, <2>1, Newest
  <2>3. \E i \in Kept : \A j \in Kept : i >= j
    BY <2>1, <2>2
  <2>4. Max(Kept) \in Kept /\ \A j \in Kept : Max(Kept) >= j
    BY <2>3 DEF Max
  <2>5. PICK i : i = Max(Kept)
    OBVIOUS
  <2>6. i \in Kept /\ (\A j \in Kept : j <= i) /\ loadLastProcessedUID = message[i].uid
    BY <1>2, <2>1, <2>4, <2>5 DEF loadLastProcessedUID
  <2>7. message[i].uid \in Nat
    <3>1. message[i] \in Stamp
      BY <2>1, <2>6 DEF TypeInv
    <3>2. QED
      BY <3>1 DEF Stamp
  <2>8. QED
    BY <2>6, <2>7
<1>3. QED
  BY <1>1, <1>2

\* A new mail, connection, crash or mailbox changes no conversation.
LEMMA MailboxTypes ==
  ASSUME TypeInv, Arrive \/ Recreate \/ Close \/ Crash \/ Listen \/ Connect
  PROVE  TypeInv'
<1>. USE DEF store, bounds, Excuse, Trouble, Steps
<1>1. CASE Arrive
  <2>1. arrived' \in Nat
    <3>1. arrived' = arrived + 1
      BY <1>1 DEF Arrive
    <3>2. arrived \in Nat
      BY DEF TypeInv
    <3>3. QED
      BY <3>1, <3>2
  <2>2. PICK from \in Sender, text \in {"words", "rating", "no sender"} :
          box' = Append(box, [id |-> arrived', from |-> from, text |-> text])
    BY <1>1 DEF Arrive
  <2>3. [id |-> arrived', from |-> from, text |-> text] \in Mail
    BY <2>1 DEF Mail
  <2>4. box' \in Seq(Mail)
    BY <2>2, <2>3, AppendProperties DEF TypeInv
  <2>5. QED
    BY <1>1, <2>1, <2>4 DEF Arrive, TypeInv, Shape
<1>2. CASE Recreate \/ Close \/ Listen
  <2>1. box' \in Seq(Mail)
    <3>1. box' = <<>> \/ box' = box
      BY <1>2 DEF Recreate, Close, Listen
    <3>2. box \in Seq(Mail) /\ <<>> \in Seq(Mail)
      BY DEF TypeInv
    <3>3. QED
      BY <3>1, <3>2
  <2>2. link' \in {"down", "opening", "up", "deaf"}
    BY <1>2 DEF Recreate, Close, Listen, Shut, TypeInv
  <2>3. UNCHANGED <<mark, fetch, customer, thread, message, credits, arrived>>
    BY <1>2 DEF Recreate, Close, Listen
  <2>4. QED
    BY <2>1, <2>2, <2>3 DEF TypeInv, Shape
<1>3. CASE Crash
  <2>1. Rest \in FetchRow
    BY DEF Rest, FetchRow
  <2>2. \A g \in Fetcher : Shape(fetch[g])'
    BY <1>3 DEF Crash, Rest, Shape
  <2>3. QED
    BY <1>3, <2>1, <2>2 DEF Crash, TypeInv
<1>4. CASE Connect
  <2>1. mark' \in Nat
    BY <1>4, LastType DEF Connect
  <2>2. PICK list \in Seq(Item) : fetch' = [fetch EXCEPT ![Loop] = Begin(list)]
    <3>1. box' = box /\ fetch' = [fetch EXCEPT ![Loop] = Begin(Above(mark'))]
      BY <1>4 DEF Connect
    <3>2. Above(mark') \in Seq(Item)
      BY <2>1, AboveType DEF TypeInv
    <3>3. QED
      BY <3>1, <3>2
  <2>3. fetch' \in [Fetcher -> FetchRow]
    BY <2>2, BeginType DEF TypeInv
  <2>4. \A g \in Fetcher : Shape(fetch[g])'
    BY <1>4, <2>2, BeginType DEF Connect, TypeInv, Shape
  <2>5. QED
    BY <1>4, <2>1, <2>3, <2>4 DEF Connect, TypeInv
<1>5. QED
  BY <1>1, <1>2, <1>3, <1>4

\* The conversation found is one of those looked for.
LEMMA FindsNewest ==
  ASSUME TypeInv, NEW f \in Fetcher, FindConversation(f)
  PROVE  \/ Goes(f, [fetch[f] EXCEPT !.pc = "update"])
         \/ \E v \in DOMAIN thread :
              /\ thread[v].status = "OPEN" \/ Awaits(v)
              /\ Goes(f, [fetch[f] EXCEPT !.pc = "update", !.into = v, !.rates = Awaits(v)])
<1>. DEFINE mine == {v \in DOMAIN thread :
                       thread[v].of = fetch[f].from /\ (thread[v].status = "OPEN" \/ Awaits(v))}
            newest == CHOOSE v \in mine : \A w \in mine : w <= v
<1>1. CASE mine = {}
  BY <1>1 DEF FindConversation
<1>2. CASE mine # {}
  <2>1. mine \in SUBSET (1..Len(thread)) /\ Len(thread) \in Nat
    BY DEF TypeInv
  <2>2. \E v \in mine : \A w \in mine : w <= v
    BY <1>2, <2>1, Newest
  <2>3. newest \in mine
    BY <2>2
  <2>4. Goes(f, [fetch[f] EXCEPT !.pc = "update", !.into = newest, !.rates = Awaits(newest)])
    BY <1>2 DEF FindConversation
  <2>. HIDE DEF newest
  <2>5. QED
    BY <2>3, <2>4
<1>3. QED
  BY <1>1, <1>2

\* What a rating makes of the conversations.
LEMMA RatedType ==
  ASSUME TypeInv, NEW v \in DOMAIN thread,
         \/ thread' = thread
         \/ \E t \in Thread : thread' = [thread EXCEPT ![v] = t]
         \/ thread' = [thread EXCEPT ![v].status = "CLOSED", ![v].awaits = FALSE, ![v].rated = TRUE]
         \/ thread' = IF thread[v].awaits /\ thread[v].status # "deleted"
                        THEN [thread EXCEPT ![v].status = "CLOSED", ![v].awaits = FALSE, ![v].rated = TRUE]
                        ELSE thread
  PROVE  thread' \in Seq(Thread) /\ DOMAIN thread' = DOMAIN thread
<1>1. thread \in Seq(Thread) /\ v \in 1..Len(thread) /\ thread[v] \in Thread
  BY DEF TypeInv
<1>2. ASSUME NEW t \in Thread, thread' = [thread EXCEPT ![v] = t]
      PROVE  thread' \in Seq(Thread) /\ DOMAIN thread' = DOMAIN thread
  BY <1>1, <1>2, ExceptSeq
<1>3. CASE thread' = [thread EXCEPT ![v].status = "CLOSED", ![v].awaits = FALSE, ![v].rated = TRUE]
  <2>. DEFINE t == [thread[v] EXCEPT !.status = "CLOSED", !.awaits = FALSE, !.rated = TRUE]
  <2>1. t \in Thread
    BY <1>1 DEF Thread
  <2>2. thread' = [thread EXCEPT ![v] = t]
    BY <1>1, <1>3
  <2>3. QED
    BY <1>2, <2>1, <2>2
<1>4. QED
  BY <1>1, <1>2, <1>3

\* The steps of a fetch.
LEMMA ProcessTypes ==
  ASSUME TypeInv, NEW f \in Fetcher,
         fetchUnreadEmails(f) \/ Process(f) \/ StatementFails(f)
  PROVE  TypeInv'
<1>. USE DEF store, bounds, Excuse, Trouble, Steps
<1>1. ASSUME ~At(f, "rest"), Done(f), DOMAIN thread \subseteq DOMAIN thread',
             link' = link, box' = box, arrived' = arrived, customer' = customer,
             thread' \in Seq(Thread), credits' \in Nat, message' \in Seq(Stamp),
             \A i \in DOMAIN message' : \/ i \in DOMAIN message /\ message'[i] = message[i]
                                        \/ message'[i].in \in DOMAIN thread'
      PROVE  TypeInv'
  <2>1. Shape(fetch[f])'
    BY <1>1, DoneType DEF Shape
  <2>2. fetch' \in [Fetcher -> FetchRow] /\ fetch'[f] \in FetchRow
    BY <1>1, DoneType DEF Done, Goes, TypeInv
  <2>3. QED
    BY <1>1, <2>1, <2>2, DoneType, FetchTypes DEF TypeInv
<1>2. ASSUME NEW row \in FetchRow, Goes(f, row), Shape(fetch[f])',
             UNCHANGED <<box, mark, link, arrived>>,
             DOMAIN thread \subseteq DOMAIN thread', thread' \in Seq(Thread),
             customer' \in Seq(Sender), credits' = credits, message' \in Seq(Stamp),
             \A i \in DOMAIN message' : \/ i \in DOMAIN message /\ message'[i] = message[i]
                                        \/ message'[i].in \in DOMAIN thread'
      PROVE  TypeInv'
  <2>1. fetch' \in [Fetcher -> FetchRow] /\ fetch'[f] \in FetchRow
    BY <1>2 DEF Goes, TypeInv
  <2>2. mark' \in Nat /\ credits' \in Nat
    BY <1>2 DEF TypeInv
  <2>3. QED
    BY <1>2, <2>1, <2>2, GoesType, FetchTypes DEF TypeInv
<1>3. CASE fetchUnreadEmails(f)
  <2>1. /\ Goes(f, Begin(Above(mark))) /\ Above(mark) \in Seq(Item)
        /\ UNCHANGED <<box, mark, link, arrived, customer, thread, message, credits>>
    BY <1>3, AboveType DEF fetchUnreadEmails, Goes, TypeInv
  <2>2. Begin(Above(mark)) \in FetchRow /\ fetch'[f] = Begin(Above(mark))
    BY <2>1, BeginType, GoesType
  <2>3. Shape(fetch[f])'
    BY <2>1, <2>2, BeginType DEF Shape
  <2>4. QED
    BY <1>2, <2>1, <2>2, <2>3 DEF TypeInv
<1>4. ASSUME NEW pc, At(f, pc), pc # "rest"
      PROVE  /\ fetch[f] \in FetchRow /\ Shape(fetch[f]) /\ ~At(f, "rest")
             /\ fetch[f].pc = pc /\ fetch[f].list # <<>>
             /\ First(f) \in Item /\ First(f).mail \in Mail
             /\ First(f).mail.from \in Sender /\ First(f).mail.id \in Nat /\ First(f).uid \in Nat
  BY <1>4, FirstType DEF TypeInv, At, Shape, Mail
<1>5. CASE FindCustomer(f)
  <2>1. /\ fetch[f] \in FetchRow /\ Shape(fetch[f]) /\ ~At(f, "rest") /\ fetch[f].pc = "find"
        /\ fetch[f].list # <<>>
        /\ UNCHANGED <<box, link, arrived, customer, thread, message, credits>>
    BY <1>4, <1>5 DEF FindCustomer
  <2>2. ASSUME NEW step \in {"customer", "thread"}, NEW c \in Nat, mark' = mark,
               Goes(f, [fetch[f] EXCEPT !.pc = step, !.from = c])
        PROVE  TypeInv'
    <3>1. [fetch[f] EXCEPT !.pc = step, !.from = c] \in FetchRow
      BY <2>1 DEF FetchRow
    <3>2. fetch'[f] = [fetch[f] EXCEPT !.pc = step, !.from = c]
      BY <2>2, GoesType
    <3>3. Shape(fetch[f])'
      BY <2>1, <3>2 DEF Shape, FetchRow
    <3>4. QED
      BY <1>2, <2>1, <2>2, <3>1, <3>3 DEF TypeInv
  <2>3. CASE mark' = mark /\ Goes(f, [fetch[f] EXCEPT !.pc = "customer"])
    <3>1. /\ [fetch[f] EXCEPT !.pc = "customer"] = [fetch[f] EXCEPT !.pc = "customer", !.from = fetch[f].from]
          /\ fetch[f].from \in Nat
      BY <2>1 DEF FetchRow
    <3>2. QED
      BY <2>2, <2>3, <3>1
  <2>4. CASE \E c \in DOMAIN customer : mark' = mark /\ Goes(f, [fetch[f] EXCEPT !.pc = "thread", !.from = c])
    <3>1. DOMAIN customer \subseteq Nat
      BY DEF TypeInv
    <3>2. QED
      BY <2>2, <2>4, <3>1
  <2>5. CASE Done(f)
    BY <1>1, <2>1, <2>5 DEF TypeInv
  <2>6. QED
    BY <1>5, <2>3, <2>4, <2>5 DEF FindCustomer
<1>6. CASE CreateCustomer(f)
  <2>1. /\ fetch[f] \in FetchRow /\ Shape(fetch[f]) /\ fetch[f].pc = "customer"
        /\ fetch[f].list # <<>> /\ First(f).mail.from \in Sender
        /\ UNCHANGED <<box, mark, link, arrived, thread, message, credits>>
    BY <1>4, <1>6 DEF CreateCustomer
  <2>2. customer' \in Seq(Sender) /\ Len(customer') \in Nat
    BY <1>6, <2>1, AppendProperties DEF CreateCustomer, TypeInv
  <2>. DEFINE row == [fetch[f] EXCEPT !.pc = "thread", !.from = Len(customer')]
  <2>3. row \in FetchRow /\ Goes(f, row) /\ fetch'[f] = row
    BY <1>6, <2>1, <2>2, GoesType DEF CreateCustomer, FetchRow
  <2>4. Shape(fetch[f])'
    BY <2>1, <2>3 DEF Shape, FetchRow
  <2>5. QED
    BY <1>2, <2>1, <2>2, <2>3, <2>4 DEF TypeInv
<1>7. CASE FindConversation(f)
  <2>1. /\ fetch[f] \in FetchRow /\ Shape(fetch[f]) /\ fetch[f].pc = "thread"
        /\ fetch[f].list # <<>>
        /\ UNCHANGED <<box, mark, link, arrived, customer, thread, message, credits>>
    BY <1>4, <1>7 DEF FindConversation
  <2>2. PICK row \in FetchRow : Goes(f, row) /\ row.pc = "update" /\ row.list = fetch[f].list
                                /\ (row.into \in DOMAIN thread \/ (row.into = 0 /\ ~row.rates))
    <3>1. CASE Goes(f, [fetch[f] EXCEPT !.pc = "update"])
      <4>. DEFINE row == [fetch[f] EXCEPT !.pc = "update"]
      <4>1. /\ row \in FetchRow /\ row.pc = "update" /\ row.list = fetch[f].list
            /\ row.into = 0 /\ ~row.rates
        BY <2>1 DEF FetchRow, Shape
      <4>2. QED
        BY <3>1, <4>1
    <3>2. CASE \E v \in DOMAIN thread :
                 Goes(f, [fetch[f] EXCEPT !.pc = "update", !.into = v, !.rates = Awaits(v)])
      <4>1. PICK v \in DOMAIN thread :
                 Goes(f, [fetch[f] EXCEPT !.pc = "update", !.into = v, !.rates = Awaits(v)])
        BY <3>2
      <4>2. v \in Nat /\ Awaits(v) \in BOOLEAN
        BY DEF TypeInv, Awaits, Thread
      <4>. DEFINE row == [fetch[f] EXCEPT !.pc = "update", !.into = v, !.rates = Awaits(v)]
      <4>3. /\ row \in FetchRow /\ row.pc = "update" /\ row.list = fetch[f].list
            /\ row.into = v
        BY <2>1, <4>2 DEF FetchRow
      <4>4. QED
        BY <4>1, <4>3
    <3>3. QED
      BY <1>7, <3>1, <3>2, FindsNewest DEF FindConversation
  <2>3. Shape(fetch[f])'
    BY <2>1, <2>2, GoesType DEF Shape
  <2>4. QED
    BY <1>2, <2>1, <2>2, <2>3 DEF TypeInv
<1>8. CASE UpdateConversation(f)
  <2>1. /\ fetch[f] \in FetchRow /\ Shape(fetch[f]) /\ fetch[f].pc = "update"
        /\ fetch[f].list # <<>> /\ fetch[f].from \in Nat
        /\ UNCHANGED <<box, mark, link, arrived, customer, message, credits>>
    BY <1>4, <1>8 DEF UpdateConversation, FetchRow
  <2>2. ASSUME NEW v, NEW rates \in BOOLEAN, v \in DOMAIN thread',
               Goes(f, [fetch[f] EXCEPT !.pc = "store", !.into = v, !.rates = rates]),
               DOMAIN thread \subseteq DOMAIN thread', thread' \in Seq(Thread)
        PROVE  TypeInv'
    <3>. DEFINE row == [fetch[f] EXCEPT !.pc = "store", !.into = v, !.rates = rates]
    <3>1. v \in Nat
      BY <2>2
    <3>2. row \in FetchRow /\ row.pc = "store" /\ row.into = v /\ row.list # <<>>
      BY <2>1, <3>1 DEF FetchRow
    <3>3. fetch'[f] = row
      BY <2>2, GoesType
    <3>4. Shape(fetch[f])'
      BY <2>2, <3>2, <3>3 DEF Shape
    <3>5. QED
      BY <1>2, <2>1, <2>2, <3>2, <3>4 DEF TypeInv
  <2>3. CASE fetch[f].into = 0
    <3>. DEFINE new == [of |-> fetch[f].from, status |-> "OPEN", awaits |-> FALSE, rated |-> FALSE]
    <3>0. fetch[f].into \notin DOMAIN thread
      BY <2>3 DEF TypeInv
    <3>1. ~fetch[f].rates
      BY <2>1, <3>0 DEF Shape
    <3>2. /\ thread' = Append(thread, new)
          /\ Goes(f, [fetch[f] EXCEPT !.pc = "store", !.into = Len(thread')])
      BY <1>8, <2>3 DEF UpdateConversation
    <3>3. new \in Thread
      BY <2>1 DEF Thread
    <3>4. /\ thread' \in Seq(Thread) /\ Len(thread') = Len(thread) + 1 /\ Len(thread) \in Nat
      BY <3>2, <3>3, AppendProperties DEF TypeInv
    <3>5. DOMAIN thread \subseteq DOMAIN thread' /\ Len(thread') \in DOMAIN thread'
      BY <3>4 DEF TypeInv
    <3>6. [fetch[f] EXCEPT !.pc = "store", !.into = Len(thread')]
            = [fetch[f] EXCEPT !.pc = "store", !.into = Len(thread'), !.rates = fetch[f].rates]
          /\ fetch[f].rates \in BOOLEAN
      BY <2>1 DEF FetchRow
    <3>7. QED
      BY <2>2, <3>2, <3>4, <3>5, <3>6
  <2>4. CASE fetch[f].into # 0
    <3>1. fetch[f].into \in DOMAIN thread /\ fetch[f].rates \in BOOLEAN
      BY <2>1, <2>4 DEF Shape, FetchRow
    <3>2. Awaits(fetch[f].into) \in BOOLEAN
      BY <3>1 DEF TypeInv, Awaits, Thread
    <3>3. PICK rates \in BOOLEAN :
            Goes(f, [fetch[f] EXCEPT !.pc = "store", !.rates = rates]) /\ thread' = thread
      BY <1>8, <2>1, <2>4, <3>1, <3>2 DEF UpdateConversation
    <3>4. [fetch[f] EXCEPT !.pc = "store", !.rates = rates]
            = [fetch[f] EXCEPT !.pc = "store", !.into = fetch[f].into, !.rates = rates]
      BY <2>1 DEF FetchRow
    <3>5. QED
      BY <2>2, <3>1, <3>3, <3>4 DEF TypeInv
  <2>5. QED
    BY <2>3, <2>4
<1>9. CASE StoreMessage(f)
  <2>1. /\ fetch[f] \in FetchRow /\ Shape(fetch[f]) /\ ~At(f, "rest") /\ fetch[f].pc = "store"
        /\ fetch[f].list # <<>> /\ fetch[f].into \in DOMAIN thread /\ fetch[f].into \in Nat
        /\ First(f).uid \in Nat /\ First(f).mail.id \in Nat
        /\ UNCHANGED <<box, link, arrived, customer, thread, credits, excuse>>
    BY <1>4, <1>9 DEF StoreMessage, FetchRow, Shape
  <2>. DEFINE stamp == [in |-> fetch[f].into, uid |-> First(f).uid, mail |-> First(f).mail.id]
  <2>2. CASE message' = message /\ Done(f)
    BY <1>1, <2>1, <2>2 DEF TypeInv
  <2>3. CASE message' = Append(message, stamp)
    <3>1. stamp \in Stamp
      BY <2>1 DEF Stamp
    <3>2. message' \in Seq(Stamp)
      BY <2>3, <3>1, AppendProperties DEF TypeInv
    <3>3. \A i \in DOMAIN message' : \/ i \in DOMAIN message /\ message'[i] = message[i]
                                     \/ message'[i].in \in DOMAIN thread'
      <4>1. message' \in Seq(Stamp) /\ Len(message') = Len(message) + 1 /\ Len(message) \in Nat
            /\ (\A i \in 1..Len(message) : message'[i] = message[i])
            /\ message'[Len(message) + 1] = stamp
        BY <2>3, <3>1, AppendProperties DEF TypeInv
      <4>2. stamp.in = fetch[f].into
        OBVIOUS
      <4>. HIDE DEF stamp
      <4>3. ASSUME NEW i \in DOMAIN message'
            PROVE  i \in 1..Len(message) \/ i = Len(message) + 1
        BY <4>1, <4>3
      <4>4. DOMAIN message = 1..Len(message)
        BY DEF TypeInv
      <4>5. QED
        BY <2>1, <4>1, <4>2, <4>3, <4>4
    <3>4. CASE Done(f)
      BY <1>1, <2>1, <3>2, <3>3, <3>4 DEF TypeInv
    <3>5. CASE Goes(f, [fetch[f] EXCEPT !.pc = "rate"]) /\ mark' = mark /\ fetch[f].rates
      <4>1. [fetch[f] EXCEPT !.pc = "rate"] \in FetchRow
        BY <2>1 DEF FetchRow
      <4>2. fetch'[f] = [fetch[f] EXCEPT !.pc = "rate"]
        BY <3>5, GoesType
      <4>3. Shape(fetch[f])'
        BY <2>1, <3>5, <4>2 DEF Shape, FetchRow
      <4>4. QED
        BY <1>2, <2>1, <3>2, <3>3, <3>5, <4>1, <4>3 DEF TypeInv
    <3>6. QED
      BY <1>9, <2>1, <2>3, <3>4, <3>5 DEF StoreMessage, FetchRow
  <2>4. QED
    BY <1>9, <2>2, <2>3 DEF StoreMessage
<1>10. CASE processRatingReply(f)
  <2>1. /\ ~At(f, "rest") /\ Done(f) /\ fetch[f].into \in DOMAIN thread
        /\ UNCHANGED <<box, link, arrived, customer, message, excuse>>
    BY <1>4, <1>10 DEF processRatingReply, Shape
  <2>2. credits' \in Nat
    <3>1. credits' = credits + 1
      BY <1>10 DEF processRatingReply
    <3>2. QED
      BY <3>1 DEF TypeInv
  <2>3. thread' \in Seq(Thread) /\ DOMAIN thread' = DOMAIN thread
    BY <1>10, <2>1, RatedType DEF processRatingReply
  <2>4. QED
    BY <1>1, <2>1, <2>2, <2>3 DEF TypeInv
<1>11. CASE StatementFails(f)
  BY <1>1, <1>11 DEF StatementFails, TypeInv, At
<1>12. QED
  BY <1>3, <1>5, <1>6, <1>7, <1>8, <1>9, <1>10, <1>11 DEF Process

\* What the staff does changes one conversation.
LEMMA ActTypes ==
  ASSUME TypeInv, NEW v \in DOMAIN thread, Resolve(v) \/ CloseConversation(v) \/ Delete(v)
  PROVE  /\ TypeInv' /\ excuse \subseteq excuse' /\ (Busy = {} \/ "edited" \in excuse')
         /\ UNCHANGED <<box, mark, link, fetch, customer, message, credits, arrived, failed>>
         /\ DOMAIN thread' = DOMAIN thread
         /\ \E t \in Thread : thread' = [thread EXCEPT ![v] = t] /\ t.rated = thread[v].rated
                               /\ (t.status \in {"CLOSED", "deleted"} \/ thread[v].status = "OPEN")
<1>1. thread[v] \in Thread
  BY DEF TypeInv
<1>2. PICK t \in Thread : /\ thread' = [thread EXCEPT ![v] = t] /\ t.rated = thread[v].rated
                          /\ (t.status \in {"CLOSED", "deleted"} \/ thread[v].status = "OPEN")
  <2>1. CASE Resolve(v)
    <3>. DEFINE t == [thread[v] EXCEPT !.status = "RESOLVED", !.awaits = TRUE]
    <3>1. t \in Thread /\ t.rated = thread[v].rated /\ t.status = "RESOLVED"
      BY <1>1 DEF Thread
    <3>2. QED
      BY <2>1, <3>1 DEF Resolve, Act
  <2>2. CASE CloseConversation(v)
    <3>. DEFINE t == [thread[v] EXCEPT !.status = "CLOSED"]
    <3>1. t \in Thread /\ t.rated = thread[v].rated /\ t.status = "CLOSED"
      BY <1>1 DEF Thread
    <3>2. QED
      BY <2>2, <3>1 DEF CloseConversation, Act
  <2>3. CASE Delete(v)
    <3>. DEFINE t == [thread[v] EXCEPT !.status = "deleted"]
    <3>1. t \in Thread /\ t.rated = thread[v].rated /\ t.status = "deleted"
      BY <1>1 DEF Thread
    <3>2. QED
      BY <2>3, <3>1 DEF Delete, Act
  <2>4. QED
    BY <2>1, <2>2, <2>3
<1>3. /\ UNCHANGED <<box, mark, link, fetch, customer, message, credits, arrived, failed>>
      /\ excuse \subseteq excuse' /\ (Busy = {} \/ "edited" \in excuse')
  BY DEF Edited, Resolve, CloseConversation, Delete, Act, Excuse
<1>4. thread' \in Seq(Thread) /\ DOMAIN thread' = DOMAIN thread
  BY <1>2, RatedType
<1>5. TypeInv'
  BY <1>3, <1>4 DEF TypeInv, Shape
<1>6. QED
  BY <1>2, <1>3, <1>4, <1>5

\* Nothing has happened yet.
LEMMA InitTypes ==
  ASSUME Init
  PROVE  TypeInv
<1>1. \A S : <<>> \in Seq(S)
  OBVIOUS
<1>2. Rest \in FetchRow /\ \A f \in Fetcher : Shape(Rest)
  BY <1>1 DEF Rest, FetchRow, Shape
<1>3. QED
  BY <1>1, <1>2 DEF Init, TypeInv

\* Every step keeps the types.
LEMMA NextTypes ==
  ASSUME TypeInv, [Next]_vars
  PROVE  TypeInv'
<1>1. CASE UNCHANGED vars
  BY <1>1 DEF vars, TypeInv, Shape
<1>2. QED
  BY <1>1, MailboxTypes, ProcessTypes, ActTypes DEF Next

\* Marks, fetches, conversations and messages have their types in every state.
THEOREM MailboxTypeCorrect == Spec => []TypeInv
BY InitTypes, NextTypes, PTL DEF Spec
-----------------------------------------------------------------------------
(***************************************************************************)
(* What the steps do                                                       *)
(***************************************************************************)
\* The row that stores the first mail of a fetch.
RowOf(f) == [in |-> fetch[f].into, uid |-> First(f).uid, mail |-> First(f).mail.id]

\* A mail is given up, was stored before, is skipped, is stored, or has rated.
Settles(f) ==
  \/ message' = message
     /\ \/ First(f).mail.id \in failed'
        \/ First(f).mail.text = "no sender" \/ ~EmailChannel
        \/ At(f, "store") /\ Stored(fetch[f].into, First(f).uid)
        \/ At(f, "rate")
  \/ message' = Append(message, RowOf(f)) /\ At(f, "store")

\* A step of a fetch goes on with its mail, stores a rating, or is done with it.
LEMMA FetchSteps ==
  ASSUME TypeInv, NEW f \in Fetcher, Process(f) \/ StatementFails(f)
  PROVE  /\ ~At(f, "rest") /\ UNCHANGED <<box, link, excuse, arrived>>
         /\ failed \subseteq failed'
         /\ \A g \in Fetcher : g # f => fetch'[g] = fetch[g]
         /\ \/ /\ fetch'[f].list = fetch[f].list /\ UNCHANGED <<message, mark>>
               /\ fetch'[f].pc \notin {"rest", "rate"} /\ ~At(f, "rate")
               /\ At(f, "find") => EmailChannel
            \/ /\ fetch'[f].list = fetch[f].list /\ mark' = mark
               /\ message' = Append(message, RowOf(f))
               /\ At(f, "store") /\ fetch'[f].pc = "rate"
            \/ Done(f) /\ Settles(f)
<1>. USE DEF store, bounds, Excuse, Trouble, Steps
<1>1. ASSUME NEW pc, At(f, pc), pc # "rest"
      PROVE  ~At(f, "rest") /\ fetch[f].pc = pc
  BY <1>1 DEF At
<1>2. ASSUME NEW row, Goes(f, row), row.list = fetch[f].list, UNCHANGED <<message, mark>>,
             row.pc \notin {"rest", "rate"}, ~At(f, "rate"), At(f, "find") => EmailChannel
      PROVE  /\ \A g \in Fetcher : g # f => fetch'[g] = fetch[g]
             /\ fetch'[f].list = fetch[f].list /\ UNCHANGED <<message, mark>>
             /\ fetch'[f].pc \notin {"rest", "rate"} /\ ~At(f, "rate")
             /\ At(f, "find") => EmailChannel
  BY <1>2, GoesType
<1>3. ASSUME ~At(f, "rest"), Done(f)
      PROVE  \A g \in Fetcher : g # f => fetch'[g] = fetch[g]
  BY <1>3, DoneType
<1>4. fetch[f] \in FetchRow
  BY DEF TypeInv
<1>5. CASE FindCustomer(f)
  <2>1. /\ At(f, "find") /\ ~At(f, "rest") /\ ~At(f, "rate")
        /\ UNCHANGED <<box, link, excuse, arrived, failed, message>>
    BY <1>1, <1>5 DEF FindCustomer, At
  <2>2. CASE Done(f) /\ (First(f).mail.text = "no sender" \/ ~EmailChannel)
    BY <2>1, <2>2, <1>3 DEF Settles
  <2>3. ASSUME EmailChannel, mark' = mark, NEW row, Goes(f, row), row.list = fetch[f].list,
               row.pc \notin {"rest", "rate"}
        PROVE  /\ \A g \in Fetcher : g # f => fetch'[g] = fetch[g]
               /\ fetch'[f].list = fetch[f].list
               /\ fetch'[f].pc \notin {"rest", "rate"}
    BY <2>1, <2>3, <1>2
  <2>4. /\ [fetch[f] EXCEPT !.pc = "customer"].list = fetch[f].list
        /\ [fetch[f] EXCEPT !.pc = "customer"].pc = "customer"
        /\ \A c : /\ [fetch[f] EXCEPT !.pc = "thread", !.from = c].list = fetch[f].list
                  /\ [fetch[f] EXCEPT !.pc = "thread", !.from = c].pc = "thread"
    BY <1>4 DEF FetchRow
  <2>5. CASE EmailChannel /\ mark' = mark /\ Goes(f, [fetch[f] EXCEPT !.pc = "customer"])
    BY <2>1, <2>3, <2>4, <2>5
  <2>6. CASE EmailChannel /\ mark' = mark
              /\ \E c \in DOMAIN customer : Goes(f, [fetch[f] EXCEPT !.pc = "thread", !.from = c])
    BY <2>1, <2>3, <2>4, <2>6
  <2>7. QED
    BY <1>5, <2>2, <2>5, <2>6 DEF FindCustomer
<1>6. CASE CreateCustomer(f)
  <2>. DEFINE row == [fetch[f] EXCEPT !.pc = "thread", !.from = Len(customer')]
  <2>1. /\ At(f, "customer") /\ ~At(f, "rest") /\ ~At(f, "rate") /\ ~At(f, "find")
        /\ UNCHANGED <<box, link, excuse, arrived, failed, message, mark>> /\ Goes(f, row)
    BY <1>1, <1>6 DEF CreateCustomer, At
  <2>2. row.list = fetch[f].list /\ row.pc = "thread"
    BY <1>4 DEF FetchRow
  <2>3. QED
    BY <2>1, <2>2, <1>2
<1>7. CASE FindConversation(f)
  <2>1. /\ At(f, "thread") /\ ~At(f, "rest") /\ ~At(f, "rate") /\ ~At(f, "find")
        /\ UNCHANGED <<box, link, excuse, arrived, failed, message, mark>>
    BY <1>1, <1>7 DEF FindConversation, At
  <2>2. PICK row : Goes(f, row) /\ row.list = fetch[f].list /\ row.pc = "update"
    <3>1. ASSUME NEW v, NEW rates
          PROVE  LET row == [fetch[f] EXCEPT !.pc = "update", !.into = v, !.rates = rates]
                 IN  row.list = fetch[f].list /\ row.pc = "update"
      BY <1>4 DEF FetchRow
    <3>2. LET row == [fetch[f] EXCEPT !.pc = "update"]
          IN  row.list = fetch[f].list /\ row.pc = "update"
      BY <1>4 DEF FetchRow
    <3>3. CASE Goes(f, [fetch[f] EXCEPT !.pc = "update"])
      BY <3>2, <3>3
    <3>4. ASSUME NEW v, Goes(f, [fetch[f] EXCEPT !.pc = "update", !.into = v, !.rates = Awaits(v)])
          PROVE  \E row : Goes(f, row) /\ row.list = fetch[f].list /\ row.pc = "update"
      <4>1. PICK rates : rates = Awaits(v)
        OBVIOUS
      <4>2. QED
        BY <3>1, <3>4, <4>1
    <3>5. QED
      BY <1>7, <3>3, <3>4, FindsNewest
  <2>3. QED
    BY <2>1, <2>2, <1>2
<1>8. CASE UpdateConversation(f)
  <2>1. /\ At(f, "update") /\ ~At(f, "rest") /\ ~At(f, "rate") /\ ~At(f, "find")
        /\ UNCHANGED <<box, link, excuse, arrived, failed, message, mark>>
    BY <1>1, <1>8 DEF UpdateConversation, At
  <2>2. PICK row : Goes(f, row) /\ row.list = fetch[f].list /\ row.pc = "store"
    <3>1. ASSUME NEW v, NEW rates
          PROVE  LET new == [fetch[f] EXCEPT !.pc = "store", !.into = v]
                     old == [fetch[f] EXCEPT !.pc = "store", !.rates = rates]
                 IN  /\ new.list = fetch[f].list /\ new.pc = "store"
                     /\ old.list = fetch[f].list /\ old.pc = "store"
      BY <1>4 DEF FetchRow
    <3>2. ASSUME NEW v, Goes(f, [fetch[f] EXCEPT !.pc = "store", !.into = v])
          PROVE  \E row : Goes(f, row) /\ row.list = fetch[f].list /\ row.pc = "store"
      BY <3>1, <3>2
    <3>3. ASSUME NEW rates, Goes(f, [fetch[f] EXCEPT !.pc = "store", !.rates = rates])
          PROVE  \E row : Goes(f, row) /\ row.list = fetch[f].list /\ row.pc = "store"
      BY <3>1, <3>3
    <3>4. PICK v : v = Len(thread')
      OBVIOUS
    <3>5. PICK rates : rates = IF thread[fetch[f].into].status = "deleted" THEN fetch[f].rates
                               ELSE Awaits(fetch[f].into)
      OBVIOUS
    <3>6. \/ Goes(f, [fetch[f] EXCEPT !.pc = "store", !.into = v])
          \/ Goes(f, [fetch[f] EXCEPT !.pc = "store", !.rates = rates])
      BY <1>4, <1>8, <3>4, <3>5 DEF UpdateConversation, FetchRow
    <3>7. QED
      BY <3>2, <3>3, <3>6
  <2>3. QED
    BY <2>1, <2>2, <1>2
<1>9. CASE StoreMessage(f)
  <2>1. /\ At(f, "store") /\ ~At(f, "rest") /\ ~At(f, "rate") /\ ~At(f, "find")
        /\ UNCHANGED <<box, link, excuse, arrived>>
    BY <1>1, <1>9 DEF StoreMessage, At
  <2>2. CASE /\ Done(f) /\ message' = message
             /\ thread[fetch[f].into].status = "deleted" \/ Stored(fetch[f].into, First(f).uid)
             /\ failed' = IF thread[fetch[f].into].status = "deleted"
                            THEN failed \union {First(f).mail.id} ELSE failed
    BY <1>3, <2>1, <2>2 DEF Settles
  <2>3. CASE /\ message' = Append(message, RowOf(f)) /\ Done(f) /\ failed' = failed
    BY <1>3, <2>1, <2>3 DEF Settles
  <2>4. CASE /\ message' = Append(message, RowOf(f)) /\ failed' = failed /\ mark' = mark
             /\ Goes(f, [fetch[f] EXCEPT !.pc = "rate"])
    <3>1. /\ [fetch[f] EXCEPT !.pc = "rate"].list = fetch[f].list
          /\ [fetch[f] EXCEPT !.pc = "rate"].pc = "rate"
      BY <1>4 DEF FetchRow
    <3>2. QED
      BY <2>1, <2>4, <3>1, GoesType
  <2>5. QED
    BY <1>9, <2>2, <2>3, <2>4 DEF StoreMessage, RowOf
<1>10. CASE processRatingReply(f)
  <2>1. /\ At(f, "rate") /\ ~At(f, "rest") /\ Done(f)
        /\ UNCHANGED <<box, link, excuse, arrived, failed, message>>
    BY <1>1, <1>10 DEF processRatingReply
  <2>2. QED
    BY <1>3, <2>1 DEF Settles
<1>11. CASE StatementFails(f)
  BY <1>3, <1>11 DEF StatementFails, Settles, At
<1>12. QED
  BY <1>5, <1>6, <1>7, <1>8, <1>9, <1>10, <1>11 DEF Process
-----------------------------------------------------------------------------
(***************************************************************************)
(* No mail is missed                                                       *)
(***************************************************************************)
Has(id) == \E i \in DOMAIN message : message[i].mail = id

\* The mail needs no more work, and so do all up to a UID.
Taken(u) == box[u].text = "no sender" \/ Has(box[u].id) \/ box[u].id \in failed
Passed(n) == n <= Len(box) /\ \A u \in 1..n : Taken(u)

\* The mails of a list are in the mailbox, one after the other.
Current(list) ==
  \A i \in DOMAIN list :
    /\ list[i].uid = list[1].uid + (i - 1)
    /\ list[i].uid \in DOMAIN box /\ list[i].mail = box[list[i].uid]

\* A fetch works on the first mail that may not have been taken.
Working(f) ==
  ~At(f, "rest") =>
    /\ Current(fetch[f].list)
    /\ Passed(First(f).uid - 1)
    /\ At(f, "rate") => Passed(First(f).uid)

\* Up to the mark, and up to every stored UID, nothing is left behind.
Sure == excuse \cap {"deleted", "new mailbox"} = {}
MissedInv ==
  Sure =>
    /\ Passed(mark)
    /\ \A i \in DOMAIN message : Passed(message[i].uid)
    /\ \A f \in Fetcher : Working(f)

\* No conversation is gone that was not deleted.
NoneDeleted == "deleted" \notin excuse => \A v \in DOMAIN thread : thread[v].status # "deleted"

\* Nothing is taken back while the mailbox stays.
LEMMA Grows ==
  ASSUME TypeInv, TypeInv',
         \A u \in DOMAIN box : u \in DOMAIN box' /\ box'[u] = box[u],
         \A i \in DOMAIN message : i \in DOMAIN message' /\ message'[i] = message[i],
         failed \subseteq failed'
  PROVE  /\ \A n \in Int : Passed(n) => Passed(n)'
         /\ \A list \in Seq(Item) : Current(list) => Current(list)'
<1>1. \A id : Has(id) => Has(id)'
  BY DEF Has
<1>2. \A u \in DOMAIN box : Taken(u) => Taken(u)'
  BY <1>1 DEF Taken
<1>3. DOMAIN box = 1..Len(box) /\ DOMAIN box' = 1..Len(box') /\ Len(box) \in Nat /\ Len(box') \in Nat
  BY DEF TypeInv
<1>4. Len(box) <= Len(box')
  <2>1. CASE Len(box) = 0
    BY <1>3, <2>1
  <2>2. CASE Len(box) # 0
    <3>1. Len(box) \in DOMAIN box'
      BY <1>3, <2>2
    <3>2. QED
      BY <1>3, <3>1
  <2>3. QED
    BY <2>1, <2>2
<1>5. ASSUME NEW n \in Int, Passed(n) PROVE Passed(n)'
  <2>1. n <= Len(box') /\ \A u \in 1..n : u \in DOMAIN box
    BY <1>3, <1>4, <1>5 DEF Passed
  <2>2. QED
    BY <1>2, <1>5, <2>1 DEF Passed
<1>6. ASSUME NEW list \in Seq(Item), Current(list) PROVE Current(list)'
  BY <1>6 DEF Current
<1>7. QED
  BY <1>5, <1>6

\* A list that was taken above a mark is in the mailbox.
LEMMA BeginCurrent ==
  ASSUME TypeInv, NEW m \in Nat, Above(m) # <<>>
  PROVE  Current(Above(m)) /\ Above(m)[1].uid - 1 = m
<1>1. PICK list : list = Above(m)
  OBVIOUS
<1>2. list \in Seq(Item) /\ list # <<>>
  BY <1>1, AboveType DEF TypeInv
<1>3. ASSUME NEW i \in DOMAIN list
      PROVE  list[i].uid = m + i /\ m + i \in DOMAIN box /\ list[i].mail = box[m + i]
  BY <1>1, AboveType DEF TypeInv
<1>4. 1 \in DOMAIN list /\ \A i \in DOMAIN list : i \in Nat
  BY <1>2
<1>5. list[1].uid = m + 1
  BY <1>3, <1>4
<1>6. ASSUME NEW i \in DOMAIN list
      PROVE  /\ list[i].uid = list[1].uid + (i - 1)
             /\ list[i].uid \in DOMAIN box /\ list[i].mail = box[list[i].uid]
  <2>1. list[i].uid = m + i /\ m + i \in DOMAIN box /\ list[i].mail = box[m + i]
    BY <1>3
  <2>2. m + i = (m + 1) + (i - 1)
    BY <1>4
  <2>3. QED
    BY <1>5, <2>1, <2>2
<1>7. list[1].uid - 1 = m
  BY <1>5
<1>8. QED
  BY <1>1, <1>6, <1>7 DEF Current

\* What is left of a list that is in the mailbox is in it too.
LEMMA TailCurrent ==
  ASSUME TypeInv, NEW f \in Fetcher, ~At(f, "rest"), Done(f), Current(fetch[f].list), box' = box,
         ~At(f, "rest")'
  PROVE  Current(fetch[f].list)' /\ First(f)'.uid - 1 = First(f).uid
<1>1. PICK list, rest : list = fetch[f].list /\ rest = fetch'[f].list
  OBVIOUS
<1>2. /\ list \in Seq(Item) /\ list # <<>> /\ rest \in Seq(Item) /\ rest # <<>>
      /\ \A i \in DOMAIN rest : i + 1 \in DOMAIN list /\ rest[i] = list[i + 1]
      /\ First(f) = list[1] /\ First(f)' = rest[1] /\ list[1].uid \in Nat
  BY <1>1, FirstType, DoneType DEF At, First
<1>3. \A i \in DOMAIN list : /\ list[i].uid = list[1].uid + (i - 1)
                             /\ list[i].uid \in DOMAIN box /\ list[i].mail = box[list[i].uid]
  BY <1>1 DEF Current
<1>4. rest[1].uid = list[1].uid + 1
  <2>1. 1 \in DOMAIN rest /\ 1 + 1 = 2
    BY <1>2
  <2>2. 2 \in DOMAIN list /\ rest[1] = list[2]
    BY <1>2, <2>1
  <2>3. list[2].uid = list[1].uid + (2 - 1)
    BY <1>3, <2>2
  <2>4. QED
    BY <1>2, <2>2, <2>3
<1>5. ASSUME NEW i \in DOMAIN rest
      PROVE  /\ rest[i].uid = rest[1].uid + (i - 1)
             /\ rest[i].uid \in DOMAIN box /\ rest[i].mail = box[rest[i].uid]
  <2>1. i \in Nat
    BY <1>2
  <2>2. PICK j : j = i + 1
    OBVIOUS
  <2>3. j \in DOMAIN list /\ rest[i] = list[j]
    BY <1>2, <2>2
  <2>4. /\ list[j].uid = list[1].uid + (j - 1)
        /\ list[j].uid \in DOMAIN box /\ list[j].mail = box[list[j].uid]
    BY <1>3, <2>3
  <2>5. PICK base \in Nat : base = list[1].uid
    BY <1>2
  <2>6. base + (j - 1) = (base + 1) + (i - 1)
    BY <2>1, <2>2
  <2>7. list[j].uid = rest[1].uid + (i - 1)
    BY <1>4, <2>4, <2>5, <2>6
  <2>8. QED
    BY <2>3, <2>4, <2>7
<1>6. Current(fetch[f].list)'
  BY <1>1, <1>5 DEF Current
<1>7. QED
  BY <1>2, <1>4, <1>6

\* A row is added at the end, or none is.
LEMMA MessageGrows ==
  ASSUME TypeInv, NEW row \in Stamp, message' = message \/ message' = Append(message, row)
  PROVE  /\ \A i \in DOMAIN message : i \in DOMAIN message' /\ message'[i] = message[i]
         /\ \A i \in DOMAIN message' : i \in DOMAIN message \/ message'[i] = row
         /\ message' # message => \E i \in DOMAIN message' : message'[i] = row
<1>1. CASE message' = message
  BY <1>1
<1>2. CASE message' = Append(message, row)
  <2>1. /\ Len(message') = Len(message) + 1 /\ Len(message) \in Nat
        /\ \A i \in 1..Len(message) : message'[i] = message[i]
        /\ message'[Len(message) + 1] = row
    BY <1>2, AppendProperties DEF TypeInv
  <2>2. DOMAIN message = 1..Len(message) /\ DOMAIN message' = 1..Len(message')
    BY <1>2, AppendProperties DEF TypeInv
  <2>3. QED
    BY <2>1, <2>2
<1>3. QED
  BY <1>1, <1>2

\* A fetch that another one does not touch goes on where it was.
LEMMA WorkingStays ==
  ASSUME TypeInv, NEW g \in Fetcher, fetch'[g] = fetch[g], Working(g),
         \A n \in Int : Passed(n) => Passed(n)',
         \A list \in Seq(Item) : Current(list) => Current(list)'
  PROVE  Working(g)'
<1>. SUFFICES ASSUME ~At(g, "rest")' PROVE Working(g)'
  BY DEF Working
<1>1. ~At(g, "rest") /\ First(g)' = First(g)
  BY DEF At, First
<1>2. PICK list, n : list = fetch[g].list /\ n = First(g).uid
  OBVIOUS
<1>3. list \in Seq(Item) /\ n \in Nat /\ list = fetch'[g].list /\ n = First(g)'.uid
  BY <1>1, <1>2, FirstType
<1>4. /\ Current(list) /\ Passed(n - 1)
      /\ fetch[g].pc = "rate" => Passed(n)
  BY <1>1, <1>2 DEF Working, At
<1>5. /\ Current(list)' /\ Passed(n - 1)'
      /\ fetch[g].pc = "rate" => Passed(n)'
  <2>1. n - 1 \in Int /\ n \in Int
    BY <1>3
  <2>2. QED
    BY <1>3, <1>4, <2>1
<1>6. Current(fetch[g].list)' /\ Passed(First(g).uid - 1)'
  BY <1>3, <1>5 DEF Current, Passed
<1>7. (At(g, "rate") => Passed(First(g).uid))'
  BY <1>3, <1>5 DEF Passed, At
<1>8. QED
  BY <1>6, <1>7 DEF Working

\* The mail of a fetch is the one the mailbox has there.
LEMMA FirstInBox ==
  ASSUME TypeInv, NEW f \in Fetcher, ~At(f, "rest"), Current(fetch[f].list)
  PROVE  First(f).uid \in DOMAIN box /\ First(f).mail = box[First(f).uid]
BY FirstType DEF Current

\* A message has its type.
LEMMA StampType ==
  ASSUME TypeInv, NEW i \in DOMAIN message
  PROVE  message[i] \in Stamp /\ message[i].uid \in Int /\ message[i].mail \in Nat
<1>1. message[i] \in Stamp
  BY DEF TypeInv
<1>2. QED
  BY <1>1 DEF Stamp

\* The client knows the channel EMAIL, or every mail would be skipped.
Known == EmailChannel

\* A fetch leaves no mail behind that it has passed.
LEMMA FetchMissed ==
  ASSUME Known, TypeInv, TypeInv', MissedInv, NEW f \in Fetcher,
         Process(f) \/ StatementFails(f)
  PROVE  MissedInv'
<1>. SUFFICES ASSUME Sure'
              PROVE  /\ Passed(mark)'
                     /\ \A i \in DOMAIN message' : Passed(message[i].uid)'
                     /\ \A g \in Fetcher : Working(g)'
  BY DEF MissedInv
<1>1. /\ ~At(f, "rest") /\ UNCHANGED <<box, excuse>> /\ failed \subseteq failed'
      /\ \A g \in Fetcher : g # f => fetch'[g] = fetch[g]
  BY FetchSteps
<1>2. /\ Passed(mark)
      /\ \A i \in DOMAIN message : Passed(message[i].uid)
      /\ \A g \in Fetcher : Working(g)
  BY <1>1 DEF MissedInv, Sure
<1>3. RowOf(f) \in Stamp /\ RowOf(f).uid = First(f).uid /\ RowOf(f).mail = First(f).mail.id
  BY <1>1, FirstType DEF RowOf, Stamp, FetchRow
<1>4. message' = message \/ message' = Append(message, RowOf(f))
  BY FetchSteps DEF Settles
<1>5. /\ \A i \in DOMAIN message : i \in DOMAIN message' /\ message'[i] = message[i]
      /\ \A i \in DOMAIN message' : i \in DOMAIN message \/ message'[i] = RowOf(f)
      /\ message' # message => \E i \in DOMAIN message' : message'[i] = RowOf(f)
  BY <1>3, <1>4, MessageGrows
<1>6. /\ \A n \in Int : Passed(n) => Passed(n)'
      /\ \A list \in Seq(Item) : Current(list) => Current(list)'
  BY <1>1, <1>5, Grows
<1>7. /\ Current(fetch[f].list) /\ Passed(First(f).uid - 1)
      /\ At(f, "rate") => Passed(First(f).uid)
  BY <1>1, <1>2 DEF Working
<1>8. PICK u, id : u = First(f).uid /\ id = First(f).mail.id
  OBVIOUS
<1>9. u \in DOMAIN box /\ u \in DOMAIN box' /\ u \in Nat /\ First(f).mail = box[u] /\ box'[u] = box[u]
  BY <1>1, <1>7, <1>8, FirstInBox, FirstType
<1>10. ASSUME Taken(u)' PROVE Passed(u)'
  <2>1. Passed(u - 1)'
    BY <1>6, <1>7, <1>8, <1>9
  <2>2. u \in 1..Len(box') /\ Len(box') \in Nat
    BY <1>9 DEF TypeInv
  <2>3. \A w \in 1..u : w \in 1..(u - 1) \/ w = u
    BY <1>9
  <2>4. QED
    BY <1>10, <2>1, <2>2, <2>3 DEF Passed
<1>11. CASE Done(f) /\ Settles(f)
  <2>1. Passed(u)'
    <3>1. CASE First(f).mail.id \in failed'
      BY <1>9, <1>10, <3>1 DEF Taken
    <3>2. CASE First(f).mail.text = "no sender"
      BY <1>9, <1>10, <3>2 DEF Taken
    <3>3. CASE Stored(fetch[f].into, First(f).uid)
      BY <1>2, <1>6, <1>8, <1>9, <3>3 DEF Stored
    <3>4. CASE At(f, "rate")
      BY <1>6, <1>7, <1>8, <1>9, <3>4
    <3>5. CASE message' # message
      <4>1. Has(id)' /\ id = box'[u].id
        BY <1>3, <1>5, <1>8, <1>9, <3>5 DEF Has
      <4>2. QED
        BY <1>10, <4>1 DEF Taken
    <3>6. CASE message' = Append(message, RowOf(f))
      <4>1. message' # message
        <5>1. Len(message') = Len(message) + 1 /\ Len(message) \in Nat
          BY <1>3, <3>6, AppendProperties DEF TypeInv
        <5>2. QED
          BY <5>1
      <4>2. QED
        BY <3>5, <4>1
    <3>7. QED
      BY <1>11, <3>1, <3>2, <3>3, <3>4, <3>6 DEF Settles, Known
  <2>2. mark' = mark \/ mark' = u
    BY <1>1, <1>8, <1>11, DoneType
  <2>3. Passed(mark)'
    <3>1. mark \in Int
      BY DEF TypeInv
    <3>2. QED
      BY <1>2, <1>6, <2>1, <2>2, <3>1 DEF Passed
  <2>4. ASSUME NEW i \in DOMAIN message' PROVE Passed(message[i].uid)'
    <3>1. CASE i \in DOMAIN message
      <4>1. message[i].uid \in Int
        BY <3>1, StampType
      <4>2. QED
        BY <1>2, <1>5, <1>6, <3>1, <4>1 DEF Passed
    <3>2. CASE message'[i] = RowOf(f)
      BY <1>3, <1>8, <2>1, <3>2 DEF Passed
    <3>3. QED
      BY <1>5, <3>1, <3>2
  <2>5. Working(f)'
    <3>. SUFFICES ASSUME ~At(f, "rest")' PROVE Working(f)'
      BY DEF Working
    <3>1. Current(fetch[f].list)' /\ First(f)'.uid - 1 = u
      BY <1>1, <1>7, <1>8, <1>11, TailCurrent
    <3>2. ~At(f, "rate")'
      BY <1>1, <1>11, DoneType DEF At
    <3>3. QED
      BY <2>1, <3>1, <3>2 DEF Working, Passed
  <2>6. QED
    BY <1>1, <1>2, <1>6, <2>3, <2>4, <2>5, WorkingStays
<1>12. ASSUME fetch'[f].list = fetch[f].list, mark' = mark,
              \/ message' = message /\ ~At(f, "rate")'
              \/ message' = Append(message, RowOf(f))
       PROVE  /\ Passed(mark)'
              /\ \A i \in DOMAIN message' : Passed(message[i].uid)'
              /\ \A g \in Fetcher : Working(g)'
  <2>1. message' = Append(message, RowOf(f)) => Passed(u)'
    <3>. SUFFICES ASSUME message' = Append(message, RowOf(f)) PROVE Passed(u)'
      OBVIOUS
    <3>1. message' # message
      <4>1. Len(message') = Len(message) + 1 /\ Len(message) \in Nat
        BY <1>3, AppendProperties DEF TypeInv
      <4>2. QED
        BY <4>1
    <3>2. Has(id)' /\ id = box'[u].id
      BY <1>3, <1>5, <1>8, <1>9, <3>1 DEF Has
    <3>3. QED
      BY <1>10, <3>2 DEF Taken
  <2>2. Passed(mark)'
    <3>1. mark \in Int
      BY DEF TypeInv
    <3>2. QED
      BY <1>2, <1>6, <1>12, <3>1 DEF Passed
  <2>3. ASSUME NEW i \in DOMAIN message' PROVE Passed(message[i].uid)'
    <3>1. CASE i \in DOMAIN message
      <4>1. message[i].uid \in Int
        BY <3>1, StampType
      <4>2. QED
        BY <1>2, <1>5, <1>6, <3>1, <4>1 DEF Passed
    <3>2. CASE message'[i] = RowOf(f) /\ message' = Append(message, RowOf(f))
      BY <1>3, <1>8, <2>1, <3>2 DEF Passed
    <3>3. QED
      BY <1>5, <1>12, <3>1, <3>2
  <2>4. Working(f)'
    <3>1. Current(fetch[f].list)' /\ First(f)' = First(f)
      <4>1. fetch[f].list \in Seq(Item)
        BY <1>1, FirstType
      <4>2. PICK list \in Seq(Item) : list = fetch[f].list
        BY <4>1
      <4>3. Current(list)' /\ fetch'[f].list = list
        BY <1>6, <1>7, <1>12, <4>2
      <4>4. QED
        BY <1>12, <4>3 DEF Current, First
    <3>2. Passed(u - 1)' /\ (At(f, "rate")' => Passed(u)')
      BY <1>6, <1>7, <1>8, <1>9, <1>12, <2>1
    <3>3. QED
      BY <1>8, <3>1, <3>2 DEF Working, Passed
  <2>5. QED
    BY <1>1, <1>2, <1>6, <2>2, <2>3, <2>4, WorkingStays
<1>13. QED
  BY <1>11, <1>12, FetchSteps DEF At

\* What is no step of a fetch: the mark m is kept, 0 or read back, and a fetch
\* that begins takes what is above it.
Quiet(m) ==
  /\ excuse \subseteq excuse' /\ message' = message /\ failed' = failed
  /\ \A u \in DOMAIN box : u \in DOMAIN box' /\ box'[u] = box[u]
  /\ m = mark \/ m = 0 \/ \E i \in DOMAIN message : m = message[i].uid
  /\ \A g \in Fetcher : \/ fetch'[g] = fetch[g] \/ fetch'[g] = Rest
                        \/ box' = box /\ fetch'[g] = Begin(Above(m))

\* It leaves no mail behind either.
LEMMA QuietMissed ==
  ASSUME TypeInv, TypeInv', MissedInv, NEW m, m = mark', Quiet(m)
  PROVE  MissedInv'
<1>. USE DEF Quiet
<1>. SUFFICES ASSUME Sure'
              PROVE  /\ Passed(mark)'
                     /\ \A i \in DOMAIN message' : Passed(message[i].uid)'
                     /\ \A g \in Fetcher : Working(g)'
  BY DEF MissedInv
<1>1. /\ Passed(mark)
      /\ \A i \in DOMAIN message : Passed(message[i].uid)
      /\ \A g \in Fetcher : Working(g)
  <2>1. Sure
    BY DEF Sure
  <2>2. QED
    BY <2>1 DEF MissedInv
<1>2. /\ \A n \in Int : Passed(n) => Passed(n)'
      /\ \A list \in Seq(Item) : Current(list) => Current(list)'
  BY Grows
<1>3. m = mark'
  OBVIOUS
<1>4. m \in Nat /\ mark \in Nat
  BY <1>3 DEF TypeInv
<1>5. Passed(m)'
  <2>1. CASE m = mark
    BY <1>1, <1>2, <1>4, <2>1
  <2>2. CASE m = 0
    <3>1. Passed(0)
      BY DEF Passed, TypeInv
    <3>2. QED
      BY <1>2, <2>2, <3>1
  <2>3. ASSUME NEW i \in DOMAIN message, m = message[i].uid PROVE Passed(m)'
    BY <1>1, <1>2, <1>4, <2>3
  <2>4. QED
    BY <1>3, <2>1, <2>2, <2>3
<1>6. Passed(mark)'
  BY <1>3, <1>5 DEF Passed
<1>7. ASSUME NEW i \in DOMAIN message' PROVE Passed(message[i].uid)'
  <2>1. i \in DOMAIN message /\ message'[i] = message[i] /\ message[i].uid \in Int
    BY StampType
  <2>2. PICK n \in Int : n = message[i].uid
    BY <2>1
  <2>3. Passed(n)'
    BY <1>1, <1>2, <2>1, <2>2
  <2>4. QED
    BY <2>1, <2>2, <2>3 DEF Passed
<1>8. ASSUME NEW g \in Fetcher PROVE Working(g)'
  <2>1. CASE fetch'[g] = fetch[g]
    BY <1>1, <1>2, <2>1, WorkingStays
  <2>2. CASE fetch'[g] = Rest
    BY <2>2 DEF Rest, Working, At
  <2>3. CASE box' = box /\ fetch'[g] = Begin(Above(m)) /\ Above(m) # <<>>
    <3>1. PICK list : list = Above(m)
      OBVIOUS
    <3>2. list \in Seq(Item) /\ list # <<>> /\ Current(list) /\ list[1].uid - 1 = m
      BY <1>4, <2>3, <3>1, AboveType, BeginCurrent DEF TypeInv
    <3>3. fetch'[g].list = list /\ fetch'[g].pc # "rate"
      BY <2>3, <3>1, <3>2, BeginType
    <3>4. Current(list)'
      BY <1>2, <3>2
    <3>5. First(g)' = list[1]
      BY <3>2, <3>3 DEF First
    <3>6. QED
      BY <1>5, <3>2, <3>3, <3>4, <3>5 DEF Working, At, Current, Passed
  <2>4. CASE Above(m) = <<>> /\ fetch'[g] = Begin(Above(m))
    BY <2>4 DEF Begin, Rest, Working, At
  <2>5. QED
    BY <1>3, <2>1, <2>2, <2>3, <2>4
<1>9. QED
  BY <1>6, <1>7, <1>8

\* Every step keeps what MissedInv says.
LEMMA NextMissed ==
  ASSUME Known, TypeInv, TypeInv', MissedInv, [Next]_vars
  PROVE  MissedInv'
<1>. DEFINE Growth == \A u \in DOMAIN box : u \in DOMAIN box' /\ box'[u] = box[u]
            Same == excuse \subseteq excuse' /\ message' = message /\ failed' = failed
            Kind(m) == m = mark \/ m = 0 \/ \E i \in DOMAIN message : m = message[i].uid
            Begins(m) == \A g \in Fetcher : \/ fetch'[g] = fetch[g] \/ fetch'[g] = Rest
                                            \/ box' = box /\ fetch'[g] = Begin(Above(m))
<1>0. PICK m : m = mark'
  OBVIOUS
<1>1. ASSUME Growth, Same, Kind(m), Begins(m) PROVE MissedInv'
  <2>1. Quiet(m)
    BY <1>1 DEF Quiet
  <2>. HIDE DEF Growth, Same, Kind, Begins
  <2>2. QED
    BY <1>0, <2>1, QuietMissed
<1>. USE DEF store, bounds, Excuse, Trouble, Steps
<1>2. box' = box => Growth
  OBVIOUS
<1>3. fetch' = fetch => Begins(m)
  OBVIOUS
<1>4. CASE Arrive
  <2>1. PICK mail : box' = Append(box, mail)
    BY <1>4 DEF Arrive
  <2>2. Growth
    BY <2>1 DEF TypeInv
  <2>3. Same /\ fetch' = fetch /\ mark' = mark
    BY <1>4 DEF Arrive
  <2>. HIDE DEF Growth, Same, Begins
  <2>4. QED
    BY <1>0, <1>1, <1>3, <2>2, <2>3
<1>5. CASE Recreate
  BY <1>5 DEF Recreate, MissedInv, Sure
<1>6. CASE Connect
  <2>1. /\ box' = box /\ Same
        /\ fetch' = [fetch EXCEPT ![Loop] = Begin(Above(mark'))]
    BY <1>6 DEF Connect
  <2>2. Begins(m)
    BY <1>0, <2>1 DEF TypeInv
  <2>3. Kind(m)
    BY <1>0, <1>6, LastType DEF Connect, Kept
  <2>. HIDE DEF Growth, Same, Kind, Begins
  <2>4. QED
    BY <1>1, <1>2, <2>1, <2>2, <2>3
<1>7. CASE Listen \/ Close \/ UNCHANGED vars
  <2>1. box' = box /\ Same /\ fetch' = fetch /\ mark' = mark
    BY <1>7 DEF Listen, Close, vars
  <2>. HIDE DEF Growth, Same, Begins
  <2>2. QED
    BY <1>0, <1>1, <1>2, <1>3, <2>1
<1>8. CASE Crash
  <2>1. box' = box /\ Same /\ mark' = 0 /\ \A g \in Fetcher : fetch'[g] = Rest
    BY <1>8 DEF Crash
  <2>2. Begins(m)
    BY <2>1
  <2>. HIDE DEF Growth, Same, Begins
  <2>3. QED
    BY <1>0, <1>1, <1>2, <2>1, <2>2
<1>9. ASSUME NEW f \in Fetcher, fetchUnreadEmails(f) PROVE MissedInv'
  <2>1. /\ box' = box /\ Same /\ mark' = mark
        /\ fetch' = [fetch EXCEPT ![f] = Begin(Above(mark))]
    BY <1>9 DEF fetchUnreadEmails
  <2>2. Begins(m)
    BY <1>0, <2>1 DEF TypeInv
  <2>. HIDE DEF Growth, Same, Begins
  <2>3. QED
    BY <1>0, <1>1, <1>2, <2>1, <2>2
<1>10. ASSUME NEW f \in Fetcher, Process(f) \/ StatementFails(f) PROVE MissedInv'
  BY <1>10, FetchMissed
<1>11. ASSUME NEW v \in DOMAIN thread, Resolve(v) \/ CloseConversation(v) \/ Delete(v)
       PROVE  MissedInv'
  <2>1. box' = box /\ Same /\ fetch' = fetch /\ mark' = mark
    BY <1>11, ActTypes
  <2>. HIDE DEF Growth, Same, Begins
  <2>2. QED
    BY <1>0, <1>1, <1>2, <1>3, <2>1
<1>12. QED
  BY <1>4, <1>5, <1>6, <1>7, <1>8, <1>9, <1>10, <1>11 DEF Next

\* A conversation is gone only when it was deleted.
LEMMA NextNoneDeleted ==
  ASSUME TypeInv, NoneDeleted, [Next]_vars
  PROVE  NoneDeleted'
<1>. USE DEF store, bounds, Excuse, Trouble, Steps
<1>1. ASSUME thread' = thread, excuse \subseteq excuse' PROVE NoneDeleted'
  BY <1>1 DEF NoneDeleted
<1>2. CASE Arrive \/ Recreate \/ Connect \/ Listen \/ Close \/ Crash \/ UNCHANGED vars
  <2>1. thread' = thread /\ excuse \subseteq excuse'
    BY <1>2 DEF Arrive, Recreate, Connect, Listen, Close, Crash, vars
  <2>2. QED
    BY <1>1, <2>1
<1>3. ASSUME NEW f \in Fetcher,
             \/ fetchUnreadEmails(f) \/ FindCustomer(f) \/ CreateCustomer(f) \/ FindConversation(f)
             \/ StoreMessage(f) \/ StatementFails(f)
      PROVE  NoneDeleted'
  <2>1. thread' = thread /\ excuse \subseteq excuse'
    BY <1>3 DEF fetchUnreadEmails, FindCustomer, CreateCustomer, FindConversation,
                StoreMessage, StatementFails
  <2>2. QED
    BY <1>1, <2>1
<1>4. ASSUME NEW f \in Fetcher, UpdateConversation(f) PROVE NoneDeleted'
  <2>1. CASE thread' = thread /\ excuse' = excuse
    BY <1>1, <2>1
  <2>2. CASE excuse' = excuse /\
             thread' = Append(thread, [of |-> fetch[f].from, status |-> "OPEN", awaits |-> FALSE,
                                       rated |-> FALSE])
    BY <2>2 DEF NoneDeleted, TypeInv
  <2>3. QED
    BY <1>4, <2>1, <2>2 DEF UpdateConversation
<1>5. ASSUME NEW f \in Fetcher, processRatingReply(f) PROVE NoneDeleted'
  <2>1. excuse' = excuse /\ fetch[f].into \in DOMAIN thread
    BY <1>5 DEF processRatingReply, TypeInv, Shape, At
  <2>2. CASE thread' = thread
    BY <1>1, <2>1, <2>2
  <2>3. CASE thread' = [thread EXCEPT ![fetch[f].into].status = "CLOSED",
                                      ![fetch[f].into].awaits = FALSE, ![fetch[f].into].rated = TRUE]
    <3>1. \A v \in DOMAIN thread' : v \in DOMAIN thread /\ thread'[v].status \in {thread[v].status, "CLOSED"}
      BY <2>1, <2>3 DEF TypeInv, Thread
    <3>2. QED
      BY <2>1, <3>1 DEF NoneDeleted
  <2>4. QED
    BY <1>5, <2>2, <2>3 DEF processRatingReply
<1>6. ASSUME NEW v \in DOMAIN thread, Resolve(v) \/ CloseConversation(v) PROVE NoneDeleted'
  <2>1. PICK t : thread' = [thread EXCEPT ![v] = t] /\ excuse \subseteq excuse' /\ t.status # "deleted"
    <3>1. CASE Resolve(v)
      <4>. DEFINE t == [thread[v] EXCEPT !.status = "RESOLVED", !.awaits = TRUE]
      <4>1. t.status = "RESOLVED"
        BY DEF TypeInv, Thread
      <4>2. QED
        BY <3>1, <4>1 DEF Resolve, Act
    <3>2. CASE CloseConversation(v)
      <4>. DEFINE t == [thread[v] EXCEPT !.status = "CLOSED"]
      <4>1. t.status = "CLOSED"
        BY DEF TypeInv, Thread
      <4>2. QED
        BY <3>2, <4>1 DEF CloseConversation, Act
    <3>3. QED
      BY <1>6, <3>1, <3>2
  <2>2. QED
    BY <2>1 DEF NoneDeleted
<1>7. ASSUME NEW v \in DOMAIN thread, Delete(v) PROVE NoneDeleted'
  BY <1>7 DEF Delete, Act, NoneDeleted
<1>8. QED
  BY <1>2, <1>3, <1>4, <1>5, <1>6, <1>7 DEF Next, Process

\* "So we never miss emails": with the channel known, a mail that the mark has
\* passed is stored, unless a statement failed for it, its conversation was
\* deleted, it has no sender, or UIDs started again.
THEOREM MissedExplained ==
  ASSUME EmailChannel
  PROVE  Spec => []MissedIsExplained
<1>1. Known
  BY DEF Known
<1>2. ASSUME Init PROVE TypeInv /\ MissedInv /\ NoneDeleted
  <2>1. TypeInv
    BY <1>2, InitTypes
  <2>2. NoneDeleted
    BY <1>2 DEF Init, NoneDeleted
  <2>3. MissedInv
    BY <1>2 DEF Init, MissedInv, Passed, Working, At, Rest
  <2>4. QED
    BY <2>1, <2>2, <2>3
<1>3. ASSUME TypeInv, MissedInv, NoneDeleted, [Next]_vars
      PROVE  TypeInv' /\ MissedInv' /\ NoneDeleted'
  BY <1>1, <1>3, NextTypes, NextMissed, NextNoneDeleted
<1>4. ASSUME TypeInv, MissedInv, NoneDeleted PROVE MissedIsExplained
  <2>1. ASSUME NEW uid \in DOMAIN box, uid <= mark, Passed(mark) PROVE Taken(uid)
    <3>1. uid \in 1..mark
      BY <1>4, <2>1 DEF TypeInv
    <3>2. QED
      BY <2>1, <3>1 DEF Passed
  <2>. SUFFICES ASSUME NEW uid \in DOMAIN box, uid <= mark, box[uid].text # "no sender",
                       ~IsStored(box[uid]), Sure
                PROVE  box[uid].id \in failed
    BY DEF MissedIsExplained, Sure
  <2>2. Taken(uid)
    BY <1>4, <2>1 DEF MissedInv
  <2>3. Kept = DOMAIN message
    BY <1>4 DEF Kept, NoneDeleted, Sure, TypeInv
  <2>4. QED
    BY <2>2, <2>3 DEF Taken, Has, IsStored
<1>5. QED
  BY <1>2, <1>3, <1>4, PTL DEF Spec
-----------------------------------------------------------------------------
(***************************************************************************)
(* The staff is credited as often as conversations are rated               *)
(***************************************************************************)
\* Unless fetches have overlapped, at most one is under way.
Single == "overlap" \notin excuse
OneBusy == Single => \A f, g \in Fetcher : At(f, "rest") \/ At(g, "rest") \/ f = g

Rated == {v \in DOMAIN thread : thread[v].rated}

\* The conversation a fetch has found is still there, and waits as it did.
Promise(f) ==
  /\ At(f, "update") /\ fetch[f].into # 0 => thread[fetch[f].into].status # "deleted"
  /\ (At(f, "store") \/ At(f, "rate")) /\ fetch[f].rates => Awaits(fetch[f].into)

Clean == excuse \cap {"overlap", "edited"} = {}
CreditInv ==
  Clean =>
    /\ credits = Cardinality(Rated)
    /\ \A v \in DOMAIN thread : thread[v].rated => thread[v].status \in {"CLOSED", "deleted"}
    /\ \A f \in Fetcher : Promise(f)

\* A second fetch that begins is an overlap.
LEMMA NextOneBusy ==
  ASSUME TypeInv, OneBusy, [Next]_vars
  PROVE  OneBusy'
<1>. USE DEF store, bounds, Excuse, Trouble, Steps
<1>1. ASSUME excuse \subseteq excuse',
             \A g \in Fetcher : At(g, "rest") => At(g, "rest")'
      PROVE  OneBusy'
  BY <1>1 DEF OneBusy, Single
<1>2. ASSUME NEW f \in Fetcher, NEW row, fetch' = [fetch EXCEPT ![f] = row],
             excuse \subseteq excuse', Alone(f) \subseteq excuse'
      PROVE  OneBusy'
  <2>. SUFFICES ASSUME Single',
                       NEW g \in Fetcher, NEW h \in Fetcher, ~At(g, "rest")', ~At(h, "rest")', g # h
                PROVE  FALSE
    BY DEF OneBusy
  <2>1. Busy \subseteq {f}
    BY <1>2 DEF Alone, Single
  <2>2. \A k \in Fetcher : k # f => fetch'[k] = fetch[k]
    BY <1>2 DEF TypeInv
  <2>3. g = f /\ h = f
    BY <2>1, <2>2 DEF Busy, At
  <2>4. QED
    BY <2>3
<1>3. CASE Arrive \/ Recreate \/ Listen \/ Close \/ UNCHANGED vars
  <2>1. fetch' = fetch /\ excuse \subseteq excuse'
    BY <1>3 DEF Arrive, Recreate, Listen, Close, vars
  <2>2. QED
    BY <1>1, <2>1 DEF At
<1>4. CASE Connect
  <2>1. PICK row : fetch' = [fetch EXCEPT ![Loop] = row]
    BY <1>4 DEF Connect
  <2>2. excuse \subseteq excuse' /\ Alone(Loop) \subseteq excuse'
    BY <1>4 DEF Connect
  <2>3. QED
    BY <1>2, <2>1, <2>2, MailboxAssumption
<1>5. CASE Crash
  BY <1>1, <1>5 DEF Crash, At, Rest
<1>6. ASSUME NEW f \in Fetcher, fetchUnreadEmails(f) PROVE OneBusy'
  BY <1>2, <1>6 DEF fetchUnreadEmails
<1>7. ASSUME NEW f \in Fetcher, Process(f) \/ StatementFails(f) PROVE OneBusy'
  <2>1. /\ ~At(f, "rest") /\ excuse' = excuse
        /\ \A g \in Fetcher : g # f => fetch'[g] = fetch[g]
    BY <1>7, FetchSteps
  <2>2. QED
    BY <1>1, <2>1 DEF At
<1>8. ASSUME NEW v \in DOMAIN thread, Resolve(v) \/ CloseConversation(v) \/ Delete(v)
      PROVE  OneBusy'
  BY <1>1, <1>8, ActTypes DEF At
<1>9. QED
  BY <1>3, <1>4, <1>5, <1>6, <1>7, <1>8 DEF Next

\* Conversations are finitely many.
LEMMA RatedFinite ==
  ASSUME TypeInv
  PROVE  IsFiniteSet(Rated)
<1>1. Len(thread) \in Nat /\ DOMAIN thread = 1..Len(thread)
  BY DEF TypeInv
<1>2. IsFiniteSet(1..Len(thread))
  BY <1>1, FS_Interval
<1>3. QED
  BY <1>1, <1>2, FS_Subset DEF Rated

\* A step that changes neither conversations nor credits keeps the match.
LEMMA CreditKept ==
  ASSUME TypeInv, CreditInv, excuse \subseteq excuse',
         thread' = thread, credits' = credits,
         Clean' => \A g \in Fetcher : \/ fetch'[g] = fetch[g]
                                     \/ fetch'[g].pc \in {"rest", "find", "customer", "thread"}
                                     \/ Promise(g)'
  PROVE  CreditInv'
<1>. SUFFICES ASSUME Clean' PROVE CreditInv'
  BY DEF CreditInv
<1>1. Clean
  BY DEF Clean
<1>2. Rated' = Rated
  BY DEF Rated
<1>3. ASSUME NEW g \in Fetcher PROVE Promise(g)'
  <2>1. CASE fetch'[g] = fetch[g]
    BY <1>1, <2>1 DEF CreditInv, Promise, At, Awaits
  <2>2. CASE fetch'[g].pc \in {"rest", "find", "customer", "thread"}
    BY <2>2 DEF Promise, At
  <2>3. QED
    BY <2>1, <2>2
<1>4. QED
  BY <1>1, <1>2, <1>3 DEF CreditInv

\* The steps of a fetch keep the match: a rating counts for a conversation that
\* was not rated before.
LEMMA FetchCredit ==
  ASSUME TypeInv, TypeInv', OneBusy, CreditInv, NEW f \in Fetcher, Process(f) \/ StatementFails(f)
  PROVE  CreditInv'
<1>. USE DEF store, bounds, Excuse, Trouble, Steps
<1>1. /\ ~At(f, "rest") /\ excuse' = excuse
      /\ \A g \in Fetcher : g # f => fetch'[g] = fetch[g]
  BY FetchSteps
<1>2. ASSUME thread' = thread, credits' = credits,
             Clean => \/ fetch'[f].pc \in {"rest", "find", "customer", "thread"}
                      \/ Promise(f)'
      PROVE  CreditInv'
  BY <1>1, <1>2, CreditKept DEF Clean
<1>3. ASSUME Done(f) PROVE fetch'[f].pc \in {"rest", "find"}
  BY <1>1, <1>3, DoneType
<1>4. fetch[f] \in FetchRow /\ Shape(fetch[f])
  BY DEF TypeInv
<1>5. CASE FindCustomer(f)
  <2>1. ASSUME NEW row, Goes(f, row) PROVE fetch'[f] = row
    BY <2>1, GoesType
  <2>2. thread' = thread /\ credits' = credits
    BY <1>5 DEF FindCustomer
  <2>3. fetch'[f].pc \in {"rest", "find", "customer", "thread"}
    <3>1. /\ [fetch[f] EXCEPT !.pc = "customer"].pc = "customer"
          /\ \A c : [fetch[f] EXCEPT !.pc = "thread", !.from = c].pc = "thread"
      BY <1>4 DEF FetchRow
    <3>2. CASE Done(f)
      BY <1>3, <3>2
    <3>3. CASE Goes(f, [fetch[f] EXCEPT !.pc = "customer"])
      BY <2>1, <3>1, <3>3
    <3>4. ASSUME NEW c, Goes(f, [fetch[f] EXCEPT !.pc = "thread", !.from = c])
          PROVE  fetch'[f].pc = "thread"
      BY <2>1, <3>1, <3>4
    <3>5. QED
      BY <1>5, <3>2, <3>3, <3>4 DEF FindCustomer
  <2>4. QED
    BY <1>2, <2>2, <2>3
<1>6. CASE CreateCustomer(f)
  <2>1. thread' = thread /\ credits' = credits
        /\ Goes(f, [fetch[f] EXCEPT !.pc = "thread", !.from = Len(customer')])
    BY <1>6 DEF CreateCustomer
  <2>2. PICK n : n = Len(customer')
    OBVIOUS
  <2>3. [fetch[f] EXCEPT !.pc = "thread", !.from = n].pc = "thread"
    BY <1>4 DEF FetchRow
  <2>4. fetch'[f].pc = "thread"
    BY <2>1, <2>2, <2>3, GoesType
  <2>5. QED
    BY <1>2, <2>1, <2>4
<1>7. CASE FindConversation(f)
  <2>1. thread' = thread /\ credits' = credits /\ At(f, "thread")
    BY <1>7 DEF FindConversation
  <2>2. Promise(f)'
    <3>1. CASE Goes(f, [fetch[f] EXCEPT !.pc = "update"])
      <4>1. fetch[f].into = 0
        BY <1>4, <2>1 DEF Shape, At
      <4>2. fetch'[f].pc = "update" /\ fetch'[f].into = 0
        BY <1>4, <3>1, <4>1, GoesType DEF FetchRow
      <4>3. QED
        BY <4>2 DEF Promise, At
    <3>2. ASSUME NEW v \in DOMAIN thread, thread[v].status = "OPEN" \/ Awaits(v),
                 Goes(f, [fetch[f] EXCEPT !.pc = "update", !.into = v, !.rates = Awaits(v)])
          PROVE  Promise(f)'
      <4>1. PICK rates : rates = Awaits(v)
        OBVIOUS
      <4>2. fetch'[f] = [fetch[f] EXCEPT !.pc = "update", !.into = v, !.rates = rates]
        BY <3>2, <4>1, GoesType
      <4>3. fetch'[f].pc = "update" /\ fetch'[f].into = v
        BY <1>4, <4>2 DEF FetchRow
      <4>4. thread'[v].status # "deleted"
        BY <2>1, <3>2 DEF Awaits
      <4>5. QED
        BY <4>3, <4>4 DEF Promise, At
    <3>3. QED
      BY <1>7, <3>1, <3>2, FindsNewest
  <2>3. QED
    BY <1>2, <2>1, <2>2
<1>8. CASE UpdateConversation(f) /\ fetch[f].into = 0
  <2>. DEFINE new == [of |-> fetch[f].from, status |-> "OPEN", awaits |-> FALSE, rated |-> FALSE]
  <2>1. /\ At(f, "update") /\ thread' = Append(thread, new) /\ credits' = credits
        /\ Goes(f, [fetch[f] EXCEPT !.pc = "store", !.into = Len(thread')])
    BY <1>8 DEF UpdateConversation
  <2>2. ~fetch[f].rates
    <3>1. fetch[f].into \notin DOMAIN thread
      BY <1>8 DEF TypeInv
    <3>2. QED
      BY <1>4, <2>1, <3>1 DEF Shape, At
  <2>3. Promise(f)'
    <3>1. PICK n : n = Len(thread')
      OBVIOUS
    <3>. DEFINE row == [fetch[f] EXCEPT !.pc = "store", !.into = n]
    <3>2. row.pc = "store" /\ row.rates = fetch[f].rates
      BY <1>4 DEF FetchRow
    <3>3. fetch'[f] = row
      BY <2>1, <3>1, GoesType
    <3>. HIDE DEF row
    <3>4. QED
      BY <2>2, <3>2, <3>3 DEF Promise, At
  <2>4. /\ DOMAIN thread \subseteq DOMAIN thread'
        /\ \A v \in DOMAIN thread : thread'[v] = thread[v]
        /\ \A v \in DOMAIN thread' : v \in DOMAIN thread \/ thread'[v] = new
    BY <2>1 DEF TypeInv
  <2>5. Rated' = Rated
    BY <2>4 DEF Rated
  <2>6. ASSUME Clean, NEW g \in Fetcher, g # f PROVE Promise(g)'
    <3>1. fetch'[g] = fetch[g] /\ Promise(g)
      BY <1>1, <2>6 DEF CreditInv
    <3>2. At(g, "update") /\ fetch[g].into # 0 => fetch[g].into \in DOMAIN thread
      BY DEF TypeInv, Shape, At
    <3>3. At(g, "store") \/ At(g, "rate") => fetch[g].into \in DOMAIN thread
      BY DEF TypeInv, Shape, At
    <3>4. QED
      BY <2>4, <3>1, <3>2, <3>3 DEF Promise, At, Awaits
  <2>7. ASSUME Clean, NEW v \in DOMAIN thread', thread'[v].rated
        PROVE  thread'[v].status \in {"CLOSED", "deleted"}
    BY <2>4, <2>7 DEF CreditInv
  <2>8. QED
    BY <1>1, <2>1, <2>3, <2>5, <2>6, <2>7 DEF CreditInv, Clean
<1>9. CASE UpdateConversation(f) /\ fetch[f].into # 0
  <2>1. thread' = thread /\ credits' = credits /\ At(f, "update")
    BY <1>9 DEF UpdateConversation
  <2>2. ASSUME Clean PROVE Promise(f)'
    <3>1. thread[fetch[f].into].status # "deleted"
      BY <1>9, <2>1, <2>2 DEF CreditInv, Promise
    <3>2. PICK rates : rates = Awaits(fetch[f].into)
      OBVIOUS
    <3>3. Goes(f, [fetch[f] EXCEPT !.pc = "store", !.rates = rates])
      BY <1>9, <3>1, <3>2 DEF UpdateConversation
    <3>. DEFINE row == [fetch[f] EXCEPT !.pc = "store", !.rates = rates]
    <3>4. row.pc = "store" /\ row.rates = rates /\ row.into = fetch[f].into
      BY <1>4 DEF FetchRow
    <3>5. fetch'[f] = row
      BY <3>3, GoesType
    <3>. HIDE DEF row
    <3>6. QED
      BY <2>1, <3>2, <3>4, <3>5 DEF Promise, At, Awaits
  <2>3. QED
    BY <1>2, <2>1, <2>2
<1>10. CASE StoreMessage(f)
  <2>1. thread' = thread /\ credits' = credits /\ At(f, "store")
    BY <1>10 DEF StoreMessage
  <2>2. CASE Done(f)
    BY <1>2, <1>3, <2>1, <2>2
  <2>3. CASE Goes(f, [fetch[f] EXCEPT !.pc = "rate"])
    <3>1. fetch'[f].pc = "rate" /\ fetch'[f].rates = fetch[f].rates /\ fetch'[f].into = fetch[f].into
      BY <1>4, <2>3, GoesType DEF FetchRow
    <3>2. ASSUME Clean PROVE Promise(f)'
      BY <2>1, <3>1, <3>2 DEF CreditInv, Promise, At, Awaits
    <3>3. QED
      BY <1>2, <2>1, <3>2
  <2>4. QED
    BY <1>10, <2>2, <2>3 DEF StoreMessage
<1>11. CASE processRatingReply(f)
  <2>. SUFFICES ASSUME Clean' PROVE CreditInv'
    BY DEF CreditInv
  <2>1. Clean /\ Single
    BY <1>1 DEF Clean, Single
  <2>2. PICK v : v = fetch[f].into
    OBVIOUS
  <2>3. /\ At(f, "rate") /\ Done(f) /\ v \in DOMAIN thread /\ Awaits(v) /\ credits' = credits + 1
    BY <1>4, <1>11, <2>1, <2>2 DEF processRatingReply, Shape, At, CreditInv, Promise
  <2>4. thread' = [thread EXCEPT ![v].status = "CLOSED", ![v].awaits = FALSE, ![v].rated = TRUE]
    BY <1>11, <2>2, <2>3 DEF processRatingReply, Awaits
  <2>5. /\ DOMAIN thread' = DOMAIN thread /\ thread'[v].rated /\ thread'[v].status = "CLOSED"
        /\ \A w \in DOMAIN thread : w # v => thread'[w] = thread[w]
    <3>. DEFINE t == [thread[v] EXCEPT !.status = "CLOSED", !.awaits = FALSE, !.rated = TRUE]
    <3>1. t.rated = TRUE /\ t.status = "CLOSED"
      BY <2>3 DEF TypeInv, Thread
    <3>2. thread' = [thread EXCEPT ![v] = t]
      BY <2>3, <2>4 DEF TypeInv
    <3>. HIDE DEF t
    <3>3. QED
      BY <2>3, <3>1, <3>2 DEF TypeInv
  <2>6. v \notin Rated
    BY <2>1, <2>3 DEF CreditInv, Rated, Awaits
  <2>7. Rated' = Rated \union {v}
    BY <2>3, <2>5 DEF Rated
  <2>8. credits' = Cardinality(Rated')
    BY <2>1, <2>3, <2>6, <2>7, RatedFinite, FS_AddElement DEF CreditInv
  <2>9. ASSUME NEW w \in DOMAIN thread', thread'[w].rated
        PROVE  thread'[w].status \in {"CLOSED", "deleted"}
    BY <2>1, <2>5, <2>9 DEF CreditInv
  <2>10. ASSUME NEW g \in Fetcher PROVE Promise(g)'
    <3>1. CASE g = f
      BY <1>3, <2>3, <3>1 DEF Promise, At
    <3>2. CASE g # f
      BY <1>1, <2>1, <3>2 DEF OneBusy, Promise, At
    <3>3. QED
      BY <3>1, <3>2
  <2>11. QED
    BY <2>8, <2>9, <2>10 DEF CreditInv
<1>12. CASE StatementFails(f)
  <2>1. thread' = thread /\ credits' = credits /\ Done(f)
    BY <1>12 DEF StatementFails
  <2>2. QED
    BY <1>2, <1>3, <2>1
<1>13. QED
  BY <1>5, <1>6, <1>7, <1>8, <1>9, <1>10, <1>11, <1>12 DEF Process

\* Every step keeps the match.
LEMMA NextCredit ==
  ASSUME TypeInv, TypeInv', OneBusy, CreditInv, [Next]_vars
  PROVE  CreditInv'
<1>. USE DEF store, bounds, Excuse, Trouble, Steps
<1>1. CASE Arrive \/ Recreate \/ Listen \/ Close \/ UNCHANGED vars
  <2>1. thread' = thread /\ credits' = credits /\ fetch' = fetch /\ excuse \subseteq excuse'
    BY <1>1 DEF Arrive, Recreate, Listen, Close, vars
  <2>2. QED
    BY <2>1, CreditKept
<1>2. ASSUME thread' = thread, credits' = credits, excuse \subseteq excuse',
             NEW f \in Fetcher, NEW m \in Nat, box' = box,
             fetch' = [fetch EXCEPT ![f] = Begin(Above(m))]
      PROVE  CreditInv'
  <2>1. Above(m) \in Seq(Item)
    BY AboveType DEF TypeInv
  <2>2. Begin(Above(m)).pc \in {"rest", "find"}
    BY <2>1, BeginType
  <2>3. \A g \in Fetcher : fetch'[g] = fetch[g] \/ fetch'[g].pc \in {"rest", "find", "customer", "thread"}
    BY <1>2, <2>2 DEF TypeInv
  <2>4. QED
    BY <1>2, <2>3, CreditKept
<1>3. CASE Connect
  <2>1. /\ thread' = thread /\ credits' = credits /\ excuse \subseteq excuse' /\ box' = box
        /\ fetch' = [fetch EXCEPT ![Loop] = Begin(Above(mark'))]
    BY <1>3 DEF Connect
  <2>2. PICK m \in Nat : m = mark'
    BY DEF TypeInv
  <2>3. QED
    BY <1>2, <2>1, <2>2, MailboxAssumption
<1>4. CASE Crash
  <2>1. /\ thread' = thread /\ credits' = credits /\ excuse \subseteq excuse'
        /\ \A g \in Fetcher : fetch'[g].pc \in {"rest", "find", "customer", "thread"}
    BY <1>4 DEF Crash, Rest
  <2>2. QED
    BY <2>1, CreditKept
<1>5. ASSUME NEW f \in Fetcher, fetchUnreadEmails(f) PROVE CreditInv'
  <2>1. /\ thread' = thread /\ credits' = credits /\ excuse \subseteq excuse' /\ box' = box
        /\ fetch' = [fetch EXCEPT ![f] = Begin(Above(mark))] /\ mark \in Nat
    BY <1>5 DEF fetchUnreadEmails, TypeInv
  <2>2. QED
    BY <1>2, <2>1
<1>6. ASSUME NEW f \in Fetcher, Process(f) \/ StatementFails(f) PROVE CreditInv'
  BY <1>6, FetchCredit
<1>7. ASSUME NEW v \in DOMAIN thread, Resolve(v) \/ CloseConversation(v) \/ Delete(v)
      PROVE  CreditInv'
  <2>. SUFFICES ASSUME Clean' PROVE CreditInv'
    BY DEF CreditInv
  <2>1. PICK t \in Thread :
          /\ fetch' = fetch /\ credits' = credits /\ DOMAIN thread' = DOMAIN thread
          /\ excuse \subseteq excuse' /\ (Busy = {} \/ "edited" \in excuse')
          /\ thread' = [thread EXCEPT ![v] = t] /\ t.rated = thread[v].rated
          /\ (t.status \in {"CLOSED", "deleted"} \/ thread[v].status = "OPEN")
    BY <1>7, ActTypes
  <2>2. Clean /\ Busy = {}
    BY <2>1 DEF Clean
  <2>3. \A g \in Fetcher : fetch'[g].pc = "rest"
    BY <2>1, <2>2 DEF Busy
  <2>4. thread'[v] = t /\ \A w \in DOMAIN thread : w # v => thread'[w] = thread[w]
    BY <2>1 DEF TypeInv
  <2>5. Rated' = Rated
    BY <2>1, <2>4 DEF Rated
  <2>6. ASSUME NEW w \in DOMAIN thread', thread'[w].rated
        PROVE  thread'[w].status \in {"CLOSED", "deleted"}
    <3>1. CASE w # v
      BY <2>1, <2>2, <2>4, <2>6, <3>1 DEF CreditInv
    <3>2. CASE w = v
      <4>1. thread[v].status # "OPEN"
        BY <2>1, <2>2, <2>4, <2>6, <3>2 DEF CreditInv
      <4>2. QED
        BY <2>1, <2>4, <3>2, <4>1
    <3>3. QED
      BY <3>1, <3>2
  <2>7. QED
    BY <2>1, <2>2, <2>3, <2>5, <2>6 DEF CreditInv, Promise, At
<1>8. QED
  BY <1>1, <1>3, <1>4, <1>5, <1>6, <1>7 DEF Next

\* The staff is credited with as many ratings as conversations were given,
\* unless fetches overlapped or the conversation was changed meanwhile.
THEOREM CreditsMatch == Spec => []CreditsMatchRatings
<1>1. ASSUME Init PROVE TypeInv /\ OneBusy /\ CreditInv
  <2>1. TypeInv
    BY <1>1, InitTypes
  <2>2. OneBusy
    BY <1>1 DEF Init, OneBusy, At, Rest
  <2>3. CreditInv
    <3>1. Rated = {} /\ DOMAIN thread = {}
      BY <1>1 DEF Init, Rated
    <3>2. QED
      BY <1>1, <3>1, FS_EmptySet DEF Init, CreditInv, Promise, At, Rest
  <2>4. QED
    BY <2>1, <2>2, <2>3
<1>2. ASSUME TypeInv, OneBusy, CreditInv, [Next]_vars
      PROVE  TypeInv' /\ OneBusy' /\ CreditInv'
  BY <1>2, NextTypes, NextOneBusy, NextCredit
<1>3. CreditInv => CreditsMatchRatings
  BY DEF CreditInv, Rated, Clean, CreditsMatchRatings
<1>4. QED
  BY <1>1, <1>2, <1>3, PTL DEF Spec
-----------------------------------------------------------------------------
(***************************************************************************)
(* No mail is stored twice                                                 *)
(***************************************************************************)
\* The mails of a fetch are different ones that have arrived.
ListIds(list) ==
  /\ \A i \in DOMAIN list : list[i].mail.id <= arrived
  /\ \A i, j \in DOMAIN list : list[i].mail.id = list[j].mail.id => i = j

\* A mail has one UID at most, and what is stored has arrived.
IdInv ==
  /\ \A u \in DOMAIN box : box[u].id <= arrived
  /\ \A u, w \in DOMAIN box : box[u].id = box[w].id => u = w
  /\ \A i \in DOMAIN message : message[i].mail <= arrived
  /\ \A f \in Fetcher : ListIds(fetch[f].list)

\* The rows of a fetch's list, after a step.
LEMMA ListMoves ==
  ASSUME TypeInv, NEW f \in Fetcher, Process(f) \/ StatementFails(f)
  PROVE  \E k \in {0, 1} : \A i \in DOMAIN fetch'[f].list :
           i + k \in DOMAIN fetch[f].list /\ fetch'[f].list[i] = fetch[f].list[i + k]
<1>1. ~At(f, "rest")
  BY FetchSteps
<1>2. fetch[f].list \in Seq(Item)
  BY <1>1, FirstType
<1>3. CASE fetch'[f].list = fetch[f].list
  <2>1. \A i \in DOMAIN fetch[f].list : i + 0 = i
    BY <1>2
  <2>2. QED
    BY <1>3, <2>1
<1>4. CASE Done(f)
  BY <1>1, <1>4, DoneType
<1>5. QED
  BY <1>3, <1>4, FetchSteps

\* What is taken from the mailbox has its mails.
LEMMA AboveIds ==
  ASSUME TypeInv, IdInv, NEW m \in Nat
  PROVE  ListIds(Above(m))
<1>1. /\ Above(m) \in Seq(Item)
      /\ \A i \in DOMAIN Above(m) : m + i \in DOMAIN box /\ Above(m)[i].mail = box[m + i]
  BY AboveType DEF TypeInv
<1>2. ASSUME NEW i \in DOMAIN Above(m), NEW j \in DOMAIN Above(m),
             Above(m)[i].mail.id = Above(m)[j].mail.id
      PROVE  i = j
  <2>1. i \in Nat /\ j \in Nat
    BY <1>1
  <2>2. m + i = m + j
    BY <1>1, <1>2 DEF IdInv
  <2>3. QED
    BY <2>1, <2>2
<1>3. \A i \in DOMAIN Above(m) : Above(m)[i].mail.id <= arrived
  BY <1>1 DEF IdInv
<1>4. QED
  BY <1>2, <1>3 DEF ListIds

\* A list that begins is the one that was taken.
LEMMA BeginList ==
  ASSUME NEW list \in Seq(Item)
  PROVE  Begin(list).list = list
BY BeginType

\* Every step keeps mails apart.
LEMMA NextIds ==
  ASSUME TypeInv, TypeInv', IdInv, [Next]_vars
  PROVE  IdInv'
<1>. USE DEF store, bounds, Excuse, Trouble, Steps
<1>1. CASE Arrive
  <2>1. PICK mail : box' = Append(box, mail) /\ mail.id = arrived'
    <3>1. PICK from, text : box' = Append(box, [id |-> arrived', from |-> from, text |-> text])
      BY <1>1 DEF Arrive
    <3>2. [id |-> arrived', from |-> from, text |-> text].id = arrived'
      OBVIOUS
    <3>3. QED
      BY <3>1, <3>2
  <2>2. arrived' = arrived + 1 /\ arrived \in Nat /\ fetch' = fetch /\ message' = message
    BY <1>1 DEF Arrive, TypeInv
  <2>3. \A u \in DOMAIN box' : (u \in DOMAIN box /\ box'[u] = box[u])
                              \/ (u = Len(box) + 1 /\ box'[u] = mail)
    BY <2>1 DEF TypeInv
  <2>4. \A u \in DOMAIN box : box[u].id \in Nat /\ box[u].id <= arrived
    <3>1. \A u \in DOMAIN box : box[u] \in Mail
      BY DEF TypeInv
    <3>2. QED
      BY <3>1 DEF Mail, IdInv
  <2>5. \A u \in DOMAIN box' : box'[u].id <= arrived'
    BY <2>1, <2>2, <2>3, <2>4
  <2>6. \A u, w \in DOMAIN box' : box'[u].id = box'[w].id => u = w
    <3>1. \A u \in DOMAIN box : box[u].id # mail.id
      BY <2>1, <2>2, <2>4
    <3>2. QED
      BY <2>3, <3>1 DEF IdInv
  <2>7. \A i \in DOMAIN message' : message'[i].mail <= arrived'
    <3>1. \A i \in DOMAIN message : message[i].mail \in Nat /\ message[i].mail <= arrived
      BY StampType DEF IdInv
    <3>2. QED
      BY <2>2, <3>1
  <2>8. ASSUME NEW f \in Fetcher PROVE ListIds(fetch[f].list)'
    <3>1. PICK list : list = fetch[f].list
      OBVIOUS
    <3>2. list \in Seq(Item) /\ ListIds(list) /\ fetch'[f].list = list
      BY <2>2, <3>1 DEF TypeInv, FetchRow, IdInv
    <3>3. \A i \in DOMAIN list : list[i].mail.id \in Nat
      <4>1. \A i \in DOMAIN list : list[i] \in Item
        BY <3>2
      <4>2. \A i \in DOMAIN list : list[i].mail \in Mail
        BY <4>1 DEF Item
      <4>3. QED
        BY <4>2 DEF Mail
    <3>4. \A i \in DOMAIN list : list[i].mail.id <= arrived'
      BY <2>2, <3>2, <3>3 DEF ListIds
    <3>5. QED
      BY <3>2, <3>4 DEF ListIds
  <2>9. QED
    BY <2>5, <2>6, <2>7, <2>8 DEF IdInv
<1>2. ASSUME box' = box \/ box' = <<>>, message' = message, arrived' = arrived,
             \A g \in Fetcher : \/ fetch'[g].list = fetch[g].list \/ fetch'[g].list = <<>>
                               \/ \E m \in Nat : fetch'[g].list = Above(m)
      PROVE  IdInv'
  <2>1. ASSUME NEW g \in Fetcher PROVE ListIds(fetch[g].list)'
    <3>1. CASE fetch'[g].list = fetch[g].list
      BY <1>2, <3>1 DEF IdInv, ListIds
    <3>2. CASE fetch'[g].list = <<>>
      BY <3>2 DEF ListIds
    <3>3. ASSUME NEW m \in Nat, fetch'[g].list = Above(m)
          PROVE  ListIds(fetch[g].list)'
      <4>1. PICK list : list = Above(m)
        OBVIOUS
      <4>2. ListIds(list) /\ fetch'[g].list = list
        BY <3>3, <4>1, AboveIds
      <4>3. QED
        BY <1>2, <4>2 DEF ListIds
    <3>4. QED
      BY <1>2, <3>1, <3>2, <3>3
  <2>2. QED
    BY <1>2, <2>1 DEF IdInv
<1>3. CASE Recreate \/ Listen \/ Close \/ UNCHANGED vars
  <2>1. (box' = box \/ box' = <<>>) /\ message' = message /\ arrived' = arrived /\ fetch' = fetch
    BY <1>3 DEF Recreate, Listen, Close, vars
  <2>2. QED
    BY <1>2, <2>1
<1>4. CASE Crash
  <2>1. /\ box' = box /\ message' = message /\ arrived' = arrived
        /\ \A g \in Fetcher : fetch'[g].list = <<>>
    BY <1>4 DEF Crash, Rest
  <2>2. QED
    BY <1>2, <2>1
<1>5. ASSUME NEW f \in Fetcher, NEW m \in Nat, box' = box, message' = message, arrived' = arrived,
             fetch' = [fetch EXCEPT ![f] = Begin(Above(m))]
      PROVE  IdInv'
  <2>1. Begin(Above(m)).list = Above(m)
    BY AboveType, BeginList DEF TypeInv
  <2>2. \A g \in Fetcher : fetch'[g] = fetch[g] \/ fetch'[g] = Begin(Above(m))
    BY <1>5 DEF TypeInv
  <2>3. QED
    BY <1>2, <1>5, <2>1, <2>2
<1>6. CASE Connect
  <2>1. /\ box' = box /\ message' = message /\ arrived' = arrived
        /\ fetch' = [fetch EXCEPT ![Loop] = Begin(Above(mark'))]
    BY <1>6 DEF Connect
  <2>2. PICK m \in Nat : m = mark'
    BY DEF TypeInv
  <2>3. QED
    BY <1>5, <2>1, <2>2, MailboxAssumption
<1>7. ASSUME NEW f \in Fetcher, fetchUnreadEmails(f) PROVE IdInv'
  <2>1. /\ box' = box /\ message' = message /\ arrived' = arrived
        /\ fetch' = [fetch EXCEPT ![f] = Begin(Above(mark))] /\ mark \in Nat
    BY <1>7 DEF fetchUnreadEmails, TypeInv
  <2>2. QED
    BY <1>5, <2>1
<1>8. ASSUME NEW f \in Fetcher, Process(f) \/ StatementFails(f) PROVE IdInv'
  <2>1. /\ ~At(f, "rest") /\ box' = box /\ arrived' = arrived
        /\ \A g \in Fetcher : g # f => fetch'[g] = fetch[g]
        /\ message' = message \/ message' = Append(message, RowOf(f))
    BY <1>8, FetchSteps DEF Settles
  <2>2. PICK k \in {0, 1} : \A i \in DOMAIN fetch'[f].list :
           i + k \in DOMAIN fetch[f].list /\ fetch'[f].list[i] = fetch[f].list[i + k]
    BY <1>8, ListMoves
  <2>3. /\ RowOf(f) \in Stamp /\ RowOf(f).mail = fetch[f].list[1].mail.id
        /\ 1 \in DOMAIN fetch[f].list
    BY <2>1, FirstType DEF RowOf, Stamp, FetchRow
  <2>4. \A i \in DOMAIN message' : \/ i \in DOMAIN message /\ message'[i] = message[i]
                                   \/ message'[i] = RowOf(f)
    BY <2>1, <2>3, MessageGrows
  <2>5. ListIds(fetch[f].list)
    BY DEF IdInv
  <2>6. \A i \in DOMAIN message' : message'[i].mail <= arrived'
    BY <2>1, <2>3, <2>4, <2>5 DEF IdInv, ListIds
  <2>7. ListIds(fetch[f].list)'
    <3>1. PICK list, rest : list = fetch[f].list /\ rest = fetch'[f].list
      OBVIOUS
    <3>2. rest \in Seq(Item)
      BY <3>1 DEF TypeInv, FetchRow
    <3>3. \A i \in DOMAIN rest : rest[i].mail.id <= arrived
      BY <2>2, <2>5, <3>1 DEF ListIds
    <3>4. ASSUME NEW i \in DOMAIN rest, NEW j \in DOMAIN rest, rest[i].mail.id = rest[j].mail.id
          PROVE  i = j
      <4>1. i \in Nat /\ j \in Nat
        BY <3>2
      <4>2. i + k = j + k
        BY <2>2, <2>5, <3>1, <3>4 DEF ListIds
      <4>3. QED
        BY <4>1, <4>2
    <3>5. QED
      BY <2>1, <3>1, <3>3, <3>4 DEF ListIds
  <2>8. \A g \in Fetcher : ListIds(fetch[g].list)'
    BY <2>1, <2>7 DEF IdInv, ListIds
  <2>9. QED
    BY <2>1, <2>6, <2>8 DEF IdInv
<1>9. ASSUME NEW v \in DOMAIN thread, Resolve(v) \/ CloseConversation(v) \/ Delete(v)
      PROVE  IdInv'
  <2>1. box' = box /\ message' = message /\ arrived' = arrived /\ fetch' = fetch
    BY <1>9, ActTypes
  <2>2. QED
    BY <1>2, <2>1
<1>10. QED
  BY <1>1, <1>3, <1>4, <1>6, <1>7, <1>8, <1>9 DEF Next

\* The mails that are stored, and that none of them is after a UID.
Mails == {message[i].mail : i \in DOMAIN message}
Behind(n) == \A u \in DOMAIN box : box[u].id \in Mails => u <= n

\* Only the first mail of a list may be stored; if the mailbox is a new one,
\* none of its mails is in the list.
Ahead(list) ==
  \/ Current(list) /\ Behind(list[1].uid)
  \/ \A u \in DOMAIN box : box[u].id \notin Mails /\ \A i \in DOMAIN list : list[i].mail.id # box[u].id
Fresh(f) ==
  ~At(f, "rest") =>
    /\ \A i \in DOMAIN fetch[f].list : fetch[f].list[i].mail.id \in Mails => i = 1 /\ At(f, "rate")
    /\ Ahead(fetch[f].list)
NobodyBusy == \A f \in Fetcher : At(f, "rest")

\* Without overlaps, deletions and faults the mark and the last UID stored are
\* not below any mail that is stored.
Calm == excuse \cap {"overlap", "deleted", "fault"} = {}
DupInv ==
  Calm =>
    /\ \A i, j \in DOMAIN message : message[i].mail = message[j].mail => i = j
    /\ \A f \in Fetcher : Fresh(f)
    /\ NobodyBusy /\ link # "down" => Behind(mark)
    /\ \A u \in DOMAIN box : box[u].id \in Mails => message[Len(message)].uid \in u..Len(box)

\* Nothing is stored while the client does not know the channel.
ChannelInv ==
  message # <<>> \/ (\E f \in Fetcher : ~At(f, "rest") /\ ~At(f, "find")) => EmailChannel

\* What a fetch that has begun finds is not stored.
LEMMA TakeDup ==
  ASSUME TypeInv, IdInv, DupInv, Calm, NEW f \in Fetcher, NEW m \in Nat,
         fetch' = [fetch EXCEPT ![f] = Begin(Above(m))], NobodyBusy,
         box' = box, message' = message, mark' = m, Behind(m)
  PROVE  DupInv'
<1>1. /\ Above(m) \in Seq(Item)
      /\ \A i \in DOMAIN Above(m) : m + i \in DOMAIN box /\ Above(m)[i].mail = box[m + i]
  BY AboveType DEF TypeInv
<1>2. Mails' = Mails
  BY DEF Mails
<1>3. Behind(mark)'
  BY <1>2 DEF Behind
<1>4. ASSUME NEW g \in Fetcher, g # f PROVE Fresh(g)'
  BY <1>4 DEF NobodyBusy, Fresh, At, TypeInv
<1>5. Fresh(f)'
  <2>. SUFFICES ASSUME ~At(f, "rest")' PROVE Fresh(f)'
    BY DEF Fresh
  <2>1. fetch'[f] = Begin(Above(m))
    BY DEF TypeInv
  <2>2. Above(m) # <<>> /\ fetch'[f].list = Above(m)
    BY <1>1, <2>1, BeginType DEF At
  <2>3. Current(Above(m)) /\ Above(m)[1].uid - 1 = m
    BY <2>2, BeginCurrent
  <2>4. PICK list : list = Above(m)
    OBVIOUS
  <2>5. /\ list \in Seq(Item) /\ Current(list) /\ list[1].uid - 1 = m /\ 1 \in DOMAIN list
        /\ list[1] \in Item
    BY <1>1, <2>2, <2>3, <2>4
  <2>6. list[1].uid \in Nat /\ m <= list[1].uid
    BY <2>5 DEF Item
  <2>7. \A u \in DOMAIN box : u \in Nat
    BY DEF TypeInv
  <2>8. Behind(list[1].uid)
    BY <2>6, <2>7 DEF Behind
  <2>9. Ahead(list)'
    BY <1>2, <2>5, <2>8 DEF Ahead, Current, Behind
  <2>10. ASSUME NEW i \in DOMAIN list PROVE list[i].mail.id \notin Mails
    <3>1. i \in Nat /\ i >= 1 /\ m + i \in DOMAIN box /\ list[i].mail = box[m + i]
      BY <1>1, <2>4, <2>5
    <3>2. ~(m + i <= m)
      BY <3>1
    <3>3. QED
      BY <3>1, <3>2 DEF Behind
  <2>11. QED
    BY <1>2, <2>2, <2>4, <2>9, <2>10 DEF Fresh, Ahead, Current, Behind
<1>6. QED
  BY <1>2, <1>3, <1>4, <1>5 DEF DupInv

\* The mark that is read back is the last one stored.
LEMMA LastIsLast ==
  ASSUME TypeInv, NoneDeleted, ChannelInv, Calm, message # <<>>
  PROVE  loadLastProcessedUID = message[Len(message)].uid
<1>1. Kept = DOMAIN message /\ EmailChannel
  BY DEF Kept, NoneDeleted, TypeInv, ChannelInv, Calm
<1>2. DOMAIN message = 1..Len(message) /\ Len(message) \in Nat /\ Len(message) \in DOMAIN message
  BY DEF TypeInv
<1>3. PICK i \in Kept : loadLastProcessedUID = message[i].uid /\ \A j \in Kept : j <= i
  BY <1>1, <1>2, LastType
<1>4. PICK n : n = Len(message)
  OBVIOUS
<1>5. i = n
  <2>1. n <= i /\ i \in 1..n /\ n \in Nat
    BY <1>1, <1>2, <1>3, <1>4
  <2>2. QED
    BY <2>1
<1>6. QED
  BY <1>3, <1>4, <1>5

\* Only one fetch is under way: if it stands still, or none is, nobody is busy.
LEMMA AloneRests ==
  ASSUME NEW f \in Fetcher, At(f, "rest"), Alone(f) \subseteq excuse', Calm'
  PROVE  NobodyBusy
<1>1. Busy \subseteq {f}
  BY DEF Alone, Calm
<1>2. QED
  BY <1>1 DEF Busy, NobodyBusy, At

\* What is no step of a fetch stores no mail twice.
LEMMA QuietDup ==
  ASSUME TypeInv, TypeInv', IdInv, NoneDeleted, ChannelInv, DupInv,
         \/ Arrive \/ Recreate \/ Connect \/ Listen \/ Close \/ Crash
         \/ UNCHANGED vars
         \/ \E f \in Fetcher : fetchUnreadEmails(f)
         \/ \E v \in DOMAIN thread : Resolve(v) \/ CloseConversation(v) \/ Delete(v)
  PROVE  DupInv'
<1>. USE DEF store, bounds, Excuse, Trouble, Steps
<1>. SUFFICES ASSUME Calm' PROVE DupInv'
  BY DEF DupInv
<1>0. ASSUME excuse \subseteq excuse' PROVE Calm
  BY <1>0 DEF Calm
<1>1. ASSUME UNCHANGED <<box, message, fetch, mark>>, excuse \subseteq excuse',
             link' # "down" => link # "down"
      PROVE  DupInv'
  <2>1. Mails' = Mails /\ Calm
    BY <1>0, <1>1 DEF Mails
  <2>2. \A n : Behind(n)' <=> Behind(n)
    BY <1>1, <2>1 DEF Behind
  <2>3. \A f \in Fetcher : Fresh(f)'
    BY <1>1, <2>1 DEF DupInv, Fresh, At, Ahead, Behind, Current
  <2>4. NobodyBusy' /\ link' # "down" => Behind(mark)'
    BY <1>1, <2>1 DEF DupInv, NobodyBusy, At, Behind
  <2>5. QED
    BY <1>1, <2>1, <2>3, <2>4 DEF DupInv
<1>2. CASE Recreate
  <2>1. /\ box' = <<>> /\ message' = message /\ fetch' = fetch /\ Calm
    BY <1>0, <1>2 DEF Recreate
  <2>2. Mails' = Mails /\ DOMAIN box' = {}
    BY <2>1 DEF Mails
  <2>3. \A f \in Fetcher : Fresh(f)'
    BY <2>1, <2>2 DEF DupInv, Fresh, At, Ahead
  <2>4. QED
    BY <2>1, <2>2, <2>3 DEF DupInv, Behind
<1>3. CASE Listen \/ Close \/ UNCHANGED vars
  <2>1. UNCHANGED <<box, message, fetch, mark, excuse>>
    BY <1>3 DEF Listen, Close, vars
  <2>2. link' # "down" => link # "down"
    BY <1>3 DEF Listen, Close, Shut, vars
  <2>3. QED
    BY <1>1, <2>1, <2>2
<1>4. CASE Crash
  <2>1. /\ UNCHANGED <<box, message, excuse>> /\ link' = "down"
        /\ \A f \in Fetcher : fetch'[f].pc = "rest"
    BY <1>4 DEF Crash, Rest
  <2>2. Mails' = Mails /\ Calm
    BY <1>0, <2>1 DEF Mails
  <2>3. QED
    BY <2>1, <2>2 DEF DupInv, Fresh, At
<1>5. ASSUME NEW v \in DOMAIN thread, Resolve(v) \/ CloseConversation(v) \/ Delete(v)
      PROVE  DupInv'
  BY <1>1, <1>5, ActTypes
<1>6. ASSUME NEW f \in Fetcher, fetchUnreadEmails(f) PROVE DupInv'
  <2>1. /\ box' = box /\ message' = message /\ mark' = mark /\ link # "down"
        /\ fetch' = [fetch EXCEPT ![f] = Begin(Above(mark))]
        /\ At(f, "rest") /\ excuse \subseteq excuse' /\ Alone(f) \subseteq excuse'
    BY <1>6 DEF fetchUnreadEmails, At
  <2>2. NobodyBusy /\ Calm
    BY <1>0, <2>1, AloneRests
  <2>3. Behind(mark)
    BY <2>1, <2>2 DEF DupInv
  <2>4. QED
    BY <2>1, <2>2, <2>3, TakeDup DEF TypeInv
<1>7. CASE Connect
  <2>1. /\ box' = box /\ message' = message
        /\ fetch' = [fetch EXCEPT ![Loop] = Begin(Above(mark'))]
        /\ At(Loop, "rest") /\ excuse \subseteq excuse' /\ Alone(Loop) \subseteq excuse'
    BY <1>7 DEF Connect, At
  <2>2. NobodyBusy /\ Calm
    BY <1>0, <2>1, AloneRests, MailboxAssumption
  <2>3. mark' = IF loadLastProcessedUID >= Len(box) + 1 THEN 0 ELSE loadLastProcessedUID
    BY <1>7 DEF Connect, Calm
  <2>5. PICK m \in Nat : m = mark'
    BY DEF TypeInv
  <2>6. ASSUME NEW u \in DOMAIN box, box[u].id \in Mails PROVE u <= m
    <3>1. message # <<>>
      BY <2>6 DEF Mails
    <3>2. loadLastProcessedUID = message[Len(message)].uid
      BY <2>2, <3>1, LastIsLast
    <3>3. message[Len(message)].uid \in u..Len(box)
      BY <2>2, <2>6 DEF DupInv
    <3>4. PICK last : last = loadLastProcessedUID
      OBVIOUS
    <3>5. last \in u..Len(box) /\ u \in Nat /\ Len(box) \in Nat
      BY <3>2, <3>3, <3>4 DEF TypeInv
    <3>6. ~(last >= Len(box) + 1)
      BY <3>5
    <3>7. m = last
      BY <2>3, <2>5, <3>4, <3>6
    <3>8. QED
      BY <3>5, <3>7
  <2>7. Behind(m)
    BY <2>6 DEF Behind
  <2>8. fetch' = [fetch EXCEPT ![Loop] = Begin(Above(m))]
    BY <2>1, <2>5
  <2>9. QED
    BY <2>1, <2>2, <2>5, <2>7, <2>8, TakeDup, MailboxAssumption
<1>8. CASE Arrive
  <2>1. PICK mail : box' = Append(box, mail) /\ mail.id = arrived + 1
    <3>1. PICK from, text : box' = Append(box, [id |-> arrived', from |-> from, text |-> text])
      BY <1>8 DEF Arrive
    <3>2. [id |-> arrived', from |-> from, text |-> text].id = arrived'
      OBVIOUS
    <3>3. arrived' = arrived + 1
      BY <1>8 DEF Arrive
    <3>4. QED
      BY <3>1, <3>2, <3>3
  <2>2. UNCHANGED <<message, fetch, mark, link, excuse>>
    BY <1>8 DEF Arrive
  <2>3. Mails' = Mails /\ Calm
    BY <1>0, <2>2 DEF Mails
  <2>4. /\ DOMAIN box = 1..Len(box) /\ DOMAIN box' = 1..Len(box') /\ Len(box') = Len(box) + 1
        /\ Len(box) \in Nat
        /\ \A u \in DOMAIN box : box'[u] = box[u]
        /\ \A u \in DOMAIN box' : u \in DOMAIN box \/ box'[u] = mail
    BY <2>1 DEF TypeInv
  <2>5. mail.id \notin Mails
    <3>1. \A i \in DOMAIN message : message[i].mail \in Nat /\ message[i].mail <= arrived
      BY StampType DEF IdInv
    <3>2. arrived \in Nat
      BY DEF TypeInv
    <3>3. \A i \in DOMAIN message : message[i].mail # arrived + 1
      BY <3>1, <3>2
    <3>4. QED
      BY <2>1, <3>3 DEF Mails
  <2>6. \A u \in DOMAIN box' : box'[u].id \in Mails => u \in DOMAIN box /\ box[u].id \in Mails
    BY <2>4, <2>5
  <2>7. \A n : Behind(n) => Behind(n)'
    BY <2>3, <2>6 DEF Behind
  <2>8. \A u \in DOMAIN box' : box'[u].id \in Mails' => message'[Len(message')].uid \in u..Len(box')
    <3>. SUFFICES ASSUME NEW u \in DOMAIN box', box'[u].id \in Mails
                  PROVE  message[Len(message)].uid \in u..Len(box')
      BY <2>2, <2>3
    <3>1. message[Len(message)].uid \in u..Len(box)
      BY <2>3, <2>6 DEF DupInv
    <3>2. QED
      BY <2>4, <3>1
  <2>9. ASSUME NEW f \in Fetcher PROVE Fresh(f)'
    <3>. SUFFICES ASSUME ~At(f, "rest")' PROVE Fresh(f)'
      BY DEF Fresh
    <3>1. PICK list : list = fetch[f].list
      OBVIOUS
    <3>2. /\ ~At(f, "rest") /\ fetch'[f] = fetch[f] /\ Ahead(list) /\ list \in Seq(Item)
          /\ \A i \in DOMAIN list : list[i].mail.id \in Mails => i = 1 /\ At(f, "rate")
      BY <2>2, <2>3, <3>1, FirstType DEF At, DupInv, Fresh
    <3>3. \A i \in DOMAIN list : list[i].mail.id # mail.id
      <4>1. \A i \in DOMAIN list : list[i] \in Item
        BY <3>2
      <4>2. \A i \in DOMAIN list : list[i].mail \in Mail
        BY <4>1 DEF Item
      <4>3. \A i \in DOMAIN list : list[i].mail.id \in Nat /\ list[i].mail.id <= arrived
        BY <3>1, <4>2 DEF Mail, IdInv, ListIds
      <4>4. arrived \in Nat
        BY DEF TypeInv
      <4>5. QED
        BY <2>1, <4>3, <4>4
    <3>4. Current(list) => Current(list)'
      BY <2>4 DEF Current
    <3>5. Ahead(list)'
      BY <2>3, <2>4, <2>5, <2>7, <3>2, <3>3, <3>4 DEF Ahead
    <3>6. QED
      BY <2>3, <3>1, <3>2, <3>5 DEF Fresh, At, Ahead, Current, Behind
  <2>10. NobodyBusy' /\ link' # "down" => Behind(mark)'
    <3>1. NobodyBusy' /\ link' # "down" => Behind(mark)
      BY <2>2, <2>3 DEF DupInv, NobodyBusy, At
    <3>2. Behind(mark) => Behind(mark)'
      BY <2>2, <2>3, <2>6 DEF Behind
    <3>3. QED
      BY <3>1, <3>2
  <2>11. QED
    BY <2>2, <2>3, <2>8, <2>9, <2>10 DEF DupInv
<1>9. QED
  BY <1>2, <1>3, <1>4, <1>5, <1>6, <1>7, <1>8

\* A fetch stores no mail twice.
LEMMA FetchDup ==
  ASSUME TypeInv, TypeInv', IdInv, OneBusy, DupInv, NEW f \in Fetcher, Process(f) \/ StatementFails(f)
  PROVE  DupInv'
<1>. SUFFICES ASSUME Calm' PROVE DupInv'
  BY DEF DupInv
<1>1. /\ ~At(f, "rest") /\ box' = box /\ Calm /\ Single
      /\ \A g \in Fetcher : g # f => fetch'[g] = fetch[g]
  BY FetchSteps DEF Calm, Single
<1>2. PICK list, rest, first, id, n :
        /\ list = fetch[f].list /\ rest = fetch'[f].list
        /\ first = First(f) /\ id = First(f).mail.id /\ n = First(f).uid
  OBVIOUS
<1>3. /\ list \in Seq(Item) /\ rest \in Seq(Item) /\ 1 \in DOMAIN list
      /\ list[1] = first /\ id = first.mail.id /\ n = first.uid /\ n \in Nat
      /\ RowOf(f) \in Stamp /\ RowOf(f).mail = id /\ RowOf(f).uid = n
  BY <1>1, <1>2, FirstType DEF RowOf, Stamp, FetchRow, TypeInv
<1>4. message' = message \/ (message' = Append(message, RowOf(f)) /\ At(f, "store"))
  BY FetchSteps DEF Settles
<1>5. /\ \A i \in DOMAIN message : i \in DOMAIN message' /\ message'[i] = message[i]
      /\ \A i \in DOMAIN message' : i \in DOMAIN message \/ message'[i] = RowOf(f)
      /\ message' # message => \E i \in DOMAIN message' : message'[i] = RowOf(f)
  BY <1>3, <1>4, MessageGrows
<1>6. /\ \A i \in DOMAIN list : list[i].mail.id \in Mails => i = 1 /\ At(f, "rate")
      /\ Ahead(list)
  BY <1>1, <1>2 DEF DupInv, Fresh
<1>7. ListIds(list)
  BY <1>2 DEF IdInv
<1>8. At(f, "store") => id \notin Mails
  BY <1>3, <1>6 DEF At
<1>9. Mails' = Mails \/ (Mails' = Mails \union {id} /\ message' # message)
  <2>1. CASE message' = message
    BY <2>1 DEF Mails
  <2>2. CASE message' # message
    BY <1>3, <1>5, <2>2 DEF Mails
  <2>3. QED
    BY <2>1, <2>2
<1>10. \A i, j \in DOMAIN message' : message'[i].mail = message'[j].mail => i = j
  <2>1. CASE message' = message
    BY <1>1, <2>1 DEF DupInv
  <2>2. CASE message' = Append(message, RowOf(f)) /\ At(f, "store")
    <3>1. /\ Len(message) \in Nat /\ DOMAIN message = 1..Len(message)
          /\ Len(message') = Len(message) + 1 /\ DOMAIN message' = 1..Len(message')
          /\ message'[Len(message) + 1] = RowOf(f)
      BY <1>3, <2>2, AppendProperties DEF TypeInv
    <3>2. \A i \in DOMAIN message' : i \in DOMAIN message \/ i = Len(message) + 1
      BY <3>1
    <3>3. \A i \in DOMAIN message : message'[i].mail # id
      BY <1>5, <1>8, <2>2 DEF Mails
    <3>4. \A i, j \in DOMAIN message : message'[i].mail = message'[j].mail => i = j
      BY <1>1, <1>5 DEF DupInv
    <3>5. QED
      BY <1>3, <3>1, <3>2, <3>3, <3>4
  <2>3. QED
    BY <1>4, <2>1, <2>2
<1>11. \A u \in DOMAIN box : u \in Nat /\ u <= Len(box)
  BY DEF TypeInv
\* Either no mail of the mailbox is stored, or all that are come before n.
<1>12. \/ /\ \A u \in DOMAIN box : box[u].id \notin Mails'
          /\ \A u \in DOMAIN box : \A i \in DOMAIN list : list[i].mail.id # box[u].id
       \/ /\ Current(list) /\ n \in DOMAIN box
          /\ \A u \in DOMAIN box : box[u].id \in Mails' => u <= n
  <2>1. CASE Current(list) /\ Behind(list[1].uid)
    <3>1. n \in DOMAIN box /\ first.mail = box[n]
      BY <1>3, <2>1 DEF Current
    <3>2. \A u \in DOMAIN box : box[u].id = id => u = n
      BY <1>3, <3>1 DEF IdInv
    <3>3. \A u \in DOMAIN box : box[u].id \in Mails => u <= n
      BY <1>3, <2>1 DEF Behind
    <3>4. n <= n
      BY <1>3
    <3>5. QED
      BY <1>9, <2>1, <3>1, <3>2, <3>3, <3>4
  <2>2. CASE \A u \in DOMAIN box :
                box[u].id \notin Mails /\ \A i \in DOMAIN list : list[i].mail.id # box[u].id
    BY <1>3, <1>9, <2>2
  <2>3. QED
    BY <1>6, <2>1, <2>2 DEF Ahead
<1>13. \A u \in DOMAIN box' : box'[u].id \in Mails' => message'[Len(message')].uid \in u..Len(box')
  <2>. SUFFICES ASSUME NEW u \in DOMAIN box, box[u].id \in Mails'
                PROVE  message'[Len(message')].uid \in u..Len(box)
    BY <1>1
  <2>1. CASE message' = message
    <3>1. box[u].id \in Mails
      BY <2>1 DEF Mails
    <3>2. QED
      BY <1>1, <2>1, <3>1 DEF DupInv
  <2>2. CASE message' = Append(message, RowOf(f))
    <3>1. message'[Len(message')].uid = n
      BY <1>3, <2>2, AppendProperties DEF TypeInv
    <3>2. u <= n /\ n \in DOMAIN box
      BY <1>12
    <3>3. QED
      BY <1>3, <1>11, <3>1, <3>2 DEF TypeInv
  <2>3. QED
    BY <1>4, <2>1, <2>2
<1>14. ASSUME NEW g \in Fetcher, g # f PROVE Fresh(g)'
  BY <1>1, <1>14 DEF OneBusy, Fresh, At
<1>15. CASE Done(f)
  <2>1. /\ fetch'[f].pc \in {"rest", "find"} /\ (fetch'[f].pc = "rest" <=> rest = <<>>)
        /\ \A i \in DOMAIN rest : i + 1 \in DOMAIN list /\ rest[i] = list[i + 1]
        /\ n <= mark' /\ mark' \in Nat
    BY <1>1, <1>2, <1>15, DoneType
  <2>2. ASSUME NEW i \in DOMAIN rest PROVE rest[i].mail.id \notin Mails'
    <3>1. i \in Nat /\ i >= 1
      BY <1>3
    <3>2. PICK j : j = i + 1
      OBVIOUS
    <3>3. j # 1 /\ j \in DOMAIN list /\ rest[i] = list[j]
      BY <2>1, <3>1, <3>2
    <3>4. list[j].mail.id \notin Mails
      BY <1>6, <3>3
    <3>5. list[j].mail.id # id
      BY <1>3, <1>7, <3>3 DEF ListIds
    <3>6. QED
      BY <1>9, <3>3, <3>4, <3>5
  <2>3. Fresh(f)'
    <3>. SUFFICES ASSUME ~At(f, "rest")' PROVE Fresh(f)'
      BY DEF Fresh
    <3>1. CASE Current(list) /\ \A u \in DOMAIN box : box[u].id \in Mails' => u <= n
      <4>1. Current(fetch[f].list)' /\ First(f)'.uid - 1 = n
        BY <1>1, <1>2, <1>15, <3>1, TailCurrent
      <4>2. rest # <<>> /\ First(f)' = rest[1] /\ 1 \in DOMAIN rest /\ rest[1] \in Item
        BY <1>2, <1>3, <2>1 DEF At, First
      <4>3. rest[1].uid \in Nat /\ n <= rest[1].uid
        BY <1>3, <4>1, <4>2 DEF Item
      <4>4. \A u \in DOMAIN box : box[u].id \in Mails' => u <= rest[1].uid
        BY <1>3, <1>11, <3>1, <4>3
      <4>5. Behind(rest[1].uid)'
        BY <1>1, <4>4 DEF Behind
      <4>6. Ahead(fetch[f].list)'
        BY <1>2, <4>1, <4>5 DEF Ahead, Behind
      <4>7. QED
        BY <1>2, <2>2, <4>6 DEF Fresh
    <3>2. CASE /\ \A u \in DOMAIN box : box[u].id \notin Mails'
               /\ \A u \in DOMAIN box : \A i \in DOMAIN list : list[i].mail.id # box[u].id
      <4>1. \A u \in DOMAIN box : \A i \in DOMAIN rest : rest[i].mail.id # box[u].id
        BY <2>1, <3>2
      <4>2. Ahead(fetch[f].list)'
        BY <1>1, <1>2, <3>2, <4>1 DEF Ahead
      <4>3. QED
        BY <1>2, <2>2, <4>2 DEF Fresh
    <3>3. QED
      BY <1>12, <3>1, <3>2
  <2>4. Behind(mark)'
    <3>1. \A u \in DOMAIN box : box[u].id \in Mails' => u <= mark'
      BY <1>3, <1>11, <1>12, <2>1
    <3>2. QED
      BY <1>1, <3>1 DEF Behind
  <2>5. QED
    BY <1>10, <1>13, <1>14, <2>3, <2>4 DEF DupInv
<1>16. ASSUME rest = list, ~At(f, "rest")', At(f, "rate") => message' # message,
              message' # message => At(f, "rate")'
       PROVE  DupInv'
  <2>1. ~NobodyBusy'
    BY <1>16 DEF NobodyBusy
  <2>2. ASSUME NEW i \in DOMAIN list, list[i].mail.id \in Mails' PROVE i = 1 /\ At(f, "rate")'
    <3>1. CASE message' = message
      <4>1. list[i].mail.id \in Mails
        BY <2>2, <3>1 DEF Mails
      <4>2. QED
        BY <1>6, <1>16, <3>1, <4>1
    <3>2. CASE message' # message
      <4>1. At(f, "store")
        BY <1>4, <3>2
      <4>2. list[i].mail.id \notin Mails
        BY <1>6, <4>1 DEF At
      <4>3. list[i].mail.id = list[1].mail.id
        BY <1>3, <1>9, <2>2, <4>2
      <4>4. QED
        BY <1>3, <1>7, <1>16, <3>2, <4>3 DEF ListIds
    <3>3. QED
      BY <3>1, <3>2
  <2>3. Ahead(list)'
    <3>1. CASE Current(list) /\ \A u \in DOMAIN box : box[u].id \in Mails' => u <= n
      BY <1>1, <1>3, <3>1 DEF Ahead, Current, Behind
    <3>2. CASE /\ \A u \in DOMAIN box : box[u].id \notin Mails'
               /\ \A u \in DOMAIN box : \A i \in DOMAIN list : list[i].mail.id # box[u].id
      BY <1>1, <3>2 DEF Ahead
    <3>3. QED
      BY <1>12, <3>1, <3>2
  <2>4. Fresh(f)'
    BY <1>2, <1>16, <2>2, <2>3 DEF Fresh, Ahead, Current, Behind
  <2>5. QED
    BY <1>10, <1>13, <1>14, <2>1, <2>4 DEF DupInv
<1>17. CASE /\ fetch'[f].list = fetch[f].list /\ message' = message
            /\ fetch'[f].pc \notin {"rest", "rate"} /\ ~At(f, "rate")
  BY <1>2, <1>16, <1>17 DEF At
<1>18. CASE fetch'[f].list = fetch[f].list /\ At(f, "store") /\ fetch'[f].pc = "rate"
  BY <1>2, <1>16, <1>18 DEF At
<1>19. QED
  BY <1>15, <1>17, <1>18, FetchSteps

\* Messages are stored only while the client knows the channel.
LEMMA NextChannel ==
  ASSUME TypeInv, TypeInv', ChannelInv, [Next]_vars
  PROVE  ChannelInv'
<1>. USE DEF store, bounds, Excuse, Trouble, Steps
<1>1. ASSUME message' = message,
             \A g \in Fetcher : fetch'[g] = fetch[g] \/ fetch'[g].pc \in {"rest", "find"}
      PROVE  ChannelInv'
  BY <1>1 DEF ChannelInv, At
<1>2. CASE Arrive \/ Recreate \/ Listen \/ Close \/ UNCHANGED vars
  <2>1. message' = message /\ fetch' = fetch
    BY <1>2 DEF Arrive, Recreate, Listen, Close, vars
  <2>2. QED
    BY <1>1, <2>1
<1>3. CASE Crash
  BY <1>1, <1>3 DEF Crash, Rest
<1>4. ASSUME NEW f \in Fetcher, NEW m \in Nat, box' = box, message' = message,
             fetch' = [fetch EXCEPT ![f] = Begin(Above(m))]
      PROVE  ChannelInv'
  <2>1. Begin(Above(m)).pc \in {"rest", "find"}
    BY AboveType, BeginType DEF TypeInv
  <2>2. \A g \in Fetcher : fetch'[g] = fetch[g] \/ fetch'[g].pc \in {"rest", "find"}
    BY <1>4, <2>1 DEF TypeInv
  <2>3. QED
    BY <1>1, <1>4, <2>2
<1>5. CASE Connect
  <2>1. box' = box /\ message' = message /\ fetch' = [fetch EXCEPT ![Loop] = Begin(Above(mark'))]
    BY <1>5 DEF Connect
  <2>2. PICK m \in Nat : m = mark'
    BY DEF TypeInv
  <2>3. QED
    BY <1>4, <2>1, <2>2, MailboxAssumption
<1>6. ASSUME NEW f \in Fetcher, fetchUnreadEmails(f) PROVE ChannelInv'
  <2>1. box' = box /\ message' = message /\ fetch' = [fetch EXCEPT ![f] = Begin(Above(mark))]
    BY <1>6 DEF fetchUnreadEmails
  <2>2. QED
    BY <1>4, <2>1 DEF TypeInv
<1>7. ASSUME NEW f \in Fetcher, Process(f) \/ StatementFails(f) PROVE ChannelInv'
  <2>1. /\ ~At(f, "rest") /\ \A g \in Fetcher : g # f => fetch'[g] = fetch[g]
    BY <1>7, FetchSteps
  <2>2. CASE At(f, "find") => EmailChannel
    BY <2>1, <2>2, <1>7 DEF ChannelInv
  <2>3. CASE At(f, "find") /\ message' = message /\ Done(f)
    BY <1>1, <2>1, <2>3, DoneType
  <2>4. QED
    BY <1>7, <2>2, <2>3, FetchSteps DEF Settles, At
<1>8. ASSUME NEW v \in DOMAIN thread, Resolve(v) \/ CloseConversation(v) \/ Delete(v)
      PROVE  ChannelInv'
  BY <1>1, <1>8, ActTypes
<1>9. QED
  BY <1>2, <1>3, <1>5, <1>6, <1>7, <1>8 DEF Next

\* "We never insert a duplicate": only fetches that overlap, a deleted conversation
\* or an unread mark let a mail be stored twice.
THEOREM DuplicateExplained == Spec => []DuplicateIsExplained
<1>. DEFINE Inv == TypeInv /\ IdInv /\ OneBusy /\ NoneDeleted /\ ChannelInv /\ DupInv
<1>1. ASSUME Init PROVE Inv
  <2>1. TypeInv
    BY <1>1, InitTypes
  <2>2. OneBusy /\ NoneDeleted /\ ChannelInv
    BY <1>1 DEF Init, OneBusy, NoneDeleted, ChannelInv, At, Rest
  <2>3. IdInv
    BY <1>1 DEF Init, IdInv, ListIds, Rest
  <2>4. DupInv
    BY <1>1 DEF Init, DupInv, Fresh, Behind, At, Rest
  <2>5. QED
    BY <2>1, <2>2, <2>3, <2>4
<1>2. ASSUME Inv, [Next]_vars PROVE Inv'
  <2>1. TypeInv' /\ OneBusy' /\ NoneDeleted'
    BY <1>2, NextTypes, NextOneBusy, NextNoneDeleted
  <2>2. IdInv' /\ ChannelInv'
    BY <1>2, <2>1, NextIds, NextChannel
  <2>3. DupInv'
    <3>1. CASE \E f \in Fetcher : Process(f) \/ StatementFails(f)
      BY <1>2, <2>1, <3>1, FetchDup
    <3>2. CASE ~\E f \in Fetcher : Process(f) \/ StatementFails(f)
      BY <1>2, <2>1, <3>2, QuietDup DEF Next
    <3>3. QED
      BY <3>1, <3>2
  <2>4. QED
    BY <2>1, <2>2, <2>3
<1>3. Inv => DuplicateIsExplained
  <2>. SUFFICES ASSUME DupInv, Calm, NEW i \in Kept, NEW j \in Kept, message[i].mail = message[j].mail
                PROVE  i = j
    BY DEF DuplicateIsExplained, Calm
  <2>1. i \in DOMAIN message /\ j \in DOMAIN message
    BY DEF Kept
  <2>2. QED
    BY <2>1 DEF DupInv
<1>4. QED
  BY <1>1, <1>2, <1>3, PTL DEF Spec
=============================================================================
