---------------------------- MODULE WindowsProofs ----------------------------
(***************************************************************************)
(* What a window does over its connection to the shared worker: no reply   *)
(* answers another request than its own and the late ones are remembered,  *)
(* whatever is served, read, dropped or timed out, and however many        *)
(* requests are made; and a union that a window installs was attested,     *)
(* for any windows, unions and sources.                                    *)
(***************************************************************************)
EXTENDS Windows, WorkspaceSavesProofs

-----------------------------------------------------------------------------
(* The exchange: types *)

Ids == 1..MaxRequests
ExchangeKinds == Exchange!Kinds \cup {"none"}
Replies == [id : Ids, kind : ExchangeKinds]
Said(e) == e.kind # "notice"

ExchangeTypes ==
    /\ next \in 1..(MaxRequests + 1)
    /\ kind \in [Ids -> ExchangeKinds]
    /\ queue \in Seq(Ids)
    /\ wire \in Seq(Replies \cup {Exchange!Notice})
    /\ batch \in Seq(Replies \cup {Exchange!Notice})
    /\ exchange \in Ids \cup {0}
    /\ in_flight \in BOOLEAN /\ given_up \in BOOLEAN /\ closed \in BOOLEAN
    /\ stale \in Seq(Ids)
    /\ reply \in [Ids -> Ids \cup {0}]

-----------------------------------------------------------------------------
(* The exchange: the order of requests and of replies *)

\* Requests are numbered as they are made, and the worker answers them in turn:
\* what is read was asked before what is yet to come.
InTurn ==
    /\ exchange # 0 => in_flight /\ exchange = next - 1
    /\ exchange = 0 => batch = <<>>
    /\ \A j \in DOMAIN queue : queue[j] < next
    /\ \A j, k \in DOMAIN queue : j < k => queue[j] < queue[k]
    /\ \A j \in DOMAIN wire : Said(wire[j]) => wire[j].id < next
    /\ \A j, k \in DOMAIN wire :
          j < k /\ Said(wire[j]) /\ Said(wire[k]) => wire[j].id < wire[k].id
    /\ \A j \in DOMAIN wire, k \in DOMAIN queue :
          Said(wire[j]) => wire[j].id < queue[k]
    /\ \A j \in DOMAIN batch : Said(batch[j]) =>
          \A i \in Exchange!Outstanding : batch[j].id < i

\* The ids of the attempts that timed out, the newest of them, in their order.
StaleInTurn ==
    /\ Len(stale) <= MaxStale
    /\ \A j, k \in DOMAIN stale : j < k => stale[j] < stale[k]
    /\ \A j \in DOMAIN stale : stale[j] < next /\ (exchange # 0 => stale[j] < exchange)

-----------------------------------------------------------------------------
(* The exchange: what is remembered *)

\* No exchange was dropped that nobody finished.
Usable == ~given_up /\ ~closed /\ (in_flight => exchange # 0)

\* A reply yet to come is the running exchange's, or remembered, or was
\* forgotten for newer ones, which are all yet to come.
Remembers ==
    Usable =>
        /\ \A i \in Exchange!Outstanding, k \in DOMAIN stale :
              stale[k] > i => stale[k] \in Exchange!Outstanding
        /\ \A i \in Exchange!Outstanding :
              \/ i = exchange
              \/ \E k \in DOMAIN stale : stale[k] = i
              \/ Len(stale) = MaxStale /\ \A k \in DOMAIN stale : stale[k] > i
        /\ exchange # 0 /\ kind[exchange] = "recoverable" =>
              exchange \in Exchange!Outstanding

ExchangeInv ==
    ExchangeTypes /\ InTurn /\ StaleInTurn /\ Remembers /\ AnswersOwnRequest

-----------------------------------------------------------------------------
(* Replies taken off the wire *)

\* The events after the first n.
LEMMA Rest ==
  ASSUME NEW S, NEW s \in Seq(S), NEW n \in 0..Len(s)
  PROVE  LET t == SubSeq(s, n + 1, Len(s)) IN
         /\ t \in Seq(S) /\ Len(t) = Len(s) - n /\ DOMAIN t = 1..(Len(s) - n)
         /\ \A k \in DOMAIN t : n + k \in DOMAIN s /\ n + k > n /\ t[k] = s[n + k]
  OBVIOUS

\* The first n.
LEMMA First ==
  ASSUME NEW S, NEW s \in Seq(S), NEW n \in 0..Len(s)
  PROVE  LET t == SubSeq(s, 1, n) IN
         /\ t \in Seq(S) /\ Len(t) = n /\ DOMAIN t = 1..n
         /\ \A k \in DOMAIN t : k \in DOMAIN s /\ t[k] = s[k]
  OBVIOUS

LEMMA Elements ==
  ASSUME NEW S, NEW s \in Seq(S)
  PROVE  Len(s) \in Nat /\ DOMAIN s = 1..Len(s) /\ \A k \in DOMAIN s : s[k] \in S
  OBVIOUS

LEMMA Joined ==
  ASSUME NEW S, NEW s \in Seq(S), NEW t \in Seq(S)
  PROVE  /\ s \o t \in Seq(S) /\ DOMAIN (s \o t) = 1..(Len(s) + Len(t))
         /\ \A k \in 1..(Len(s) + Len(t)) :
               (s \o t)[k] = IF k <= Len(s) THEN s[k] ELSE t[k - Len(s)]
  OBVIOUS

LEMMA IdsAreNumbers == Ids \subseteq Nat /\ 0 \notin Ids /\ \A i \in Ids : i > 0
  BY DEF Ids

\* Who is outstanding.
LEMMA OutstandingMembers ==
  \A i : i \in Exchange!Outstanding <=>
     \/ \E k \in DOMAIN queue : queue[k] = i
     \/ \E k \in DOMAIN wire : Said(wire[k]) /\ wire[k].id = i
  BY DEF Exchange!Outstanding, Said

LEMMA OutstandingIds ==
  ASSUME ExchangeTypes, InTurn, NEW i \in Exchange!Outstanding
  PROVE  i \in Ids /\ i < next
<1>1. CASE \E k \in DOMAIN queue : queue[k] = i
  BY <1>1 DEF ExchangeTypes, InTurn
<1>2. CASE \E k \in DOMAIN wire : Said(wire[k]) /\ wire[k].id = i
  <2>1. PICK k \in DOMAIN wire : Said(wire[k]) /\ wire[k].id = i
    BY <1>2
  <2>2. wire[k] \in Replies
    BY <2>1 DEF ExchangeTypes, Said, Exchange!Notice
  <2> QED
    BY <2>1, <2>2 DEF InTurn, Replies
<1> QED
  BY <1>1, <1>2, OutstandingMembers

\* A read of n events: what is outstanding afterwards was outstanding before
\* and is younger than what was read, and nothing else is gone.
LEMMA ReadTakesTheOldest ==
  ASSUME ExchangeTypes, InTurn, NEW n \in 1..Len(wire),
         wire' = Exchange!Left(n), queue' = queue
  PROVE  /\ wire' \in Seq(Replies \cup {Exchange!Notice})
         /\ \A i \in Exchange!Outstanding' :
              /\ i \in Exchange!Outstanding
              /\ \A k \in 1..n : Said(wire[k]) => wire[k].id < i
         /\ \A i \in Exchange!Outstanding :
              i \in Exchange!Outstanding' \/ \E k \in 1..n : Said(wire[k]) /\ wire[k].id = i
         /\ \A j, k \in DOMAIN wire' :
              j < k /\ Said(wire'[j]) /\ Said(wire'[k]) => wire'[j].id < wire'[k].id
         /\ \A j \in DOMAIN wire' : Said(wire'[j]) => wire'[j].id < next
         /\ \A j \in DOMAIN wire', k \in DOMAIN queue' :
              Said(wire'[j]) => wire'[j].id < queue'[k]
<1> DEFINE S == Replies \cup {Exchange!Notice}
<1>0. wire \in Seq(S) /\ n \in 0..Len(wire) /\ queue \in Seq(Ids)
  BY DEF ExchangeTypes
<1>1. /\ wire' \in Seq(S) /\ DOMAIN wire' = 1..(Len(wire) - n)
      /\ \A k \in DOMAIN wire' : n + k \in DOMAIN wire /\ n + k > n /\ wire'[k] = wire[n + k]
  <2> HIDE DEF S
  <2> QED
    BY <1>0, Rest DEF Exchange!Left
<1>2. DOMAIN wire = 1..Len(wire) /\ Len(wire) \in Nat
  BY <1>0
<1> HIDE DEF S
<1>3. \A i : i \in Exchange!Outstanding' <=>
         \/ \E k \in DOMAIN queue : queue[k] = i
         \/ \E k \in DOMAIN wire' : Said(wire'[k]) /\ wire'[k].id = i
  BY DEF Exchange!Outstanding, Said
<1>4. ASSUME NEW i \in Exchange!Outstanding'
      PROVE  /\ i \in Exchange!Outstanding
             /\ \A k \in 1..n : Said(wire[k]) => wire[k].id < i
  <2>1. CASE \E k \in DOMAIN queue : queue[k] = i
    BY <2>1, <1>2, OutstandingMembers DEF InTurn
  <2>2. CASE \E k \in DOMAIN wire' : Said(wire'[k]) /\ wire'[k].id = i
    <3>1. PICK k \in DOMAIN wire' : Said(wire'[k]) /\ wire'[k].id = i
      BY <2>2
    <3>2. n + k \in DOMAIN wire /\ n + k > n /\ Said(wire[n + k]) /\ wire[n + k].id = i
      BY <3>1, <1>1
    <3>3. i \in Exchange!Outstanding
      BY <3>2, OutstandingMembers
    <3>4. ASSUME NEW j \in 1..n, Said(wire[j]) PROVE wire[j].id < i
      <4>1. j \in DOMAIN wire /\ j < n + k
        BY <1>2, <3>2, <1>1
      <4> QED
        BY <4>1, <3>2, <3>4 DEF InTurn
    <3> QED
      BY <3>3, <3>4
  <2> QED
    BY <2>1, <2>2, <1>3
<1>5. ASSUME NEW i \in Exchange!Outstanding
      PROVE  i \in Exchange!Outstanding' \/ \E k \in 1..n : Said(wire[k]) /\ wire[k].id = i
  <2>1. CASE \E k \in DOMAIN queue : queue[k] = i
    BY <2>1, <1>3
  <2>2. CASE \E k \in DOMAIN wire : Said(wire[k]) /\ wire[k].id = i
    <3>1. PICK k \in DOMAIN wire : Said(wire[k]) /\ wire[k].id = i
      BY <2>2
    <3>2. CASE k <= n
      BY <3>1, <3>2, <1>2
    <3>3. CASE k > n
      <4>1. k - n \in DOMAIN wire' /\ n + (k - n) = k
        BY <3>3, <1>1, <1>2
      <4>2. wire'[k - n] = wire[k]
        BY <4>1, <1>1
      <4> QED
        BY <4>1, <4>2, <3>1, <1>3
    <3> QED
      BY <3>2, <3>3, <1>2
  <2> QED
    BY <2>1, <2>2, OutstandingMembers
<1>6. ASSUME NEW j \in DOMAIN wire', Said(wire'[j])
      PROVE  /\ wire'[j].id < next
             /\ \A k \in DOMAIN queue : wire'[j].id < queue[k]
             /\ \A k \in DOMAIN wire' : j < k /\ Said(wire'[k]) => wire'[j].id < wire'[k].id
  <2>1. n + j \in DOMAIN wire /\ wire'[j] = wire[n + j]
    BY <1>1
  <2>2. ASSUME NEW k \in DOMAIN wire', j < k, Said(wire'[k]) PROVE wire'[j].id < wire'[k].id
    <3>1. n + k \in DOMAIN wire /\ wire'[k] = wire[n + k] /\ n + j < n + k
      BY <1>1, <2>2
    <3> QED
      BY <2>1, <2>2, <3>1, <1>6 DEF InTurn
  <2> QED
    BY <2>1, <2>2, <1>6 DEF InTurn
<1> QED
  BY <1>1, <1>4, <1>5, <1>6 DEF S

-----------------------------------------------------------------------------
(* The exchange: every step keeps the invariant *)

LEMMA RetireKeeps ==
  ASSUME ExchangeInv, NEW c, Exchange!Retire(c)
  PROVE  ExchangeInv'
<1> USE DEF Exchange!Retire, Exchange!None
<1>0. \A S : <<>> \in Seq(S)
  OBVIOUS
<1>1. ExchangeTypes'
  BY <1>0 DEF ExchangeInv, ExchangeTypes
<1>2. \A i : i \notin Exchange!Outstanding'
  BY DEF Exchange!Outstanding
<1>3. InTurn'
  BY <1>2 DEF ExchangeInv, InTurn
<1>4. StaleInTurn' /\ AnswersOwnRequest'
  BY DEF ExchangeInv, StaleInTurn, AnswersOwnRequest, Exchange!AnswersOwnRequest
<1>5. Remembers'
  BY DEF Remembers, Usable
<1> QED
  BY <1>1, <1>3, <1>4, <1>5 DEF ExchangeInv

LEMMA BeginKeeps ==
  ASSUME ExchangeInv, NEW k \in Exchange!Kinds, Exchange!Begin(k)
  PROVE  ExchangeInv'
<1>1. CASE in_flight
  BY <1>1, RetireKeeps DEF Exchange!Begin, Exchange!None
<1>2. CASE ~in_flight
  <2>1. /\ exchange = 0 /\ next \in Ids /\ next' = next + 1
        /\ kind' = [kind EXCEPT ![next] = k]
        /\ queue' = Append(queue, next) /\ exchange' = next /\ in_flight' = TRUE
        /\ UNCHANGED <<wire, batch, given_up, stale, closed, reply, culprit>>
    BY <1>2 DEF Exchange!Begin, Exchange!None, Exchange!Request, Ids
  <2>2. ExchangeTypes /\ InTurn /\ StaleInTurn /\ Remembers /\ AnswersOwnRequest
    BY DEF ExchangeInv
  <2>3. queue \in Seq(Ids) /\ queue' \in Seq(Ids)
        /\ DOMAIN queue = 1..Len(queue) /\ DOMAIN queue' = 1..(Len(queue) + 1)
        /\ Len(queue) \in Nat
        /\ (\A j \in DOMAIN queue : queue'[j] = queue[j]) /\ queue'[Len(queue) + 1] = next
    BY <2>1, <2>2 DEF ExchangeTypes
  <2>n. next \in Nat \ {0} /\ (\A j \in DOMAIN queue : queue[j] \in Nat)
        /\ (\A j \in DOMAIN stale : stale[j] \in Nat)
    <3>1. next \in Nat \ {0}
      BY <2>2 DEF ExchangeTypes
    <3>2. \A j \in DOMAIN queue : queue[j] \in Nat
      BY <2>3, Elements, IdsAreNumbers
    <3>3. \A j \in DOMAIN stale : stale[j] \in Nat
      BY <2>2, Elements, IdsAreNumbers DEF ExchangeTypes
    <3> QED
      BY <3>1, <3>2, <3>3
  <2>4. ExchangeTypes'
    BY <2>1, <2>2, <2>3, WindowsAssumption DEF ExchangeTypes, Ids, ExchangeKinds
  <2>5. \A i : i \in Exchange!Outstanding' <=> i \in Exchange!Outstanding \/ i = next
    <3>1. \A i : i \in Exchange!Outstanding' <=>
             \/ \E j \in DOMAIN queue' : queue'[j] = i
             \/ \E j \in DOMAIN wire : Said(wire[j]) /\ wire[j].id = i
      BY <2>1 DEF Exchange!Outstanding, Said
    <3> QED
      BY <3>1, <2>3, OutstandingMembers
  <2>6. InTurn'
    <3>1. batch' = <<>>
      BY <2>1, <2>2 DEF InTurn
    <3>2. \A j \in DOMAIN queue : queue[j] < next /\ next \in Nat /\ queue[j] \in Nat
      BY <2>2, <2>n DEF InTurn
    <3>3. \A j \in DOMAIN queue' : queue'[j] < next'
      <4>1. \A j \in DOMAIN queue' : j \in DOMAIN queue \/ j = Len(queue) + 1
        BY <2>3
      <4>2. \A j \in DOMAIN queue' : queue'[j] = next \/ (queue'[j] \in Nat /\ queue'[j] < next)
        BY <4>1, <2>3, <3>2
      <4> QED
        BY <4>2, <2>n, <2>1
    <3>4. \A i, j \in DOMAIN queue' : i < j => queue'[i] < queue'[j]
      BY <3>2, <2>2, <2>3 DEF InTurn
    <3>5. \A j \in DOMAIN wire : Said(wire[j]) => wire[j].id < next /\ wire[j].id \in Nat
      <4>1. \A j \in DOMAIN wire : Said(wire[j]) => wire[j] \in Replies
        BY <2>2 DEF ExchangeTypes, Said, Exchange!Notice
      <4> QED
        BY <4>1, <2>2 DEF InTurn, Replies, Ids
    <3>6. \A j \in DOMAIN wire' : Said(wire'[j]) => wire'[j].id < next'
      BY <3>5, <2>1, <2>n
    <3>7. \A i \in DOMAIN wire', j \in DOMAIN queue' : Said(wire'[i]) => wire'[i].id < queue'[j]
      BY <3>5, <2>1, <2>2, <2>3 DEF InTurn
    <3>8. exchange' # 0 /\ exchange' = next' - 1
      BY <2>1 DEF Ids
    <3> QED
      BY <3>1, <3>3, <3>4, <3>6, <3>7, <3>8, <2>1, <2>2 DEF InTurn
  <2>7. StaleInTurn'
    <3>1. \A j \in DOMAIN stale : stale[j] \in Ids
      BY <2>2 DEF ExchangeTypes
    <3> QED
      BY <3>1, <2>1, <2>2 DEF StaleInTurn, Ids
  <2>8. Remembers'
    <3>1. Usable' => Usable
      BY <1>2, <2>1 DEF Usable
    <3>2. \A j \in DOMAIN stale : stale[j] < next /\ stale[j] \in Ids
      BY <2>2 DEF StaleInTurn, ExchangeTypes
    <3>3. Usable' => \A i \in Exchange!Outstanding', j \in DOMAIN stale :
                stale[j] > i => stale[j] \in Exchange!Outstanding'
      <4>1. CASE Usable
        <5>1. \A i \in Exchange!Outstanding, j \in DOMAIN stale :
                stale[j] > i => stale[j] \in Exchange!Outstanding
          BY <2>2, <4>1 DEF Remembers
        <5> QED
          BY <5>1, <2>n, <2>5, <3>2
      <4> QED
        BY <4>1, <3>1
    <3>4. Usable' => \A i \in Exchange!Outstanding' :
              \/ i = next
              \/ \E j \in DOMAIN stale : stale[j] = i
              \/ Len(stale) = MaxStale /\ \A j \in DOMAIN stale : stale[j] > i
      <4>1. ASSUME Usable', NEW i \in Exchange!Outstanding
            PROVE  \/ \E j \in DOMAIN stale : stale[j] = i
                   \/ Len(stale) = MaxStale /\ \A j \in DOMAIN stale : stale[j] > i
        <5>1. i # 0
          BY <2>2, OutstandingIds, IdsAreNumbers
        <5> QED
          BY <4>1, <5>1, <3>1, <2>1, <2>2 DEF Remembers
      <4> QED
        BY <4>1, <2>5
    <3>5. next \in Exchange!Outstanding'
      BY <2>5
    <3> QED
      BY <2>1, <3>3, <3>4, <3>5 DEF Remembers
  <2> QED
    BY <2>1, <2>2, <2>4, <2>6, <2>7, <2>8
    DEF ExchangeInv, AnswersOwnRequest, Exchange!AnswersOwnRequest
<1> QED
  BY <1>1, <1>2 DEF ExchangeInv, ExchangeTypes

\* The answer to the newest request is the last that is yet to come.
LEMMA AnsweredKeeps ==
  ASSUME ExchangeInv, exchange # 0, NEW rest, Exchange!Answered(rest, exchange),
         rest \in Seq(Replies \cup {Exchange!Notice}),
         \A i : i \notin Exchange!Outstanding'
  PROVE  ExchangeInv'
<1> USE DEF Exchange!Answered, Exchange!None
<1>0. ExchangeTypes /\ InTurn /\ StaleInTurn /\ AnswersOwnRequest
  BY DEF ExchangeInv
<1>1. ExchangeTypes'
  <2>1. \A S : <<>> \in Seq(S)
    OBVIOUS
  <2>2. reply' \in [Ids -> Ids \cup {0}] /\ wire' \in Seq(Replies \cup {Exchange!Notice})
        /\ exchange' = 0 /\ in_flight' = FALSE
    BY <1>0 DEF ExchangeTypes
  <2> QED
    BY <2>1, <2>2, <1>0 DEF ExchangeTypes
<1>2. (\A j : j \notin DOMAIN queue') /\ (\A j \in DOMAIN wire' : ~Said(wire'[j]))
  BY DEF Exchange!Outstanding, Said
<1>3. InTurn'
  BY <1>2, <1>0 DEF InTurn
<1>4. StaleInTurn'
  BY <1>0 DEF StaleInTurn
<1>5. Remembers'
  BY DEF Remembers
<1>6. AnswersOwnRequest'
  BY <1>0 DEF ExchangeTypes, AnswersOwnRequest, Exchange!AnswersOwnRequest,
              Exchange!Request, Ids
<1> QED
  BY <1>1, <1>3, <1>4, <1>5, <1>6 DEF ExchangeInv

\* Taking the oldest off the wire forgets nothing, unless it is the answer.
LEMMA ReadShrinks ==
  ASSUME ExchangeInv, NEW n \in 1..Len(wire),
         wire' = Exchange!Left(n),
         UNCHANGED <<next, kind, queue, exchange, in_flight, given_up, stale, closed>>,
         exchange # 0 /\ kind[exchange] = "recoverable" =>
            \A k \in 1..n : Said(wire[k]) => wire[k].id # exchange
  PROVE  Remembers'
<1>0. ExchangeTypes /\ InTurn /\ StaleInTurn /\ Remembers
  BY DEF ExchangeInv
<1> DEFINE Outs == Exchange!Outstanding
<1>1. /\ \A i \in Outs' : i \in Outs /\ \A k \in 1..n : Said(wire[k]) => wire[k].id < i
      /\ \A i \in Outs : i \in Outs' \/ \E k \in 1..n : Said(wire[k]) /\ wire[k].id = i
  BY <1>0, ReadTakesTheOldest
<1>2. SUFFICES ASSUME Usable'
      PROVE  /\ \A i \in Outs', k \in DOMAIN stale : stale[k] > i => stale[k] \in Outs'
             /\ \A i \in Outs' : \/ i = exchange
                                 \/ \E k \in DOMAIN stale : stale[k] = i
                                 \/ Len(stale) = MaxStale /\ \A k \in DOMAIN stale : stale[k] > i
             /\ exchange # 0 /\ kind[exchange] = "recoverable" => exchange \in Outs'
  BY DEF Remembers
<1>3. Usable
  BY <1>2 DEF Usable
<1>4. ASSUME NEW i \in Outs', NEW k \in DOMAIN stale, stale[k] > i PROVE stale[k] \in Outs'
  <2>1. stale[k] \in Outs
    BY <1>0, <1>1, <1>3, <1>4 DEF Remembers
  <2>2. ASSUME NEW j \in 1..n, Said(wire[j]), wire[j].id = stale[k] PROVE FALSE
    <3>1. stale[k] < i
      BY <1>1, <2>2
    <3>2. stale[k] \in Nat /\ i \in Nat
      BY <2>1, <1>1, <1>0, OutstandingIds, IdsAreNumbers
    <3> QED
      BY <3>1, <3>2, <1>4
  <2> QED
    BY <2>1, <2>2, <1>1
<1>5. exchange # 0 /\ kind[exchange] = "recoverable" => exchange \in Outs'
  BY <1>0, <1>1, <1>3 DEF Remembers
<1> QED
  BY <1>0, <1>1, <1>3, <1>4, <1>5 DEF Remembers

\* A batch holds notices and one answer, or the connection is given up.
LEMMA CollectKeeps ==
  ASSUME ExchangeInv, NEW n \in 1..Len(wire), Exchange!Collect(n)
  PROVE  ExchangeInv'
<1> DEFINE S == Replies \cup {Exchange!Notice}
<1>0. ExchangeTypes /\ InTurn /\ StaleInTurn /\ Remembers /\ AnswersOwnRequest
  BY DEF ExchangeInv
<1>1. /\ exchange # 0 /\ kind[exchange] = "control"
      /\ batch' = batch \o Exchange!Arrived(n) /\ wire' = Exchange!Left(n)
      /\ UNCHANGED <<next, kind, queue, exchange, in_flight, given_up, stale, closed, reply>>
  BY DEF Exchange!Collect, Exchange!None
<1>2. n \in 0..Len(wire) /\ wire \in Seq(S) /\ batch \in Seq(S)
  BY <1>0 DEF ExchangeTypes
<1> DEFINE r == Exchange!Arrived(n)
<1>3. r \in Seq(S) /\ DOMAIN r = 1..n /\ \A k \in 1..n : r[k] = wire[k]
  <2> HIDE DEF S
  <2> QED
    BY <1>2, First DEF Exchange!Arrived
<1>4. wire' \in Seq(S) /\ batch' \in Seq(S)
      /\ DOMAIN batch = 1..Len(batch) /\ Len(batch) \in Nat
      /\ \A j \in DOMAIN batch' : \/ j \in DOMAIN batch /\ batch'[j] = batch[j]
                                  \/ \E k \in 1..n : batch'[j] = wire[k]
  <2>1. wire' \in Seq(S)
    BY <1>0, <1>1, ReadTakesTheOldest
  <2> HIDE DEF S, r
  <2>2. batch \o r \in Seq(S) /\ DOMAIN (batch \o r) = 1..(Len(batch) + Len(r))
        /\ Len(batch) \in Nat /\ Len(r) \in Nat
        /\ \A j \in 1..(Len(batch) + Len(r)) :
              (batch \o r)[j] = IF j <= Len(batch) THEN batch[j] ELSE r[j - Len(batch)]
    BY <1>2, <1>3
  <2>3. Len(r) = n /\ DOMAIN batch = 1..Len(batch)
    BY <1>2, <1>3
  <2>4. batch' = batch \o r
    BY <1>1 DEF r
  <2>5. ASSUME NEW j \in DOMAIN batch'
        PROVE  \/ j \in DOMAIN batch /\ batch'[j] = batch[j]
               \/ \E k \in 1..n : batch'[j] = wire[k]
    <3>1. j \in 1..(Len(batch) + n)
      BY <2>2, <2>3, <2>4
    <3>2. CASE j <= Len(batch)
      BY <3>1, <3>2, <2>2, <2>3, <2>4
    <3>3. CASE j > Len(batch)
      <4>1. j - Len(batch) \in 1..n
        BY <3>1, <3>3, <2>2
      <4> QED
        BY <4>1, <3>1, <3>3, <2>2, <2>3, <2>4, <1>3
    <3> QED
      BY <3>1, <3>2, <3>3, <2>2
  <2> QED
    BY <2>1, <2>2, <2>3, <2>4, <2>5
<1>5. ExchangeTypes'
  BY <1>0, <1>1, <1>4 DEF ExchangeTypes
<1> HIDE DEF S, r
<1>6. InTurn'
  <2>1. \A i \in Exchange!Outstanding' :
           i \in Exchange!Outstanding /\ \A k \in 1..n : Said(wire[k]) => wire[k].id < i
    BY <1>0, <1>1, ReadTakesTheOldest
  <2>2. \A j \in DOMAIN batch' : Said(batch'[j]) =>
           \A i \in Exchange!Outstanding' : batch'[j].id < i
    BY <2>1, <1>4, <1>0 DEF InTurn
  <2>3. /\ \A j, k \in DOMAIN wire' :
              j < k /\ Said(wire'[j]) /\ Said(wire'[k]) => wire'[j].id < wire'[k].id
        /\ \A j \in DOMAIN wire' : Said(wire'[j]) => wire'[j].id < next
        /\ \A j \in DOMAIN wire', k \in DOMAIN queue' :
              Said(wire'[j]) => wire'[j].id < queue'[k]
    BY <1>0, <1>1, ReadTakesTheOldest
  <2>4. /\ exchange # 0 => in_flight /\ exchange = next - 1
        /\ \A j \in DOMAIN queue : queue[j] < next
        /\ \A j, k \in DOMAIN queue : j < k => queue[j] < queue[k]
    BY <1>0 DEF InTurn
  <2> QED
    BY <2>2, <2>3, <2>4, <1>1 DEF InTurn
<1>7. Remembers'
  BY <1>0, <1>1, ReadShrinks DEF ExchangeInv
<1>8. StaleInTurn' /\ AnswersOwnRequest'
  BY <1>0, <1>1 DEF StaleInTurn, AnswersOwnRequest, Exchange!AnswersOwnRequest
<1> QED
  BY <1>5, <1>6, <1>7, <1>8 DEF ExchangeInv

\* The exchange counts with its own instance of the library.
LEMMA Counting == \A S : Exchange!Cardinality(S) = Cardinality(S)
  BY DEF Exchange!Cardinality, Cardinality

LEMMA TheOnlyOne ==
  ASSUME NEW n \in Nat, NEW T \in SUBSET (1..n)
  PROVE  /\ IsFiniteSet(T) /\ Cardinality(T) \in Nat
         /\ T # {} /\ ~(Cardinality(T) > 1) => Exchange!Min(T) \in T
         /\ Cardinality(T) = 1 => Exchange!Min(T) \in T
<1>1. IsFiniteSet(1..n)
  BY FS_Interval
<1>2. IsFiniteSet(T)
  BY <1>1, FS_Subset
<1>3. Cardinality(T) \in Nat
  BY <1>2, FS_CardinalityType
<1>4. Cardinality(T) = 0 <=> T = {}
  BY <1>2, FS_EmptySet
<1>5. ASSUME Cardinality(T) = 1 PROVE Exchange!Min(T) \in T
  <2>1. PICK x : T = {x}
    BY <1>2, <1>5, FS_Singleton
  <2>2. x \in T /\ x \in Nat /\ \A y \in T : y = x
    BY <2>1
  <2>3. \E y \in T : \A z \in T : y =< z
    BY <2>2
  <2> QED
    BY <2>3 DEF Exchange!Min
<1>6. ASSUME T # {}, ~(Cardinality(T) > 1) PROVE Cardinality(T) = 1
  <2> DEFINE c == Cardinality(T)
  <2>1. c \in Nat /\ c # 0 /\ ~(c > 1)
    BY <1>3, <1>4, <1>6
  <2> HIDE DEF c
  <2>2. c = 1
    BY <2>1
  <2> QED
    BY <2>2 DEF c
<1> QED
  BY <1>2, <1>3, <1>5, <1>6

\* A store exchange takes the answer to its own request, or gives up.
LEMMA MatchKeeps ==
  ASSUME ExchangeInv, exchange # 0, NEW n \in 1..Len(wire),
         NEW fresh \in SUBSET (1..n), fresh # {}, Exchange!Match(fresh, n)
  PROVE  ExchangeInv'
<1> DEFINE m == Exchange!Min(fresh)
<1>0. ExchangeTypes /\ InTurn
  BY DEF ExchangeInv
<1>1. n \in Nat
  OBVIOUS
<1>2. CASE Exchange!Cardinality(fresh) > 1 \/ ~Exchange!IsStore(wire[m]) \/ wire[m].id # exchange
  <2>1. Exchange!Retire(wire[m].id)
    BY <1>2 DEF Exchange!Match, Exchange!Retire
  <2> QED
    BY <2>1, RetireKeeps
<1>3. CASE ~(Exchange!Cardinality(fresh) > 1) /\ Exchange!IsStore(wire[m]) /\ wire[m].id = exchange
  <2>1. Exchange!Answered(Exchange!Left(n), exchange)
    BY <1>3 DEF Exchange!Match, Exchange!Answered
  <2>2. m \in 1..n
    BY <1>3, <1>1, TheOnlyOne, Counting
  <2>3. Said(wire[m])
    BY <1>3 DEF Exchange!IsStore, Said
  <2>4. wire' = Exchange!Left(n) /\ queue' = queue
    BY <2>1 DEF Exchange!Answered
  <2>5. ASSUME NEW i \in Exchange!Outstanding' PROVE FALSE
    <3>1. i \in Exchange!Outstanding /\ wire[m].id < i
      BY <2>2, <2>3, <2>4, <2>5, <1>0, ReadTakesTheOldest
    <3>2. i \in Nat /\ i < next
      BY <3>1, <1>0, OutstandingIds, IdsAreNumbers
    <3>3. exchange = next - 1 /\ next \in Nat
      BY <1>0 DEF InTurn, ExchangeTypes
    <3> QED
      BY <3>1, <3>2, <3>3, <1>3
  <2>6. Exchange!Left(n) \in Seq(Replies \cup {Exchange!Notice})
    BY <2>4, <1>0, ReadTakesTheOldest
  <2> QED
    BY <2>1, <2>5, <2>6, AnsweredKeeps
<1> QED
  BY <1>2, <1>3

LEMMA StoreReadKeeps ==
  ASSUME ExchangeInv, NEW n \in 1..Len(wire), Exchange!StoreRead(n)
  PROVE  ExchangeInv'
<1>1. exchange # 0 /\ Exchange!Match(1..n, n)
  BY DEF Exchange!StoreRead, Exchange!None
<1>2. 1..n \in SUBSET (1..n) /\ 1..n # {}
  <2>1. 1 \in 1..n
    OBVIOUS
  <2> QED
    BY <2>1
<1> QED
  BY <1>1, <1>2, MatchKeeps

LEMMA RecoverableReadKeeps ==
  ASSUME ExchangeInv, NEW n \in 1..Len(wire), Exchange!RecoverableRead(n)
  PROVE  ExchangeInv'
<1> DEFINE fresh == {k \in 1..n : ~Exchange!Remembered(wire[k])}
<1>0. ExchangeTypes /\ InTurn /\ StaleInTurn /\ AnswersOwnRequest
  BY DEF ExchangeInv
<1>1. CASE fresh # {}
  <2>1. exchange # 0 /\ Exchange!Match(fresh, n)
    BY <1>1 DEF Exchange!RecoverableRead, Exchange!None
  <2>2. fresh \in SUBSET (1..n)
    OBVIOUS
  <2> HIDE DEF fresh
  <2> QED
    BY <1>1, <2>1, <2>2, MatchKeeps
<1>2. CASE fresh = {}
  <2>1. /\ wire' = Exchange!Left(n)
        /\ UNCHANGED <<next, kind, queue, exchange, batch, in_flight, given_up, stale,
                       closed, reply>>
    BY <1>2 DEF Exchange!RecoverableRead
  <2>2. \A k \in 1..n : wire[k].id # exchange
    BY <1>2 DEF Exchange!Remembered
  <2>3. Remembers'
    BY <2>1, <2>2, ReadShrinks
  <2>4. /\ wire' \in Seq(Replies \cup {Exchange!Notice})
        /\ \A i \in Exchange!Outstanding' : i \in Exchange!Outstanding
        /\ \A j, k \in DOMAIN wire' :
              j < k /\ Said(wire'[j]) /\ Said(wire'[k]) => wire'[j].id < wire'[k].id
        /\ \A j \in DOMAIN wire' : Said(wire'[j]) => wire'[j].id < next
        /\ \A j \in DOMAIN wire', k \in DOMAIN queue' :
              Said(wire'[j]) => wire'[j].id < queue'[k]
    BY <2>1, <1>0, ReadTakesTheOldest
  <2>5. ExchangeTypes'
    BY <2>1, <2>4, <1>0 DEF ExchangeTypes
  <2>6. InTurn'
    <3>1. \A j \in DOMAIN batch : Said(batch[j]) =>
             \A i \in Exchange!Outstanding' : batch[j].id < i
      BY <2>4, <1>0 DEF InTurn
    <3>2. /\ exchange # 0 => in_flight /\ exchange = next - 1
          /\ exchange = 0 => batch = <<>>
          /\ \A j \in DOMAIN queue : queue[j] < next
          /\ \A j, k \in DOMAIN queue : j < k => queue[j] < queue[k]
      BY <1>0 DEF InTurn
    <3> QED
      BY <3>1, <3>2, <2>1, <2>4 DEF InTurn
  <2>7. StaleInTurn' /\ AnswersOwnRequest'
    BY <2>1, <1>0 DEF StaleInTurn, AnswersOwnRequest, Exchange!AnswersOwnRequest
  <2> QED
    BY <2>3, <2>5, <2>6, <2>7 DEF ExchangeInv
<1> QED
  BY <1>1, <1>2

\* A control exchange takes the one event that answers it, or gives up.
LEMMA ConcludeKeeps ==
  ASSUME ExchangeInv, Exchange!Conclude
  PROVE  ExchangeInv'
<1> DEFINE T == Exchange!Primaries
           m == Exchange!Min(T)
<1>0. ExchangeTypes /\ InTurn
  BY DEF ExchangeInv
<1>1. exchange # 0
  BY DEF Exchange!Conclude, Exchange!None
<1>2. CASE ~(Exchange!CheckBatch = 0 /\ Exchange!Cardinality(T) = 1)
  <2>1. Exchange!Retire(Exchange!CheckBatch)
    BY <1>2 DEF Exchange!Conclude, Exchange!None, Exchange!Retire
  <2> QED
    BY <2>1, RetireKeeps
<1>3. CASE Exchange!CheckBatch = 0 /\ Exchange!Cardinality(T) = 1
  <2>1. Exchange!Answered(wire, batch[m].id)
    BY <1>3 DEF Exchange!Conclude, Exchange!None, Exchange!Answered
  <2>2. T \in SUBSET (1..Len(batch)) /\ Len(batch) \in Nat
    BY <1>0 DEF ExchangeTypes, Exchange!Primaries
  <2>3. m \in T
    BY <1>3, <2>2, TheOnlyOne, Counting
  <2>4. m \in DOMAIN batch /\ batch[m].id = exchange
    BY <2>3 DEF Exchange!Primaries
  <2>5. Said(batch[m])
    <3>1. batch[m] \in Replies \cup {Exchange!Notice}
      BY <2>4, <1>0, Elements DEF ExchangeTypes
    <3> QED
      BY <3>1, <2>4, <1>1
      DEF Replies, Said, Exchange!Notice, Exchange!None, ExchangeKinds, Exchange!Kinds
  <2>6. wire' = wire /\ queue' = queue
    BY <2>1 DEF Exchange!Answered
  <2>7. Exchange!Outstanding' = Exchange!Outstanding
    BY <2>6 DEF Exchange!Outstanding
  <2>8. ASSUME NEW i \in Exchange!Outstanding PROVE FALSE
    <3>1. batch[m].id < i
      BY <2>4, <2>5, <2>8, <1>0 DEF InTurn
    <3>2. i \in Nat /\ i < next
      BY <2>8, <1>0, OutstandingIds, IdsAreNumbers
    <3>3. exchange = next - 1 /\ next \in Nat
      BY <1>0, <1>1 DEF InTurn, ExchangeTypes
    <3> QED
      BY <3>1, <3>2, <3>3, <2>4
  <2>9. Exchange!Answered(wire, exchange) /\ wire \in Seq(Replies \cup {Exchange!Notice})
    BY <2>1, <2>4, <1>0 DEF ExchangeTypes
  <2> QED
    BY <1>1, <2>7, <2>8, <2>9, AnsweredKeeps
<1> QED
  BY <1>2, <1>3

\* An attempt that timed out is remembered; the oldest one makes room.
LEMMA TimeoutKeeps ==
  ASSUME ExchangeInv, Exchange!Timeout
  PROVE  ExchangeInv'
<1>0. ExchangeTypes /\ InTurn /\ StaleInTurn /\ Remembers /\ AnswersOwnRequest
  BY DEF ExchangeInv
<1>1. CASE kind[exchange] # "recoverable"
  BY <1>1, RetireKeeps DEF Exchange!Timeout, Exchange!None
<1>2. CASE kind[exchange] = "recoverable"
  <2>1. /\ exchange # 0 /\ batch = <<>>
        /\ stale' = Exchange!RememberStale(exchange)
        /\ exchange' = 0 /\ in_flight' = FALSE
        /\ UNCHANGED <<next, kind, queue, wire, batch, given_up, closed, reply>>
    BY <1>2 DEF Exchange!Timeout, Exchange!None
  <2>2. /\ exchange \in Ids /\ exchange = next - 1 /\ next \in Nat /\ exchange \in Nat
        /\ stale \in Seq(Ids) /\ MaxStale \in Nat \ {0} /\ Len(stale) <= MaxStale
    BY <2>1, <1>0, WindowsAssumption, IdsAreNumbers DEF ExchangeTypes, InTurn, StaleInTurn
  <2> DEFINE kept == IF Len(stale) >= MaxStale THEN Tail(stale) ELSE stale
             d == IF Len(stale) >= MaxStale THEN 1 ELSE 0
  <2>3. /\ kept \in Seq(Ids) /\ Len(kept) = Len(stale) - d /\ d \in {0, 1} /\ Len(kept) \in Nat
        /\ \A k \in 1..Len(kept) : k + d \in DOMAIN stale /\ kept[k] = stale[k + d]
    BY <2>2
  <2>4. stale' = Append(kept, exchange)
    BY <2>1 DEF Exchange!RememberStale
  <2>5. /\ Len(kept) < MaxStale
        /\ Len(stale) = MaxStale => Len(kept) + 1 = MaxStale /\ d = 1
        /\ Len(stale) # MaxStale => d = 0
    BY <2>2, <2>3
  <2> HIDE DEF kept, d
  <2>6. /\ stale' \in Seq(Ids) /\ Len(stale') = Len(kept) + 1
        /\ DOMAIN stale' = 1..(Len(kept) + 1)
        /\ stale'[Len(kept) + 1] = exchange
        /\ \A k \in 1..Len(kept) : stale'[k] = stale[k + d] /\ k + d \in DOMAIN stale
    BY <2>2, <2>3, <2>4
  <2>7. \A k \in DOMAIN stale : stale[k] \in Nat /\ stale[k] < exchange
    BY <1>0, <2>1, <2>2, Elements, IdsAreNumbers DEF StaleInTurn
  <2>8. \A k \in DOMAIN stale' :
           \/ k = Len(kept) + 1 /\ stale'[k] = exchange
           \/ /\ k \in 1..Len(kept) /\ k + d \in DOMAIN stale
              /\ stale'[k] = stale[k + d] /\ stale'[k] < exchange
    <3>1. \A k \in 1..(Len(kept) + 1) : k = Len(kept) + 1 \/ k \in 1..Len(kept)
      BY <2>3
    <3> QED
      BY <3>1, <2>6, <2>7
  <2>n. \A k \in DOMAIN stale' : stale'[k] \in Nat
    BY <2>8, <2>2, <2>7
  <2>9. Exchange!Outstanding' = Exchange!Outstanding
    BY <2>1 DEF Exchange!Outstanding
  <2>10. ExchangeTypes'
    BY <2>1, <2>6, <1>0 DEF ExchangeTypes
  <2>11. InTurn'
    BY <2>1, <2>9, <1>0 DEF InTurn
  <2>12. StaleInTurn'
    <3>1. ASSUME NEW j \in DOMAIN stale', NEW k \in DOMAIN stale', j < k
          PROVE  stale'[j] < stale'[k]
      <4>1. j \in 1..Len(kept)
        BY <2>3, <2>6, <3>1
      <4>2. j + d \in DOMAIN stale /\ stale'[j] = stale[j + d] /\ stale'[j] < exchange
        BY <4>1, <2>6, <2>7
      <4>3. CASE k = Len(kept) + 1
        BY <4>2, <4>3, <2>6
      <4>4. CASE k \in 1..Len(kept)
        <5>1. k + d \in DOMAIN stale /\ stale'[k] = stale[k + d]
          BY <4>4, <2>6
        <5>2. j + d < k + d
          BY <4>1, <4>4, <2>3, <3>1
        <5> QED
          BY <5>1, <5>2, <4>2, <1>0 DEF StaleInTurn
      <4> QED
        BY <4>3, <4>4, <2>8
    <3>2. \A j \in DOMAIN stale' : stale'[j] <= exchange
      BY <2>8, <2>2, <2>n
    <3>3. \A j \in DOMAIN stale' : stale'[j] < next'
      <4>1. \A x \in Nat : x <= exchange => x < next
        BY <2>2
      <4> QED
        BY <4>1, <3>2, <2>n, <2>1
    <3>4. Len(stale') <= MaxStale
      BY <2>2, <2>3, <2>5, <2>6
    <3> QED
      BY <3>1, <3>3, <3>4, <2>1 DEF StaleInTurn
  <2>13. Remembers'
    <3>1. CASE ~Usable'
      BY <3>1 DEF Remembers
    <3>2. CASE Usable'
      <4>1. Usable
        BY <3>2, <2>1 DEF Usable
      <4>2. exchange \in Exchange!Outstanding
        BY <4>1, <2>1, <1>2, <1>0 DEF Remembers
      <4>3. \A i \in Exchange!Outstanding : i \in Nat /\ i <= exchange
        <5>1. \A i \in Exchange!Outstanding : i \in Nat /\ i < next
          BY <1>0, OutstandingIds, IdsAreNumbers
        <5>2. \A x \in Nat : x < next => x <= exchange
          BY <2>2
        <5> QED
          BY <5>1, <5>2
      <4>4. ASSUME NEW i \in Exchange!Outstanding, NEW k \in DOMAIN stale', stale'[k] > i
            PROVE  stale'[k] \in Exchange!Outstanding
        BY <4>1, <4>2, <4>4, <2>8, <1>0 DEF Remembers
      <4>5. ASSUME NEW i \in Exchange!Outstanding
            PROVE  \/ \E k \in DOMAIN stale' : stale'[k] = i
                   \/ Len(stale') = MaxStale /\ \A k \in DOMAIN stale' : stale'[k] > i
        <5>1. CASE i = exchange
          BY <5>1, <2>3, <2>6
        <5>2. ASSUME i # exchange, Len(stale) = MaxStale, \A k \in DOMAIN stale : stale[k] > i
              PROVE  Len(stale') = MaxStale /\ \A k \in DOMAIN stale' : stale'[k] > i
          <6>1. exchange > i
            BY <5>2, <4>3, <2>2
          <6>2. Len(stale') = MaxStale
            BY <5>2, <2>5, <2>6
          <6> QED
            BY <5>2, <6>1, <6>2, <2>8
        <5>3. ASSUME i # exchange, NEW k \in DOMAIN stale, stale[k] = i
              PROVE  \/ \E j \in DOMAIN stale' : stale'[j] = i
                     \/ Len(stale') = MaxStale /\ \A j \in DOMAIN stale' : stale'[j] > i
          <6>0. DOMAIN stale = 1..Len(stale) /\ Len(stale) \in Nat
            BY <2>2
          <6>1. CASE k - d \in 1..Len(kept)
            <7>1. stale'[k - d] = stale[(k - d) + d] /\ k - d \in DOMAIN stale'
              BY <6>1, <2>6, <2>3
            <7>2. (k - d) + d = k
              BY <6>0, <2>3
            <7> QED
              BY <7>1, <7>2, <5>3
          <6>2. CASE k - d \notin 1..Len(kept)
            <7>0. k \in 1..Len(stale) /\ Len(kept) = Len(stale) - d /\ d \in {0, 1}
              BY <6>0, <2>3
            <7>a. d = 1 /\ k = 1
              BY <7>0, <6>0, <6>2
            <7>1. d = 1 /\ k = 1 /\ Len(stale) = MaxStale
              BY <7>a, <2>5
            <7>2. \A j \in 1..Len(kept) : j + d \in DOMAIN stale /\ k < j + d
              BY <7>1, <2>6
            <7>3. \A j \in 1..Len(kept) : stale[k] < stale[j + d]
              BY <7>2, <1>0 DEF StaleInTurn
            <7>4. i < exchange /\ i \in Nat
              BY <4>3, <5>3, <2>2
            <7>5. ASSUME NEW j \in DOMAIN stale' PROVE stale'[j] > i
              <8>1. CASE j \in 1..Len(kept)
                BY <8>1, <7>2, <7>3, <7>4, <5>3, <2>6, <2>7
              <8>2. CASE j = Len(kept) + 1
                BY <8>2, <7>4, <2>2, <2>6
              <8> QED
                BY <8>1, <8>2, <2>8
            <7> QED
              BY <7>1, <7>5, <2>5, <2>6
          <6> QED
            BY <6>1, <6>2
        <5> QED
          BY <5>1, <5>2, <5>3, <4>1, <1>0 DEF Remembers
      <4> QED
        BY <4>4, <4>5, <2>1, <2>9 DEF Remembers
    <3> QED
      BY <3>1, <3>2
  <2> QED
    BY <2>1, <2>10, <2>11, <2>12, <2>13, <1>0
    DEF ExchangeInv, AnswersOwnRequest, Exchange!AnswersOwnRequest
<1> QED
  BY <1>1, <1>2

\* A dropped exchange leaves its mark, and the next one gives up.
LEMMA CancelKeeps ==
  ASSUME ExchangeInv, Exchange!Cancel
  PROVE  ExchangeInv'
<1>0. ExchangeTypes /\ InTurn /\ StaleInTurn /\ AnswersOwnRequest
  BY DEF ExchangeInv
<1>1. /\ exchange # 0 /\ exchange' = 0 /\ batch' = <<>>
      /\ UNCHANGED <<next, kind, queue, wire, in_flight, given_up, stale, closed, reply>>
  BY DEF Exchange!Cancel, Exchange!None
<1>2. \A S : <<>> \in Seq(S)
  OBVIOUS
<1>3. ExchangeTypes'
  BY <1>0, <1>1, <1>2 DEF ExchangeTypes
<1>4. InTurn'
  BY <1>0, <1>1 DEF InTurn
<1>5. StaleInTurn' /\ AnswersOwnRequest'
  BY <1>0, <1>1 DEF StaleInTurn, AnswersOwnRequest, Exchange!AnswersOwnRequest
<1>6. ~Usable'
  BY <1>0, <1>1 DEF InTurn, Usable
<1> QED
  BY <1>3, <1>4, <1>5, <1>6 DEF ExchangeInv, Remembers

LEMMA EndOfStreamKeeps ==
  ASSUME ExchangeInv, Exchange!EndOfStream
  PROVE  ExchangeInv'
  BY RetireKeeps DEF Exchange!EndOfStream

LEMMA CloseConnectionKeeps ==
  ASSUME ExchangeInv, Exchange!CloseConnection
  PROVE  ExchangeInv'
<1>0. ExchangeTypes /\ InTurn /\ StaleInTurn /\ AnswersOwnRequest
  BY DEF ExchangeInv
<1>1. /\ closed' = TRUE /\ queue' = <<>>
      /\ UNCHANGED <<next, kind, wire, exchange, batch, in_flight, given_up, stale, reply>>
  BY DEF Exchange!CloseConnection
<1>2. \A S : <<>> \in Seq(S)
  OBVIOUS
<1>3. ExchangeTypes'
  BY <1>0, <1>1, <1>2 DEF ExchangeTypes
<1>4. InTurn'
  <2>1. \A i \in Exchange!Outstanding' : i \in Exchange!Outstanding
    BY <1>1 DEF Exchange!Outstanding
  <2> QED
    BY <1>0, <1>1, <2>1 DEF InTurn
<1>5. StaleInTurn' /\ AnswersOwnRequest'
  BY <1>0, <1>1 DEF StaleInTurn, AnswersOwnRequest, Exchange!AnswersOwnRequest
<1>6. ~Usable'
  BY <1>1 DEF Usable
<1> QED
  BY <1>3, <1>4, <1>5, <1>6 DEF ExchangeInv, Remembers

\* The worker answers its requests in turn.
LEMMA ServeKeeps ==
  ASSUME ExchangeInv, Exchange!Serve
  PROVE  ExchangeInv'
<1> DEFINE S == Replies \cup {Exchange!Notice}
           h == Head(queue)
           e == Exchange!Event(h)
<1>0. ExchangeTypes /\ InTurn /\ StaleInTurn /\ Remembers /\ AnswersOwnRequest
  BY DEF ExchangeInv
<1>1. /\ queue # <<>> /\ queue' = Tail(queue)
      /\ wire' = Append(wire, e) \/ wire' = wire \o <<e, Exchange!Notice>>
      /\ UNCHANGED <<next, kind, exchange, batch, in_flight, given_up, stale, closed, reply>>
  BY DEF Exchange!Serve
<1>2. /\ queue \in Seq(Ids) /\ Len(queue) \in Nat /\ DOMAIN queue = 1..Len(queue)
      /\ wire \in Seq(S) /\ Len(wire) \in Nat /\ DOMAIN wire = 1..Len(wire)
  BY <1>0, Elements DEF ExchangeTypes
<1>3. /\ 1 \in DOMAIN queue /\ h = queue[1] /\ h \in Ids
      /\ queue' \in Seq(Ids) /\ DOMAIN queue' = 1..(Len(queue) - 1)
      /\ \A k \in DOMAIN queue' : k + 1 \in DOMAIN queue /\ queue'[k] = queue[k + 1] /\ 1 < k + 1
  BY <1>1, <1>2
<1>4. e \in Replies /\ e.id = h /\ Said(e) /\ ~Said(Exchange!Notice)
  BY <1>3, <1>0 DEF ExchangeTypes, Exchange!Event, Replies, Said, ExchangeKinds,
                    Exchange!Kinds, Exchange!Notice
<1> HIDE DEF e, h
<1>5. /\ wire' \in Seq(S)
      /\ \A k \in DOMAIN wire : k \in DOMAIN wire' /\ wire'[k] = wire[k]
      /\ Len(wire) + 1 \in DOMAIN wire' /\ wire'[Len(wire) + 1] = e
      /\ \A k \in DOMAIN wire' : \/ k \in DOMAIN wire /\ wire'[k] = wire[k]
                                 \/ k = Len(wire) + 1 /\ wire'[k] = e
                                 \/ k = Len(wire) + 2 /\ wire'[k] = Exchange!Notice
      /\ DOMAIN wire' \subseteq Nat
  <2>1. e \in S /\ Exchange!Notice \in S
    BY <1>4
  <2> HIDE DEF S
  <2>2. CASE wire' = Append(wire, e)
    BY <2>1, <2>2, <1>2
  <2>3. CASE wire' = wire \o <<e, Exchange!Notice>>
    <3> DEFINE t == <<e, Exchange!Notice>>
    <3>1. t \in Seq(S) /\ Len(t) = 2 /\ t[1] = e /\ t[2] = Exchange!Notice
      BY <2>1
    <3> HIDE DEF t
    <3>2. wire' = wire \o t
      BY <2>3 DEF t
    <3>3. /\ wire' \in Seq(S) /\ DOMAIN wire' = 1..(Len(wire) + 2)
          /\ \A k \in 1..(Len(wire) + 2) :
                wire'[k] = IF k <= Len(wire) THEN wire[k] ELSE t[k - Len(wire)]
      <4>1. /\ wire \o t \in Seq(S) /\ DOMAIN (wire \o t) = 1..(Len(wire) + Len(t))
            /\ \A k \in 1..(Len(wire) + Len(t)) :
                  (wire \o t)[k] = IF k <= Len(wire) THEN wire[k] ELSE t[k - Len(wire)]
        BY <3>1, <1>2, Joined
      <4> QED
        BY <4>1, <3>1, <3>2
    <3>4. \A k \in 1..(Len(wire) + 2) : \/ k \in 1..Len(wire) /\ k <= Len(wire)
                                        \/ k = Len(wire) + 1 /\ k - Len(wire) = 1 /\ ~(k <= Len(wire))
                                        \/ k = Len(wire) + 2 /\ k - Len(wire) = 2 /\ ~(k <= Len(wire))
      BY <1>2
    <3>5. Len(wire) + 1 \in 1..(Len(wire) + 2) /\ \A k \in 1..Len(wire) : k \in 1..(Len(wire) + 2)
                /\ k <= Len(wire)
      BY <1>2
    <3>6. Len(wire) + 1 - Len(wire) = 1 /\ ~(Len(wire) + 1 <= Len(wire))
      BY <1>2
    <3> QED
      BY <3>1, <3>3, <3>4, <3>5, <3>6, <1>2
  <2> QED
    BY <2>2, <2>3, <1>1
<1>6. ExchangeTypes'
  BY <1>0, <1>1, <1>3, <1>5 DEF ExchangeTypes
<1> HIDE DEF S
<1>7. \A i : i \in Exchange!Outstanding' <=> i \in Exchange!Outstanding
  <2>1. \A i : i \in Exchange!Outstanding' <=>
           \/ \E k \in DOMAIN queue' : queue'[k] = i
           \/ \E k \in DOMAIN wire' : Said(wire'[k]) /\ wire'[k].id = i
    BY DEF Exchange!Outstanding, Said
  <2>2. ASSUME NEW i \in Exchange!Outstanding' PROVE i \in Exchange!Outstanding
    BY <2>1, <2>2, <1>3, <1>4, <1>5, OutstandingMembers
  <2>3. ASSUME NEW i \in Exchange!Outstanding PROVE i \in Exchange!Outstanding'
    <3>1. ASSUME NEW k \in DOMAIN queue, queue[k] = i PROVE i \in Exchange!Outstanding'
      <4>1. CASE k = 1
        BY <4>1, <3>1, <2>1, <1>3, <1>4, <1>5
      <4>2. CASE k # 1
        <5>1. k - 1 \in DOMAIN queue' /\ (k - 1) + 1 = k
          BY <4>2, <1>2, <1>3
        <5> QED
          BY <5>1, <3>1, <2>1, <1>3
      <4> QED
        BY <4>1, <4>2
    <3>2. ASSUME NEW k \in DOMAIN wire, Said(wire[k]), wire[k].id = i
          PROVE  i \in Exchange!Outstanding'
      BY <3>2, <2>1, <1>5
    <3> QED
      BY <3>1, <3>2, OutstandingMembers
  <2> QED
    BY <2>2, <2>3
<1>8. InTurn'
  <2>1. \A k \in DOMAIN queue' : h < queue'[k] /\ queue'[k] < next
    BY <1>0, <1>3 DEF InTurn
  <2>2. \A j, k \in DOMAIN queue' : j < k => queue'[j] < queue'[k]
    <3>1. \A j, k \in DOMAIN queue' : j < k => j + 1 < k + 1
      BY <1>3
    <3> QED
      BY <3>1, <1>0, <1>3 DEF InTurn
  <2>3. \A j \in DOMAIN wire' : Said(wire'[j]) =>
           wire'[j].id < next /\ \A k \in DOMAIN queue' : wire'[j].id < queue'[k]
    BY <2>1, <1>0, <1>3, <1>4, <1>5 DEF InTurn
  <2>4. ASSUME NEW j \in DOMAIN wire', NEW k \in DOMAIN wire', j < k,
               Said(wire'[j]), Said(wire'[k])
        PROVE  wire'[j].id < wire'[k].id
    <3>1. CASE k \in DOMAIN wire
      <4>1. j \in DOMAIN wire
        BY <3>1, <2>4, <1>2, <1>5
      <4> QED
        BY <3>1, <4>1, <2>4, <1>0, <1>5 DEF InTurn
    <3>2. CASE k \notin DOMAIN wire
      <4>1. wire'[k] = e /\ k = Len(wire) + 1
        BY <3>2, <2>4, <1>4, <1>5
      <4>2. j \in DOMAIN wire
        <5>1. j # Len(wire) + 1 /\ j # Len(wire) + 2
          BY <4>1, <2>4, <1>2
        <5> QED
          BY <5>1, <1>5
      <4> QED
        BY <4>1, <4>2, <2>4, <1>0, <1>3, <1>4, <1>5 DEF InTurn
    <3> QED
      BY <3>1, <3>2
  <2>5. \A j \in DOMAIN batch : Said(batch[j]) =>
           \A i \in Exchange!Outstanding' : batch[j].id < i
    BY <1>0, <1>7 DEF InTurn
  <2>6. (exchange # 0 => in_flight /\ exchange = next - 1) /\ (exchange = 0 => batch = <<>>)
    BY <1>0 DEF InTurn
  <2> QED
    BY <2>1, <2>2, <2>3, <2>4, <2>5, <2>6, <1>1 DEF InTurn
<1>9. StaleInTurn' /\ AnswersOwnRequest'
  BY <1>0, <1>1 DEF StaleInTurn, AnswersOwnRequest, Exchange!AnswersOwnRequest
<1>10. Remembers'
  BY <1>0, <1>1, <1>7 DEF Remembers, Usable
<1> QED
  BY <1>6, <1>8, <1>9, <1>10 DEF ExchangeInv

-----------------------------------------------------------------------------
(* The exchange: the invariant and what follows *)

LEMMA ExchangeStepKeeps == ExchangeInv /\ Exchange!Next => ExchangeInv'
<1> SUFFICES ASSUME ExchangeInv, Exchange!Next PROVE ExchangeInv'
  OBVIOUS
<1>1. CASE \E k \in Exchange!Kinds : Exchange!Begin(k)
  BY <1>1, BeginKeeps
<1>2. CASE Exchange!Read
  BY <1>2, CollectKeeps, StoreReadKeeps, RecoverableReadKeeps DEF Exchange!Read
<1> QED
  BY <1>1, <1>2, ConcludeKeeps, TimeoutKeeps, CancelKeeps, EndOfStreamKeeps, ServeKeeps,
     CloseConnectionKeeps DEF Exchange!Next

LEMMA ExchangeRests == ExchangeInv /\ UNCHANGED exchangeVars => ExchangeInv'
<1> SUFFICES ASSUME ExchangeInv, UNCHANGED exchangeVars PROVE ExchangeInv'
  OBVIOUS
<1> USE DEF exchangeVars
<1>1. Exchange!Outstanding' = Exchange!Outstanding
  BY DEF Exchange!Outstanding
<1>2. ExchangeTypes' /\ StaleInTurn' /\ AnswersOwnRequest'
  BY DEF ExchangeInv, ExchangeTypes, StaleInTurn, AnswersOwnRequest,
         Exchange!AnswersOwnRequest
<1>3. InTurn'
  BY <1>1 DEF ExchangeInv, InTurn
<1>4. Remembers'
  BY <1>1 DEF ExchangeInv, Remembers, Usable
<1> QED
  BY <1>2, <1>3, <1>4 DEF ExchangeInv

LEMMA ExchangeInitially == Exchange!Init => ExchangeInv
<1> SUFFICES ASSUME Exchange!Init PROVE ExchangeInv
  OBVIOUS
<1> USE DEF Exchange!Init, Exchange!None, Exchange!Request
<1>1. ExchangeTypes
  <2>1. \A S : <<>> \in Seq(S)
    OBVIOUS
  <2>2. next \in 1..(MaxRequests + 1)
    BY WindowsAssumption
  <2>3. kind \in [Ids -> ExchangeKinds] /\ reply \in [Ids -> Ids \cup {0}]
    BY DEF Ids, ExchangeKinds
  <2> QED
    BY <2>1, <2>2, <2>3 DEF ExchangeTypes
<1>2. \A i : i \notin Exchange!Outstanding
  BY DEF Exchange!Outstanding
<1>3. InTurn
  BY DEF InTurn
<1>4. StaleInTurn
  BY WindowsAssumption DEF StaleInTurn
<1>5. Remembers
  BY <1>2 DEF Remembers
<1>6. AnswersOwnRequest
  BY DEF AnswersOwnRequest, Exchange!AnswersOwnRequest
<1> QED
  BY <1>1, <1>3, <1>4, <1>5, <1>6 DEF ExchangeInv

\* The invariant of a window's connection (client.rs): requests and replies are
\* in turn, and what is yet to come is remembered or was forgotten for newer.
THEOREM ExchangeInvariant == WindowsSpec => []ExchangeInv
<1>1. WindowsInit => ExchangeInv
  BY ExchangeInitially DEF WindowsInit
<1>2. ExchangeInv /\ [WindowsNext]_windowsVars => ExchangeInv'
  <2>1. ASSUME ExchangeInv, UNCHANGED windowsVars PROVE ExchangeInv'
    BY <2>1, ExchangeRests DEF windowsVars
  <2> QED
    BY <2>1, ExchangeStepKeeps, ExchangeRests DEF WindowsNext
<1> QED
  BY <1>1, <1>2, PTL DEF WindowsSpec

\* No reply answers another request than its own (check_batch,
\* store_with_timeout, store_recoverable).
THEOREM ExchangeAnswersOwn == WindowsSpec => []AnswersOwnRequest
<1>1. ExchangeInv => AnswersOwnRequest
  BY DEF ExchangeInv
<1> QED
  BY <1>1, ExchangeInvariant, PTL

LEMMA OutstandingIsFinite ==
  ASSUME ExchangeTypes, InTurn
  PROVE  IsFiniteSet(Exchange!Outstanding)
<1>1. Exchange!Outstanding \in SUBSET Ids
  BY OutstandingIds
<1>2. IsFiniteSet(Ids)
  BY FS_Interval, WindowsAssumption DEF Ids
<1> QED
  BY <1>1, <1>2, FS_Subset

\* A forgotten reply would have as many newer ones behind it as are remembered.
LEMMA RememberedAll ==
  ASSUME ExchangeInv
  PROVE  LateRepliesRemembered
<1> DEFINE Outs == Exchange!Outstanding
<1>0. ExchangeTypes /\ InTurn /\ StaleInTurn /\ Remembers
  BY DEF ExchangeInv
<1>1. SUFFICES ASSUME ~given_up, ~in_flight, ~closed, Cardinality(Outs) <= MaxStale,
                      NEW i \in Outs, \A k \in DOMAIN stale : stale[k] # i
               PROVE  FALSE
  <2>1. stale \in Seq(Ids) /\ DOMAIN stale = 1..Len(stale)
    BY <1>0 DEF ExchangeTypes
  <2> QED
    BY <2>1, Counting DEF LateRepliesRemembered, Exchange!LateRepliesRemembered,
      Exchange!Contains
<1>2. Usable /\ exchange = 0
  BY <1>0, <1>1 DEF Usable, InTurn
<1>3. i \in Ids /\ i # 0
  BY <1>0, OutstandingIds, IdsAreNumbers
<1>4. Len(stale) = MaxStale /\ \A k \in DOMAIN stale : stale[k] > i
  BY <1>0, <1>1, <1>2, <1>3 DEF Remembers
<1>5. \A k \in DOMAIN stale : stale[k] \in Outs
  BY <1>0, <1>2, <1>4 DEF Remembers
<1>6. MaxStale \in Nat /\ DOMAIN stale = 1..MaxStale
  BY <1>0, <1>4, WindowsAssumption, Elements DEF ExchangeTypes
<1> DEFINE f == [k \in 0..MaxStale |-> IF k = 0 THEN i ELSE stale[k]]
<1>7. f \in Injection(0..MaxStale, Outs)
  <2>1. \A k \in 0..MaxStale : k = 0 \/ k \in DOMAIN stale
    BY <1>6
  <2>2. f \in [0..MaxStale -> Outs]
    BY <2>1, <1>5
  <2>3. ASSUME NEW j \in 0..MaxStale, NEW k \in 0..MaxStale, f[j] = f[k] PROVE j = k
    <3>1. CASE j = 0 \/ k = 0
      BY <3>1, <2>1, <2>3, <1>1
    <3>2. CASE j # 0 /\ k # 0
      <4>1. j \in DOMAIN stale /\ k \in DOMAIN stale /\ stale[j] = stale[k]
        BY <3>2, <2>1, <2>3
      <4>2. stale[j] \in Nat /\ stale[k] \in Nat
        BY <4>1, <1>0, Elements, IdsAreNumbers DEF ExchangeTypes
      <4>3. ~(j < k) /\ ~(k < j)
        BY <4>1, <4>2, <1>0 DEF StaleInTurn
      <4> QED
        BY <4>3, <2>3, <1>6
    <3> QED
      BY <3>1, <3>2
  <2> HIDE DEF f
  <2> QED
    BY <2>2, <2>3 DEF Injection, IsInjective
<1> HIDE DEF f, Outs
<1>8. IsFiniteSet(Outs)
  BY <1>0, OutstandingIsFinite DEF Outs
<1>9. Cardinality(0..MaxStale) = MaxStale + 1
  BY FS_Interval, <1>6
<1>10. Cardinality(0..MaxStale) <= Cardinality(Outs)
  BY <1>7, <1>8, FS_Injection
<1>11. Cardinality(Outs) \in Nat
  BY <1>8, FS_CardinalityType
<1> QED
  BY <1>1, <1>6, <1>9, <1>10, <1>11

\* Between two exchanges of a connection that is still usable, every reply yet
\* to come is remembered, as long as there are no more of them than the window
\* can remember (begin_exchange, remember_stale).
THEOREM ExchangeRemembers == WindowsSpec => []LateRepliesRemembered
<1>1. ExchangeInv => LateRepliesRemembered
  BY RememberedAll
<1> QED
  BY <1>1, ExchangeInvariant, PTL

-----------------------------------------------------------------------------
(* The union: types *)

Candidate == Union!Generation
FenceSet == [Union!Source -> Nat]
Stages == {"none", "freezing", "waiting", "installed", "ended", "done"}
TransportStages == {"none", "commit", "status", "waiting", "over"}
CommitAnswers ==
    {"none", "pending", "committed", "stale", "superseded", "conflict", "refused",
     "unknown", "failed"}
JobSet == [stage : Stages, frozen : FenceSet, revision : Nat,
           basis : FenceSet, ok : BOOLEAN]
TaskSet == [stage : TransportStages, outcome : CommitAnswers]
SlotSet ==
    [generation : Candidate \cup {0}, frozen : FenceSet,
     outcome : {"none", "pending", "committed", "stale"}, epoch : Nat]
RequestSet ==
    [view : UnionView, generation : Candidate, kind : {"commit", "status"}, live : BOOLEAN]
UnionSet == [generation : Candidate \cup {0}, frozen : FenceSet, revision : Nat]

WorkerTypes ==
    /\ union_plan \in UnionPlans
    /\ fence \in FenceSet /\ written \in FenceSet /\ cloned \in FenceSet
    /\ overrun \in [Window -> SUBSET Union!Source]
    /\ slots \in [UnionView -> SlotSet]
    /\ next_epoch \in Nat
    /\ handler \in [Window -> Nat]
    /\ guards \in [Window -> FenceSet]
    /\ verdict \in [UnionView -> [Candidate -> {"none", "committed", "stale"}]]

WindowTypes ==
    /\ seen \in [Window -> FenceSet]
    /\ revision \in [Window -> Nat]
    /\ current \in [UnionView -> Candidate \cup {0}]
    /\ published \in [UnionView -> UnionSet]
    /\ job \in [UnionView -> [Candidate -> JobSet]]

TransportTypes ==
    /\ inbox \in [Window -> Seq(RequestSet)]
    /\ task \in [UnionView -> [Candidate -> TaskSet]]

-----------------------------------------------------------------------------
(* The union: candidates, their transports, and the receipt table *)

\* A candidate's fences are frozen for good once its thread has sent it.
Sent(v, g) == job[v][g].stage \notin {"none", "freezing"}

CandidatesOK ==
    \A v \in UnionView, g \in Candidate :
        /\ job[v][g].stage # "none" => g <= current[v]
        /\ task[v][g].stage # "none" => Sent(v, g)

\* A connection carries requests of its own window, for candidates that are sent.
RequestsOK ==
    \A w \in Window : \A k \in DOMAIN inbox[w] :
        UnionWindow[inbox[w][k].view] = w /\ Sent(inbox[w][k].view, inbox[w][k].generation)

\* A slot holds the frozen fences of its candidate, and says how it was settled;
\* no younger candidate has been settled.
SlotOK(v) ==
    /\ slots[v].generation # 0 => /\ Sent(v, slots[v].generation)
                                  /\ slots[v].frozen = job[v][slots[v].generation].frozen
    /\ slots[v].generation = 0 => slots[v].outcome = "none"
    /\ slots[v].outcome = "pending" => verdict[v][slots[v].generation] = "none"
    /\ slots[v].outcome = "committed" => verdict[v][slots[v].generation] = "committed"
    /\ \A g \in Candidate : verdict[v][g] # "none" => g <= slots[v].generation

\* While a connection verifies, the slot is its request's.
VerifyingOK(w) ==
    handler[w] # 0 =>
        /\ inbox[w] # <<>>
        /\ LET r == Head(inbox[w]) IN
           /\ slots[r.view].generation = r.generation
           /\ slots[r.view].outcome = "pending"
           /\ slots[r.view].epoch = handler[w]

\* A read guard keeps the fence where it was taken, but for an update of the state.
GuardsOK ==
    \A w \in Window : \A s \in Union!Source \ overrun[w] :
        guards[w][s] # 0 => guards[w][s] = fence[s]

\* Who has a receipt was committed.
ReceiptsOK ==
    \A v \in UnionView, g \in Candidate :
        task[v][g].outcome = "committed" => verdict[v][g] = "committed"

InstalledOK(v) ==
    /\ published[v].generation <= current[v]
    /\ published[v].generation = 0 => published[v] = Union!NoUnion
    /\ published[v].generation # 0 =>
          /\ Sent(v, published[v].generation)
          /\ verdict[v][published[v].generation] = "committed"
          /\ published[v].frozen = job[v][published[v].generation].frozen

UnionInv ==
    /\ WorkerTypes /\ WindowTypes /\ TransportTypes
    /\ CandidatesOK /\ RequestsOK
    /\ \A v \in UnionView : SlotOK(v) /\ InstalledOK(v)
    /\ \A w \in Window : VerifyingOK(w)
    /\ GuardsOK /\ ReceiptsOK

-----------------------------------------------------------------------------
(* The union: what a step of one part leaves to the others *)

\* One entry of a table is replaced.
LEMMA TableUpdate ==
  ASSUME NEW V, NEW G, NEW S, NEW t \in [V -> [G -> S]], NEW v \in V, NEW g \in G,
         NEW x \in S, NEW u, u = [t EXCEPT ![v][g] = x]
  PROVE  /\ u \in [V -> [G -> S]] /\ u[v][g] = x
         /\ \A a \in V, b \in G : a # v \/ b # g => u[a][b] = t[a][b]
  OBVIOUS

LEMMA CandidateIsNumber ==
  /\ \A g \in Candidate : g \in Nat /\ g > 0 /\ g # 0
  /\ \A g \in Candidate \cup {0} : g \in Nat
<1>1. \A p \in UnionPlans : p.candidates \in Nat
  BY WindowsAssumption
<1> QED
  BY <1>1 DEF Candidate, Union!Generation

LEMMA SourcesNamed == \A k \in DOMAIN Sources : Sources[k] \in Union!Source
  BY DEF Union!Source

LEMMA Appended ==
  ASSUME NEW S, NEW s \in Seq(S), NEW x \in S
  PROVE  /\ Append(s, x) \in Seq(S) /\ Append(s, x) # <<>>
         /\ s # <<>> => Head(Append(s, x)) = Head(s)
         /\ \A k \in DOMAIN Append(s, x) :
               \/ k \in DOMAIN s /\ Append(s, x)[k] = s[k]
               \/ Append(s, x)[k] = x
  OBVIOUS

LEMMA NoFences == Union!Unfrozen \in FenceSet /\ \A s \in Union!Source : Union!Unfrozen[s] = 0
  BY DEF Union!Unfrozen, FenceSet, Union!None

\* What is sent stays sent, under the same fences.
JobsKept ==
    \A v \in UnionView, g \in Candidate :
        Sent(v, g) => Sent(v, g)' /\ job'[v][g].frozen = job[v][g].frozen

VerdictsKept ==
    \A v \in UnionView, g \in Candidate :
        verdict[v][g] = "committed" => verdict'[v][g] = "committed"

LEMMA SlotRests ==
  ASSUME JobsKept, WorkerTypes, NEW v \in UnionView, SlotOK(v), slots'[v] = slots[v],
         verdict'[v] = verdict[v]
  PROVE  SlotOK(v)'
<1>1. slots[v].generation # 0 => slots[v].generation \in Candidate
  BY DEF WorkerTypes, SlotSet
<1> QED
  BY <1>1 DEF SlotOK, JobsKept

LEMMA InstalledRests ==
  ASSUME JobsKept, VerdictsKept, WindowTypes, NEW v \in UnionView, InstalledOK(v),
         published'[v] = published[v], current'[v] = current[v]
  PROVE  InstalledOK(v)'
<1>1. published[v].generation # 0 => published[v].generation \in Candidate
  BY DEF WindowTypes, UnionSet
<1> QED
  BY <1>1 DEF InstalledOK, JobsKept, VerdictsKept

LEMMA RequestsRest ==
  ASSUME JobsKept, TransportTypes, RequestsOK, inbox' = inbox
  PROVE  RequestsOK'
<1>1. \A w \in Window : \A k \in DOMAIN inbox[w] : inbox[w][k] \in RequestSet
  BY Elements DEF TransportTypes
<1>2. \A r \in RequestSet : r.view \in UnionView /\ r.generation \in Candidate
  BY DEF RequestSet
<1> QED
  BY <1>1, <1>2 DEF RequestsOK, JobsKept

LEMMA VerifyingRests ==
  ASSUME UNCHANGED <<handler, inbox, slots>>, NEW w \in Window, VerifyingOK(w)
  PROVE  VerifyingOK(w)'
  BY DEF VerifyingOK

LEMMA RequestTyped ==
  ASSUME TransportTypes, NEW w \in Window, inbox[w] # <<>>
  PROVE  /\ Head(inbox[w]) \in RequestSet /\ Head(inbox[w]).view \in UnionView
         /\ Head(inbox[w]).generation \in Candidate
         /\ 1 \in DOMAIN inbox[w] /\ Head(inbox[w]) = inbox[w][1]
<1>1. inbox[w] \in Seq(RequestSet)
  BY DEF TransportTypes
<1>2. Head(inbox[w]) \in RequestSet /\ 1 \in DOMAIN inbox[w] /\ Head(inbox[w]) = inbox[w][1]
  <2> HIDE DEF RequestSet
  <2> QED
    BY <1>1
<1> QED
  BY <1>2 DEF RequestSet

-----------------------------------------------------------------------------
(* The union: sources *)

\* Requests, slots and candidates are not what moves.
LEMMA WorkerRests ==
  ASSUME UnionInv, WorkerTypes', WindowTypes', GuardsOK',
         UNCHANGED <<slots, handler, verdict, current, published, job, inbox, task>>
  PROVE  UnionInv'
<1>1. TransportTypes' /\ CandidatesOK' /\ ReceiptsOK'
  BY DEF UnionInv, TransportTypes, CandidatesOK, Sent, ReceiptsOK
<1>2. JobsKept /\ VerdictsKept
  BY DEF JobsKept, VerdictsKept, Sent
<1> QED
  BY <1>1, <1>2, SlotRests, InstalledRests, RequestsRest, VerifyingRests DEF UnionInv

LEMMA AwaitKeeps ==
  ASSUME UnionInv, NEW s \in Union!Source, Union!Await(s)
  PROVE  UnionInv'
<1> USE DEF Union!Await, Union!windowVars, Union!transport
<1>1. written' = [written EXCEPT ![s] = @ + 1] /\ written \in FenceSet
  BY DEF UnionInv, WorkerTypes
<1>2. written' \in FenceSet
  BY <1>1 DEF FenceSet
<1>3. WorkerTypes' /\ WindowTypes' /\ GuardsOK'
  BY <1>2 DEF UnionInv, WorkerTypes, WindowTypes, GuardsOK
<1> QED
  BY <1>3, WorkerRests

LEMMA MoveKeeps ==
  ASSUME UnionInv, NEW s \in Union!Source, Union!Move(s)
  PROVE  UnionInv'
<1> USE DEF Union!Move, Union!windowVars, Union!transport
<1>0. fence \in FenceSet /\ written \in FenceSet
  BY DEF UnionInv, WorkerTypes
<1>1. fence' \in FenceSet /\ \A x \in Union!Source : x # s => fence'[x] = fence[x]
  BY <1>0 DEF FenceSet
<1>2. WorkerTypes' /\ WindowTypes'
  BY <1>1 DEF UnionInv, WorkerTypes, WindowTypes
<1>3. GuardsOK'
  BY <1>1 DEF UnionInv, GuardsOK, Union!None
<1> QED
  BY <1>2, <1>3, WorkerRests

LEMMA CloneProgressKeeps ==
  ASSUME UnionInv, NEW s \in Union!Source, Union!CloneProgress(s)
  PROVE  UnionInv'
<1> USE DEF Union!CloneProgress, Union!windowVars, Union!transport
<1>1. cloned' = [cloned EXCEPT ![s] = fence[s]] /\ cloned \in FenceSet /\ fence \in FenceSet
  BY DEF UnionInv, WorkerTypes
<1>2. cloned' \in FenceSet
  BY <1>1 DEF FenceSet
<1>3. WorkerTypes' /\ WindowTypes' /\ GuardsOK'
  BY <1>2 DEF UnionInv, WorkerTypes, WindowTypes, GuardsOK
<1> QED
  BY <1>3, WorkerRests

\* Who has a read guard over the state that is replaced has it counted.
LEMMA UpdateStateKeeps ==
  ASSUME UnionInv, NEW s \in Union!Source, Union!UpdateState(s)
  PROVE  UnionInv'
<1> USE DEF Union!UpdateState, Union!windowVars, Union!transport
<1>0. /\ fence \in FenceSet /\ cloned \in FenceSet
      /\ overrun \in [Window -> SUBSET Union!Source]
  BY DEF UnionInv, WorkerTypes
<1>1. /\ fence' \in FenceSet /\ cloned' \in FenceSet /\ fence'[s] = cloned[s]
      /\ \A x \in Union!Source : x # s => fence'[x] = fence[x]
  BY <1>0 DEF FenceSet, Union!None
<1>2. /\ overrun' \in [Window -> SUBSET Union!Source]
      /\ \A w \in Window : /\ overrun[w] \subseteq overrun'[w]
                           /\ guards[w][s] # 0 /\ cloned[s] # fence[s] => s \in overrun'[w]
  BY <1>0 DEF Union!None
<1>3. WorkerTypes' /\ WindowTypes'
  BY <1>1, <1>2 DEF UnionInv, WorkerTypes, WindowTypes
<1>4. GuardsOK'
  <2> SUFFICES ASSUME NEW w \in Window, NEW x \in Union!Source \ overrun'[w],
                      guards[w][x] # 0
               PROVE  guards[w][x] = fence'[x]
    BY DEF GuardsOK
  <2>1. guards[w][x] = fence[x]
    BY <1>2 DEF UnionInv, GuardsOK
  <2> QED
    BY <2>1, <1>1, <1>2
<1> QED
  BY <1>3, <1>4, WorkerRests

-----------------------------------------------------------------------------
(* The union: the worker's connections *)

\* A reply takes the request off, and tells its transport, if that still waits.
LEMMA ReplyTells ==
  ASSUME TransportTypes, CandidatesOK, RequestsOK, ReceiptsOK, JobsKept,
         NEW w \in Window, inbox[w] # <<>>, NEW said \in CommitAnswers,
         Union!Reply(w, said),
         job' = job, current' = current, VerdictsKept,
         said = "committed" =>
            verdict'[Head(inbox[w]).view][Head(inbox[w]).generation] = "committed"
  PROVE  /\ TransportTypes' /\ CandidatesOK' /\ RequestsOK' /\ ReceiptsOK'
         /\ \A x \in Window : x # w => inbox'[x] = inbox[x]
<1> DEFINE r == Head(inbox[w])
           new == CASE said = "pending" -> "status"
                    [] said = "unknown" -> "commit"
                    [] OTHER -> "over"
           t == [stage |-> new, outcome |-> IF new = "over" THEN said ELSE "none"]
<1>1. r.view \in UnionView /\ r.generation \in Candidate /\ 1 \in DOMAIN inbox[w]
      /\ r = inbox[w][1]
  BY RequestTyped
<1>2. inbox' = [inbox EXCEPT ![w] = Tail(@)]
      /\ task' = IF r.live THEN [task EXCEPT ![r.view][r.generation] = t] ELSE task
  BY DEF Union!Reply, Union!Request
<1>3. inbox[w] \in Seq(RequestSet) /\ inbox \in [Window -> Seq(RequestSet)]
      /\ task \in [UnionView -> [Candidate -> TaskSet]]
  BY DEF TransportTypes
<1>4. /\ inbox' \in [Window -> Seq(RequestSet)] /\ inbox'[w] = Tail(inbox[w])
      /\ \A x \in Window : x # w => inbox'[x] = inbox[x]
      /\ \A k \in DOMAIN inbox'[w] : k + 1 \in DOMAIN inbox[w] /\ inbox'[w][k] = inbox[w][k + 1]
  <2> HIDE DEF RequestSet
  <2>1. Tail(inbox[w]) \in Seq(RequestSet)
        /\ \A k \in DOMAIN Tail(inbox[w]) :
              k + 1 \in DOMAIN inbox[w] /\ Tail(inbox[w])[k] = inbox[w][k + 1]
    BY <1>3
  <2> QED
    BY <2>1, <1>2, <1>3
<1>5. t \in TaskSet /\ t.stage # "none" /\ (t.outcome = "committed" => said = "committed")
  BY DEF TaskSet, TransportStages, CommitAnswers
<1>6. Sent(r.view, r.generation)
  BY <1>1 DEF RequestsOK
<1> HIDE DEF t, r
<1>7. /\ task' \in [UnionView -> [Candidate -> TaskSet]]
      /\ \A v \in UnionView, g \in Candidate :
            \/ task'[v][g] = task[v][g]
            \/ v = r.view /\ g = r.generation /\ task'[v][g] = t
  <2>1. CASE r.live
    <3>1. task' = [task EXCEPT ![r.view][r.generation] = t]
      BY <2>1, <1>2
    <3> HIDE DEF TaskSet
    <3> QED
      BY <3>1, <1>1, <1>3, <1>5, TableUpdate
  <2>2. CASE ~r.live
    BY <2>2, <1>2, <1>3
  <2> QED
    BY <2>1, <2>2
<1>8. TransportTypes'
  BY <1>4, <1>7 DEF TransportTypes
<1>9. CandidatesOK'
  BY <1>5, <1>6, <1>7 DEF CandidatesOK, Sent
<1>10. RequestsOK'
  <2>1. ASSUME NEW x \in Window, NEW k \in DOMAIN inbox'[x]
        PROVE  \E j \in DOMAIN inbox[x] : inbox'[x][k] = inbox[x][j]
    BY <1>4
  <2> QED
    BY <2>1 DEF RequestsOK, Sent
<1>11. ReceiptsOK'
  BY <1>1, <1>5, <1>7 DEF ReceiptsOK, VerdictsKept, r
<1> QED
  BY <1>4, <1>8, <1>9, <1>10, <1>11

\* A slot answers "committed" for the candidate it settled, and for no other.
LEMMA SlotAnswers ==
  ASSUME UnionInv, NEW v \in UnionView, NEW g \in Candidate, NEW frozen
  PROVE  /\ Union!Status(v, g) \in CommitAnswers
         /\ Union!Status(v, g) = "committed" => verdict[v][g] = "committed"
         /\ Union!Admission(v, g, frozen) \in CommitAnswers \cup {"verify"}
         /\ Union!Admission(v, g, frozen) = "committed" => verdict[v][g] = "committed"
         /\ Union!Admission(v, g, frozen) = "verify" => g > slots[v].generation
<1>0. SlotOK(v) /\ slots[v] \in SlotSet
  BY DEF UnionInv, WorkerTypes
<1>1. /\ slots[v].generation \in Nat /\ g \in Nat /\ g > 0
      /\ slots[v].outcome \in {"none", "pending", "committed", "stale"}
      /\ slots[v] = Union!NoSlot => slots[v].generation = 0
  <2>1. slots[v].generation \in Candidate \cup {0}
        /\ slots[v].outcome \in {"none", "pending", "committed", "stale"}
    BY <1>0 DEF SlotSet
  <2>2. slots[v] = Union!NoSlot => slots[v].generation = 0
    BY DEF Union!NoSlot, Union!None
  <2>3. g \in Nat /\ g > 0
    BY CandidateIsNumber
  <2>4. slots[v].generation \in Nat
    BY <2>1, CandidateIsNumber
  <2> QED
    BY <2>1, <2>2, <2>3, <2>4
<1>2. slots[v].outcome = "committed" => verdict[v][slots[v].generation] = "committed"
  BY <1>0 DEF SlotOK
<1>3. g < slots[v].generation \/ g = slots[v].generation \/ g > slots[v].generation
  BY <1>1
<1>4. /\ Union!Status(v, g) \in {"unknown", "superseded"}
            \/ (g = slots[v].generation /\ Union!Status(v, g) = slots[v].outcome)
  BY <1>1, <1>3 DEF Union!Status
<1>5. \/ Union!Admission(v, g, frozen) \in {"refused", "superseded", "conflict"}
      \/ Union!Admission(v, g, frozen) = "verify" /\ g > slots[v].generation
      \/ g = slots[v].generation /\ Union!Admission(v, g, frozen) = slots[v].outcome
  <2>1. CASE slots[v] = Union!NoSlot
    BY <2>1, <1>1 DEF Union!Admission
  <2>2. CASE slots[v] # Union!NoSlot
    BY <2>2, <1>1, <1>3 DEF Union!Admission
  <2> QED
    BY <2>1, <2>2
<1> QED
  BY <1>1, <1>2, <1>4, <1>5 DEF CommitAnswers

LEMMA AnswerKeeps ==
  ASSUME UnionInv, NEW w \in Window, Union!Answer(w)
  PROVE  UnionInv'
<1> DEFINE r == Union!Request(w)
           said == IF r.kind = "status" THEN Union!Status(r.view, r.generation)
                   ELSE Union!Admission(r.view, r.generation, Union!FrozenOf(r))
<1>1. /\ inbox[w] # <<>> /\ handler[w] = 0 /\ said # "verify" /\ Union!Reply(w, said)
      /\ UNCHANGED <<fence, written, cloned, overrun, slots, next_epoch, handler, guards,
                     union_plan, verdict>>
      /\ UNCHANGED <<seen, revision, current, published, job>>
  BY DEF Union!Answer, Union!workerVars, Union!sourceVars, Union!windowVars, Union!None
<1>2. r = Head(inbox[w]) /\ r.view \in UnionView /\ r.generation \in Candidate
  BY <1>1, RequestTyped DEF UnionInv, Union!Request
<1>3. said \in CommitAnswers /\ (said = "committed" => verdict[r.view][r.generation] = "committed")
  BY <1>1, <1>2, SlotAnswers
<1> HIDE DEF said, r
<1>4. JobsKept /\ VerdictsKept
  BY <1>1 DEF JobsKept, VerdictsKept, Sent
<1>5. /\ TransportTypes' /\ CandidatesOK' /\ RequestsOK' /\ ReceiptsOK'
      /\ \A x \in Window : x # w => inbox'[x] = inbox[x]
  BY <1>1, <1>2, <1>3, <1>4, ReplyTells DEF UnionInv
<1>6. WorkerTypes' /\ WindowTypes' /\ GuardsOK'
  BY <1>1 DEF UnionInv, WorkerTypes, WindowTypes, GuardsOK
<1>7. \A x \in Window : VerifyingOK(x)'
  BY <1>1, <1>5 DEF UnionInv, VerifyingOK
<1>8. \A v \in UnionView : SlotOK(v)' /\ InstalledOK(v)'
  BY <1>1, <1>4, SlotRests, InstalledRests DEF UnionInv
<1> QED
  BY <1>5, <1>6, <1>7, <1>8 DEF UnionInv

\* A connection has a view of its window in its hands, and no other has it.
LEMMA RequestsApart ==
  ASSUME UnionInv, NEW w \in Window, NEW x \in Window, inbox[w] # <<>>, inbox[x] # <<>>,
         w # x
  PROVE  Head(inbox[w]).view # Head(inbox[x]).view
  BY RequestTyped DEF UnionInv, RequestsOK

LEMMA AdmitKeeps ==
  ASSUME UnionInv, NEW w \in Window, Union!Admit(w)
  PROVE  UnionInv'
<1> DEFINE r == Union!Request(w)
           slot == [generation |-> r.generation, frozen |-> Union!FrozenOf(r),
                    outcome |-> "pending", epoch |-> next_epoch]
<1>1. /\ inbox[w] # <<>> /\ handler[w] = 0
      /\ Union!Admission(r.view, r.generation, Union!FrozenOf(r)) = "verify"
      /\ slots' = [slots EXCEPT ![r.view] = slot]
      /\ next_epoch' = next_epoch + 1
      /\ handler' = [handler EXCEPT ![w] = next_epoch]
      /\ UNCHANGED <<fence, written, cloned, overrun, guards, union_plan, verdict, seen,
                     revision, current, published, job, inbox, task>>
  BY DEF Union!Admit, Union!sourceVars, Union!windowVars, Union!transport, Union!None
<1>2. r = Head(inbox[w]) /\ r.view \in UnionView /\ r.generation \in Candidate
      /\ Sent(r.view, r.generation)
  BY <1>1, RequestTyped DEF UnionInv, Union!Request, RequestsOK
<1>3. r.generation > slots[r.view].generation
  BY <1>1, <1>2, SlotAnswers
<1>4. job[r.view][r.generation] \in JobSet
  BY <1>2 DEF UnionInv, WindowTypes
<1>5. slot \in SlotSet /\ slot.frozen = job[r.view][r.generation].frozen
  BY <1>2, <1>4 DEF SlotSet, JobSet, Union!FrozenOf, UnionInv, WorkerTypes
<1>6. /\ slots' \in [UnionView -> SlotSet] /\ slots'[r.view] = slot
      /\ \A v \in UnionView : v # r.view => slots'[v] = slots[v]
  <2> HIDE DEF slot, r
  <2> QED
    BY <1>1, <1>2, <1>5 DEF UnionInv, WorkerTypes
<1>7. /\ handler' \in [Window -> Nat] /\ next_epoch' \in Nat /\ handler'[w] = next_epoch
      /\ \A x \in Window : x # w => handler'[x] = handler[x]
  BY <1>1 DEF UnionInv, WorkerTypes
<1>8. slot.generation = r.generation /\ slot.outcome = "pending" /\ slot.epoch = next_epoch
  OBVIOUS
<1>9. JobsKept /\ VerdictsKept
  BY <1>1 DEF JobsKept, VerdictsKept, Sent
<1> HIDE DEF slot
<1>10. WorkerTypes' /\ WindowTypes' /\ TransportTypes'
  BY <1>1, <1>6, <1>7 DEF UnionInv, WorkerTypes, WindowTypes, TransportTypes
<1>11. CandidatesOK' /\ RequestsOK' /\ GuardsOK' /\ ReceiptsOK'
  BY <1>1 DEF UnionInv, CandidatesOK, RequestsOK, GuardsOK, ReceiptsOK, Sent
<1> HIDE DEF r
<1>12. ASSUME NEW v \in UnionView PROVE SlotOK(v)'
  <2>1. CASE v # r.view
    BY <2>1, <1>1, <1>6, <1>9, SlotRests DEF UnionInv
  <2>2. CASE v = r.view
    <3>0. SlotOK(v) /\ slots[v].generation \in Candidate \cup {0}
      BY DEF UnionInv, WorkerTypes, SlotSet
    <3>1. SlotOK(v) /\ slots[v].generation \in Nat /\ r.generation \in Nat
          /\ r.generation > slots[v].generation
      <4>1. slots[v].generation \in Nat
        BY <3>0, CandidateIsNumber
      <4>2. r.generation \in Nat
        BY <1>2, CandidateIsNumber
      <4> QED
        BY <3>0, <4>1, <4>2, <1>3, <2>2
    <3>2. verdict[v][r.generation] = "none"
      <4>1. verdict[v][r.generation] # "none" => r.generation <= slots[v].generation
        BY <2>2, <3>1, <1>2 DEF SlotOK
      <4> QED
        BY <4>1, <3>1
    <3>3. \A g \in Candidate : verdict[v][g] # "none" => g <= r.generation
      <4>1. \A g \in Candidate : verdict[v][g] # "none" => g <= slots[v].generation
        BY <3>1 DEF SlotOK
      <4>2. \A g \in Nat : g <= slots[v].generation => g <= r.generation
        BY <3>1
      <4> QED
        BY <4>1, <4>2, CandidateIsNumber
    <3>4. r.generation # 0
      BY <1>2, CandidateIsNumber
    <3> QED
      BY <2>2, <3>2, <3>3, <3>4, <1>1, <1>2, <1>5, <1>6, <1>8 DEF SlotOK, Sent
  <2> QED
    BY <2>1, <2>2
<1>13. \A v \in UnionView : InstalledOK(v)'
  BY <1>1, <1>9, InstalledRests DEF UnionInv
<1>14. ASSUME NEW x \in Window PROVE VerifyingOK(x)'
  <2>1. CASE x = w
    BY <2>1, <1>1, <1>2, <1>6, <1>7, <1>8 DEF VerifyingOK
  <2>2. CASE x # w /\ inbox[x] # <<>>
    <3>1. Head(inbox[x]).view \in UnionView /\ Head(inbox[x]).view # r.view
      BY <2>2, <1>1, <1>2, RequestTyped, RequestsApart DEF UnionInv
    <3> QED
      BY <2>2, <3>1, <1>1, <1>6, <1>7 DEF UnionInv, VerifyingOK
  <2>3. CASE x # w /\ inbox[x] = <<>>
    BY <2>3, <1>1, <1>7 DEF UnionInv, VerifyingOK
  <2> QED
    BY <2>1, <2>2, <2>3
<1> QED
  BY <1>10, <1>11, <1>12, <1>13, <1>14 DEF UnionInv

LEMMA LockProgressKeeps ==
  ASSUME UnionInv, NEW w \in Window, Union!LockProgress(w)
  PROVE  UnionInv'
<1>1. PICK s \in Union!Source : Union!TakeGuard(w, s)
  BY SourcesNamed DEF Union!LockProgress
<1>2. /\ guards' = [guards EXCEPT ![w][s] = fence[s]]
      /\ UNCHANGED <<fence, written, cloned, overrun, slots, next_epoch, handler,
                     union_plan, verdict, seen, revision, current, published, job, inbox,
                     task>>
  BY <1>1 DEF Union!TakeGuard, Union!sourceVars, Union!windowVars, Union!transport
<1>3. fence \in FenceSet /\ guards \in [Window -> FenceSet]
  BY DEF UnionInv, WorkerTypes
<1>4. /\ guards' \in [Window -> FenceSet] /\ guards'[w][s] = fence[s]
      /\ \A x \in Window, y \in Union!Source :
            x # w \/ y # s => guards'[x][y] = guards[x][y]
  BY <1>2, <1>3, TableUpdate DEF FenceSet
<1>5. /\ WorkerTypes' /\ WindowTypes' /\ TransportTypes'
      /\ CandidatesOK' /\ ReceiptsOK'
  BY <1>2, <1>4 DEF UnionInv, WorkerTypes, WindowTypes, TransportTypes, CandidatesOK, Sent,
                    ReceiptsOK
<1>6. JobsKept /\ VerdictsKept
  BY <1>2 DEF JobsKept, VerdictsKept, Sent
<1>7. GuardsOK'
  BY <1>2, <1>4 DEF UnionInv, GuardsOK
<1> QED
  BY <1>2, <1>5, <1>6, <1>7, SlotRests, InstalledRests, RequestsRest, VerifyingRests
  DEF UnionInv

\* What a connection settles it settles for its own request, and it says
\* "committed" only when the fences that no update has changed are the frozen
\* ones.
LEMMA SettleSays ==
  ASSUME UnionInv, NEW w \in Window, Union!Settle(w)
  PROVE  /\ handler[w] # 0 /\ inbox[w] # <<>>
         /\ slots[Head(inbox[w]).view].generation = Head(inbox[w]).generation
         /\ slots[Head(inbox[w]).view].outcome = "pending"
         /\ slots[Head(inbox[w]).view].epoch = handler[w]
         /\ Union!Outcome(w) \in {"committed", "stale"}
         /\ Union!Outcome(w) = "committed" =>
               \A s \in Union!Source \ overrun[w] :
                  job[Head(inbox[w]).view][Head(inbox[w]).generation].frozen[s] = fence[s]
<1> DEFINE r == Head(inbox[w])
<1>1. handler[w] # 0 /\ \A s \in Union!Source : guards[w][s] # 0
  BY DEF Union!Settle, Union!None
<1>2. /\ inbox[w] # <<>>
      /\ slots[r.view].generation = r.generation
      /\ slots[r.view].outcome = "pending"
      /\ slots[r.view].epoch = handler[w]
  BY <1>1 DEF UnionInv, VerifyingOK
<1>3. r.view \in UnionView /\ r.generation \in Candidate /\ r.generation # 0
  BY <1>2, RequestTyped, CandidateIsNumber DEF UnionInv
<1>4. slots[r.view].frozen = job[r.view][r.generation].frozen
  BY <1>2, <1>3 DEF UnionInv, SlotOK
<1>5. \A s \in Union!Source \ overrun[w] : guards[w][s] = fence[s]
  BY <1>1 DEF UnionInv, GuardsOK
<1>6. Union!Outcome(w) = IF slots[r.view].frozen = guards[w] THEN "committed" ELSE "stale"
  BY <1>2 DEF Union!Outcome, Union!Request
<1> QED
  BY <1>1, <1>2, <1>4, <1>5, <1>6

LEMMA SettleKeeps ==
  ASSUME UnionInv, NEW w \in Window, Union!Settle(w)
  PROVE  UnionInv'
<1> DEFINE r == Head(inbox[w])
           said == Union!Outcome(w)
           slot == [slots[r.view] EXCEPT !.outcome = said]
<1>1. /\ handler[w] # 0 /\ inbox[w] # <<>>
      /\ slots[r.view].generation = r.generation
      /\ slots[r.view].outcome = "pending" /\ slots[r.view].epoch = handler[w]
      /\ said \in {"committed", "stale"}
  BY SettleSays
<1>2. /\ r.view \in UnionView /\ r.generation \in Candidate /\ r.generation # 0
      /\ Sent(r.view, r.generation)
  BY <1>1, RequestTyped, CandidateIsNumber DEF UnionInv, RequestsOK
<1>3. /\ slots' = [slots EXCEPT ![r.view].outcome = said]
      /\ verdict' = [verdict EXCEPT ![r.view][r.generation] = said]
      /\ guards' = [guards EXCEPT ![w] = Union!Unfrozen]
      /\ handler' = [handler EXCEPT ![w] = 0]
      /\ Union!Reply(w, said)
      /\ overrun' = [overrun EXCEPT ![w] = {}]
      /\ UNCHANGED <<fence, written, cloned, next_epoch, union_plan, seen, revision,
                     current, published, job>>
  BY <1>1 DEF Union!Settle, Union!sourceVars, Union!windowVars, Union!None, Union!Request
<1> HIDE DEF said, r
<1>4. /\ slots \in [UnionView -> SlotSet] /\ slots[r.view] \in SlotSet
      /\ handler \in [Window -> Nat] /\ guards \in [Window -> FenceSet]
      /\ overrun \in [Window -> SUBSET Union!Source]
      /\ verdict \in [UnionView -> [Candidate -> {"none", "committed", "stale"}]]
  BY <1>2 DEF UnionInv, WorkerTypes
<1>5. /\ slot \in SlotSet /\ slot.generation = slots[r.view].generation
      /\ slot.frozen = slots[r.view].frozen /\ slot.outcome = said
  BY <1>1, <1>4 DEF SlotSet
<1>6. /\ slots' \in [UnionView -> SlotSet] /\ slots'[r.view] = slot
      /\ \A v \in UnionView : v # r.view => slots'[v] = slots[v]
  <2>1. slots' = [slots EXCEPT ![r.view] = slot]
    BY <1>3, <1>4
  <2> HIDE DEF slot
  <2> QED
    BY <2>1, <1>2, <1>4, <1>5
<1> HIDE DEF slot
<1>7. /\ verdict' \in [UnionView -> [Candidate -> {"none", "committed", "stale"}]]
      /\ verdict'[r.view][r.generation] = said
      /\ \A v \in UnionView, g \in Candidate :
            v # r.view \/ g # r.generation => verdict'[v][g] = verdict[v][g]
  BY <1>1, <1>2, <1>3, <1>4, TableUpdate
<1>8. verdict[r.view][r.generation] = "none"
  BY <1>1, <1>2 DEF UnionInv, SlotOK
<1>9. /\ guards' \in [Window -> FenceSet] /\ handler' \in [Window -> Nat]
      /\ guards'[w] = Union!Unfrozen /\ handler'[w] = 0
      /\ \A x \in Window : x # w => guards'[x] = guards[x] /\ handler'[x] = handler[x]
      /\ overrun' \in [Window -> SUBSET Union!Source]
      /\ \A x \in Window : x # w => overrun'[x] = overrun[x]
  BY <1>3, <1>4, NoFences
<1>10. JobsKept /\ VerdictsKept
  <2>1. JobsKept
    BY <1>3 DEF JobsKept, Sent
  <2>2. VerdictsKept
    BY <1>7, <1>8 DEF VerdictsKept
  <2> QED
    BY <2>1, <2>2
<1>11. /\ TransportTypes' /\ CandidatesOK' /\ RequestsOK' /\ ReceiptsOK'
       /\ \A x \in Window : x # w => inbox'[x] = inbox[x]
  <2>1. said \in CommitAnswers
    BY <1>1 DEF CommitAnswers
  <2> QED
    BY <2>1, <1>1, <1>3, <1>7, <1>10, ReplyTells DEF UnionInv, r
<1>12. WorkerTypes' /\ WindowTypes'
  BY <1>3, <1>6, <1>7, <1>9 DEF UnionInv, WorkerTypes, WindowTypes
<1>13. GuardsOK'
  BY <1>3, <1>9, NoFences DEF UnionInv, GuardsOK
<1>14. ASSUME NEW v \in UnionView PROVE SlotOK(v)'
  <2>1. CASE v # r.view
    <3>1. verdict'[v] = verdict[v]
      BY <2>1, <1>4, <1>7
    <3> QED
      BY <2>1, <3>1, <1>6, <1>10, SlotRests DEF UnionInv
  <2>2. CASE v = r.view
    <3>1. SlotOK(v)
      BY DEF UnionInv
    <3>2. \A g \in Candidate : verdict'[v][g] # "none" => g <= slots'[v].generation
      <4>1. \A g \in Candidate : g # r.generation =>
               (verdict'[v][g] # "none" => g <= slots[v].generation)
        BY <2>2, <3>1, <1>7 DEF SlotOK
      <4>2. r.generation <= slots[v].generation
        BY <2>2, <1>1, <1>2, CandidateIsNumber
      <4> QED
        BY <4>1, <4>2, <2>2, <1>5, <1>6
    <3>3. slots'[v].generation = r.generation /\ slots'[v].outcome = said
          /\ slots'[v].frozen = slots[v].frozen
      BY <2>2, <1>1, <1>5, <1>6
    <3> QED
      BY <2>2, <3>1, <3>2, <3>3, <1>1, <1>2, <1>3, <1>7 DEF SlotOK, Sent
  <2> QED
    BY <2>1, <2>2
<1>15. \A v \in UnionView : InstalledOK(v)'
  BY <1>3, <1>10, InstalledRests DEF UnionInv
<1>16. ASSUME NEW x \in Window PROVE VerifyingOK(x)'
  <2>1. CASE x = w
    BY <2>1, <1>9 DEF VerifyingOK
  <2>2. CASE x # w /\ inbox[x] # <<>>
    <3>1. Head(inbox[x]).view \in UnionView /\ Head(inbox[x]).view # r.view
      BY <2>2, <1>1, RequestTyped, RequestsApart DEF UnionInv, r
    <3> QED
      BY <2>2, <3>1, <1>6, <1>9, <1>11 DEF UnionInv, VerifyingOK
  <2>3. CASE x # w /\ inbox[x] = <<>>
    BY <2>3, <1>9, <1>11 DEF UnionInv, VerifyingOK
  <2> QED
    BY <2>1, <2>2, <2>3
<1> QED
  BY <1>11, <1>12, <1>13, <1>14, <1>15, <1>16 DEF UnionInv

-----------------------------------------------------------------------------
(* The union: transports *)

LEMMA SendKeeps ==
  ASSUME UnionInv, NEW v \in UnionView, NEW g \in Candidate, Union!Send(v, g)
  PROVE  UnionInv'
<1> DEFINE w == UnionWindow[v]
           r == [view |-> v, generation |-> g, kind |-> task[v][g].stage, live |-> TRUE]
           t == [task[v][g] EXCEPT !.stage = "waiting"]
<1>1. /\ task[v][g].stage \in {"commit", "status"}
      /\ inbox' = [inbox EXCEPT ![w] = Append(@, r)]
      /\ task' = [task EXCEPT ![v][g].stage = "waiting"]
      /\ UNCHANGED <<fence, written, cloned, overrun, slots, next_epoch, handler, guards,
                     union_plan, verdict, seen, revision, current, published, job>>
  BY DEF Union!Send, Union!workerVars, Union!sourceVars, Union!windowVars
<1>2. w \in Window
  BY WindowsAssumption
<1>3. /\ inbox \in [Window -> Seq(RequestSet)] /\ inbox[w] \in Seq(RequestSet)
      /\ task \in [UnionView -> [Candidate -> TaskSet]] /\ task[v][g] \in TaskSet
  BY <1>2 DEF UnionInv, TransportTypes
<1>4. r \in RequestSet /\ r.view = v /\ r.generation = g
  BY <1>1 DEF RequestSet
<1>5. t \in TaskSet /\ t.stage = "waiting" /\ t.outcome = task[v][g].outcome
  BY <1>3 DEF TaskSet, TransportStages
<1>6. Sent(v, g)
  BY <1>1 DEF UnionInv, CandidatesOK
<1> HIDE DEF r, w
<1>7. /\ inbox' \in [Window -> Seq(RequestSet)] /\ inbox'[w] = Append(inbox[w], r)
      /\ \A x \in Window : x # w => inbox'[x] = inbox[x]
  <2> HIDE DEF RequestSet
  <2> QED
    BY <1>1, <1>2, <1>3, <1>4
<1>8. /\ inbox[w] # <<>> => Head(inbox'[w]) = Head(inbox[w])
      /\ inbox'[w] # <<>>
      /\ \A k \in DOMAIN inbox'[w] : \/ k \in DOMAIN inbox[w] /\ inbox'[w][k] = inbox[w][k]
                                     \/ inbox'[w][k] = r
  <2> HIDE DEF RequestSet
  <2> QED
    BY <1>3, <1>4, <1>7, Appended
<1>9. /\ task' \in [UnionView -> [Candidate -> TaskSet]] /\ task'[v][g] = t
      /\ \A a \in UnionView, b \in Candidate : a # v \/ b # g => task'[a][b] = task[a][b]
  <2>1. task' = [task EXCEPT ![v][g] = t]
    BY <1>1, <1>3
  <2> HIDE DEF t, TaskSet
  <2> QED
    BY <2>1, <1>3, <1>5, TableUpdate
<1> HIDE DEF t
<1>10. WorkerTypes' /\ WindowTypes' /\ TransportTypes'
  BY <1>1, <1>7, <1>9 DEF UnionInv, WorkerTypes, WindowTypes, TransportTypes
<1>11. CandidatesOK'
  BY <1>1, <1>6, <1>9 DEF UnionInv, CandidatesOK, Sent
<1>12. RequestsOK'
  <2>1. ASSUME NEW x \in Window, NEW k \in DOMAIN inbox'[x]
        PROVE  \/ \E j \in DOMAIN inbox[x] : inbox'[x][k] = inbox[x][j]
               \/ x = w /\ inbox'[x][k] = r
    BY <1>7, <1>8
  <2>2. \A a \in UnionView, b \in Candidate : Sent(a, b)' <=> Sent(a, b)
    BY <1>1 DEF Sent
  <2>3. ASSUME NEW x \in Window, NEW k \in DOMAIN inbox'[x]
        PROVE  /\ UnionWindow[inbox'[x][k].view] = x
               /\ Sent(inbox'[x][k].view, inbox'[x][k].generation)
    BY <2>1, <1>4, <1>6 DEF UnionInv, RequestsOK, w
  <2> QED
    BY <2>3, <1>1 DEF RequestsOK, Sent
<1>13. GuardsOK' /\ ReceiptsOK'
  BY <1>1, <1>5, <1>9 DEF UnionInv, GuardsOK, ReceiptsOK
<1>14. JobsKept /\ VerdictsKept
  BY <1>1 DEF JobsKept, VerdictsKept, Sent
<1>15. \A x \in UnionView : SlotOK(x)' /\ InstalledOK(x)'
  BY <1>1, <1>14, SlotRests, InstalledRests DEF UnionInv
<1>16. \A x \in Window : VerifyingOK(x)'
  BY <1>1, <1>7, <1>8 DEF UnionInv, VerifyingOK
<1> QED
  BY <1>10, <1>11, <1>12, <1>13, <1>15, <1>16 DEF UnionInv

LEMMA AttemptTimeoutKeeps ==
  ASSUME UnionInv, NEW w \in Window, Union!AttemptTimeout(w)
  PROVE  UnionInv'
<1> DEFINE k == CHOOSE j \in DOMAIN inbox[w] : inbox[w][j].live
           r == inbox[w][k]
           s == [r EXCEPT !.live = FALSE]
           t == [task[r.view][r.generation] EXCEPT !.stage = "status"]
<1>1. /\ \E j \in DOMAIN inbox[w] : inbox[w][j].live
      /\ inbox' = [inbox EXCEPT ![w][k].live = FALSE]
      /\ task' = [task EXCEPT ![r.view][r.generation].stage = "status"]
      /\ UNCHANGED <<fence, written, cloned, overrun, slots, next_epoch, handler, guards,
                     union_plan, verdict, seen, revision, current, published, job>>
  BY DEF Union!AttemptTimeout, Union!Busy, Union!workerVars, Union!sourceVars,
     Union!windowVars
<1>2. k \in DOMAIN inbox[w]
  BY <1>1
<1> HIDE DEF k
<1>3. /\ inbox \in [Window -> Seq(RequestSet)] /\ inbox[w] \in Seq(RequestSet)
      /\ task \in [UnionView -> [Candidate -> TaskSet]]
  BY DEF UnionInv, TransportTypes
<1>4. r \in RequestSet /\ r.view \in UnionView /\ r.generation \in Candidate
  <2>1. r \in RequestSet
    BY <1>2, <1>3, Elements
  <2> QED
    BY <2>1 DEF RequestSet
<1>5. s \in RequestSet /\ s.view = r.view /\ s.generation = r.generation
  BY <1>4 DEF RequestSet
<1>6. Sent(r.view, r.generation)
  BY <1>2 DEF UnionInv, RequestsOK
<1>7. t \in TaskSet /\ t.stage = "status" /\ t.outcome = task[r.view][r.generation].outcome
  <2>1. task[r.view][r.generation] \in TaskSet
    BY <1>3, <1>4
  <2> QED
    BY <2>1 DEF TaskSet, TransportStages
<1>8. /\ inbox' \in [Window -> Seq(RequestSet)]
      /\ \A x \in Window : x # w => inbox'[x] = inbox[x]
      /\ inbox'[w] = [inbox[w] EXCEPT ![k] = s]
  <2>1. inbox' = [inbox EXCEPT ![w] = [inbox[w] EXCEPT ![k] = s]]
    BY <1>1, <1>3
  <2> HIDE DEF s, r, RequestSet
  <2>2. [inbox[w] EXCEPT ![k] = s] \in Seq(RequestSet)
    BY <1>2, <1>3, <1>5
  <2> QED
    BY <2>1, <2>2, <1>3
<1>9. /\ DOMAIN inbox'[w] = DOMAIN inbox[w] /\ inbox'[w] # <<>> /\ inbox[w] # <<>>
      /\ inbox'[w][k] = s /\ \A j \in DOMAIN inbox[w] : j # k => inbox'[w][j] = inbox[w][j]
      /\ Head(inbox'[w]) = inbox'[w][1] /\ Head(inbox[w]) = inbox[w][1]
      /\ 1 \in DOMAIN inbox[w]
  <2> HIDE DEF s, r, RequestSet
  <2> QED
    BY <1>2, <1>3, <1>5, <1>8
<1>10. /\ task' \in [UnionView -> [Candidate -> TaskSet]]
       /\ task'[r.view][r.generation] = t
       /\ \A a \in UnionView, b \in Candidate :
             a # r.view \/ b # r.generation => task'[a][b] = task[a][b]
  <2>1. task' = [task EXCEPT ![r.view][r.generation] = t]
    BY <1>1, <1>3, <1>4
  <2> HIDE DEF t, r, TaskSet
  <2> QED
    BY <2>1, <1>3, <1>4, <1>7, TableUpdate
<1> HIDE DEF t, s, r
<1>11. WorkerTypes' /\ WindowTypes' /\ TransportTypes'
  BY <1>1, <1>8, <1>10 DEF UnionInv, WorkerTypes, WindowTypes, TransportTypes
<1>12. CandidatesOK'
  BY <1>1, <1>6, <1>10 DEF UnionInv, CandidatesOK, Sent
<1>13. \A x \in Window : DOMAIN inbox'[x] = DOMAIN inbox[x] /\ \A j \in DOMAIN inbox[x] :
          inbox'[x][j].view = inbox[x][j].view
          /\ inbox'[x][j].generation = inbox[x][j].generation
  BY <1>5, <1>8, <1>9 DEF r
<1>14. RequestsOK'
  <2>1. ASSUME NEW x \in Window, NEW j \in DOMAIN inbox'[x]
        PROVE  /\ UnionWindow[inbox'[x][j].view] = x
               /\ Sent(inbox'[x][j].view, inbox'[x][j].generation)
    <3>1. /\ j \in DOMAIN inbox[x] /\ inbox'[x][j].view = inbox[x][j].view
          /\ inbox'[x][j].generation = inbox[x][j].generation
      BY <1>13
    <3>2. /\ UnionWindow[inbox[x][j].view] = x
          /\ Sent(inbox[x][j].view, inbox[x][j].generation)
      BY <3>1 DEF UnionInv, RequestsOK
    <3> QED
      BY <3>1, <3>2
  <2> QED
    BY <2>1, <1>1 DEF RequestsOK, Sent
<1>15. GuardsOK' /\ ReceiptsOK'
  BY <1>1, <1>7, <1>10 DEF UnionInv, GuardsOK, ReceiptsOK
<1>16. JobsKept /\ VerdictsKept
  BY <1>1 DEF JobsKept, VerdictsKept, Sent
<1>17. \A x \in UnionView : SlotOK(x)' /\ InstalledOK(x)'
  BY <1>1, <1>16, SlotRests, InstalledRests DEF UnionInv
<1>18. ASSUME NEW x \in Window PROVE VerifyingOK(x)'
  <2>1. CASE x # w
    BY <2>1, <1>1, <1>8 DEF UnionInv, VerifyingOK
  <2>2. CASE x = w
    BY <2>2, <1>1, <1>9, <1>13 DEF UnionInv, VerifyingOK
  <2> QED
    BY <2>1, <2>2
<1> QED
  BY <1>11, <1>12, <1>14, <1>15, <1>17, <1>18 DEF UnionInv

LEMMA DeadlineKeeps ==
  ASSUME UnionInv, NEW v \in UnionView, NEW g \in Candidate, Union!Deadline(v, g)
  PROVE  UnionInv'
<1> DEFINE t == [stage |-> "over", outcome |-> "failed"]
<1>1. /\ task[v][g].stage \in {"commit", "status"}
      /\ task' = [task EXCEPT ![v][g] = t]
      /\ UNCHANGED <<fence, written, cloned, overrun, slots, next_epoch, handler, guards,
                     union_plan, verdict, seen, revision, current, published, job,
                     inbox>>
  BY DEF Union!Deadline, Union!workerVars, Union!sourceVars, Union!windowVars
<1>2. t \in TaskSet /\ t.outcome = "failed"
  BY DEF TaskSet, TransportStages, CommitAnswers
<1>3. task \in [UnionView -> [Candidate -> TaskSet]]
  BY DEF UnionInv, TransportTypes
<1> HIDE DEF t
<1>4. /\ task' \in [UnionView -> [Candidate -> TaskSet]] /\ task'[v][g] = t
      /\ \A a \in UnionView, b \in Candidate : a # v \/ b # g => task'[a][b] = task[a][b]
  <2> HIDE DEF TaskSet
  <2> QED
    BY <1>1, <1>2, <1>3, TableUpdate
<1>5. Sent(v, g)
  BY <1>1 DEF UnionInv, CandidatesOK
<1>6. WorkerTypes' /\ WindowTypes' /\ TransportTypes'
  BY <1>1, <1>4 DEF UnionInv, WorkerTypes, WindowTypes, TransportTypes
<1>7. CandidatesOK' /\ GuardsOK' /\ ReceiptsOK'
  <2>1. CandidatesOK'
    BY <1>1, <1>4, <1>5 DEF UnionInv, CandidatesOK, Sent
  <2>2. GuardsOK' /\ ReceiptsOK'
    BY <1>1, <1>2, <1>4 DEF UnionInv, GuardsOK, ReceiptsOK
  <2> QED
    BY <2>1, <2>2
<1>8. JobsKept /\ VerdictsKept
  BY <1>1 DEF JobsKept, VerdictsKept, Sent
<1> QED
  BY <1>1, <1>6, <1>7, <1>8, SlotRests, InstalledRests, RequestsRest, VerifyingRests
  DEF UnionInv

-----------------------------------------------------------------------------
(* The union: the window *)

LEMMA PollKeeps ==
  ASSUME UnionInv, NEW w \in Window, NEW s \in Union!Source, Union!Poll(w, s)
  PROVE  UnionInv'
<1>1. /\ seen' = [seen EXCEPT ![w][s] = fence[s]]
      /\ UNCHANGED <<fence, written, cloned, overrun, slots, next_epoch, handler, guards,
                     union_plan, verdict, revision, current, published, job, inbox,
                     task>>
  BY DEF Union!Poll, Union!workerVars, Union!sourceVars, Union!transport
<1>2. seen \in [Window -> FenceSet] /\ fence \in FenceSet
  BY DEF UnionInv, WorkerTypes, WindowTypes
<1>3. seen' \in [Window -> FenceSet]
  BY <1>1, <1>2 DEF FenceSet
<1>4. /\ WorkerTypes' /\ WindowTypes' /\ TransportTypes'
      /\ CandidatesOK' /\ GuardsOK' /\ ReceiptsOK'
  BY <1>1, <1>3 DEF UnionInv, WorkerTypes, WindowTypes, TransportTypes, CandidatesOK, Sent,
                    GuardsOK, ReceiptsOK
<1>5. JobsKept /\ VerdictsKept
  BY <1>1 DEF JobsKept, VerdictsKept, Sent
<1> QED
  BY <1>1, <1>4, <1>5, SlotRests, InstalledRests, RequestsRest, VerifyingRests DEF UnionInv

LEMMA RedefineKeeps ==
  ASSUME UnionInv, NEW w \in Window, Union!Redefine(w)
  PROVE  UnionInv'
<1>1. /\ revision' = [revision EXCEPT ![w] = @ + 1]
      /\ UNCHANGED <<fence, written, cloned, overrun, slots, next_epoch, handler, guards,
                     union_plan, verdict, seen, current, published, job, inbox, task>>
  BY DEF Union!Redefine, Union!workerVars, Union!sourceVars, Union!transport
<1>2. revision' \in [Window -> Nat]
  BY <1>1 DEF UnionInv, WindowTypes
<1>3. /\ WorkerTypes' /\ WindowTypes' /\ TransportTypes'
      /\ CandidatesOK' /\ GuardsOK' /\ ReceiptsOK'
  BY <1>1, <1>2 DEF UnionInv, WorkerTypes, WindowTypes, TransportTypes, CandidatesOK, Sent,
                    GuardsOK, ReceiptsOK
<1>4. JobsKept /\ VerdictsKept
  BY <1>1 DEF JobsKept, VerdictsKept, Sent
<1> QED
  BY <1>1, <1>3, <1>4, SlotRests, InstalledRests, RequestsRest, VerifyingRests DEF UnionInv

\* One candidate's thread moves on, and nothing else: what it has sent, it keeps.
JobMoved(v, g, x) ==
    /\ job' \in [UnionView -> [Candidate -> JobSet]] /\ job'[v][g] = x
    /\ \A a \in UnionView, b \in Candidate : a # v \/ b # g => job'[a][b] = job[a][b]
    /\ JobsKept

LEMMA JobMoves ==
  ASSUME UnionInv, NEW v \in UnionView, NEW g \in Candidate, NEW x \in JobSet,
         job' = [job EXCEPT ![v][g] = x],
         Sent(v, g) => x.stage \notin {"none", "freezing"} /\ x.frozen = job[v][g].frozen
  PROVE  JobMoved(v, g, x)
<1>1. job \in [UnionView -> [Candidate -> JobSet]]
  BY DEF UnionInv, WindowTypes
<1>2. /\ job' \in [UnionView -> [Candidate -> JobSet]] /\ job'[v][g] = x
      /\ \A a \in UnionView, b \in Candidate : a # v \/ b # g => job'[a][b] = job[a][b]
  <2> HIDE DEF JobSet
  <2> QED
    BY <1>1, TableUpdate
<1>3. JobsKept
  BY <1>2 DEF JobsKept, Sent
<1> QED
  BY <1>2, <1>3 DEF JobMoved

\* Such a step keeps everything that is not of the thread alone.
OthersRest ==
    /\ WorkerTypes' /\ RequestsOK' /\ GuardsOK' /\ VerdictsKept
    /\ \A a \in UnionView : SlotOK(a)'
    /\ \A a \in UnionView, b \in Candidate : job'[a][b].stage # "none" => b <= current'[a]
    /\ task' = task => CandidatesOK'
    /\ \A w \in Window : VerifyingOK(w)'

LEMMA JobStepRests ==
  ASSUME UnionInv, NEW v \in UnionView, NEW g \in Candidate, NEW x \in JobSet,
         job' = [job EXCEPT ![v][g] = x], x.stage # "none", job[v][g].stage # "none",
         Sent(v, g) => x.stage \notin {"none", "freezing"} /\ x.frozen = job[v][g].frozen,
         UNCHANGED <<fence, written, cloned, overrun, slots, next_epoch, handler, guards,
                     union_plan, verdict, seen, revision, current, inbox>>
  PROVE  JobMoved(v, g, x) /\ OthersRest
<1>1. /\ job' \in [UnionView -> [Candidate -> JobSet]] /\ job'[v][g] = x
      /\ \A a \in UnionView, b \in Candidate : a # v \/ b # g => job'[a][b] = job[a][b]
      /\ JobsKept /\ JobMoved(v, g, x)
  <2>1. JobMoved(v, g, x)
    BY JobMoves
  <2> QED
    BY <2>1 DEF JobMoved
<1> HIDE DEF JobSet
<1>2. WorkerTypes' /\ GuardsOK' /\ VerdictsKept
  BY DEF UnionInv, WorkerTypes, GuardsOK, VerdictsKept
<1>3. RequestsOK' /\ (\A a \in UnionView : SlotOK(a)') /\ (\A w \in Window : VerifyingOK(w)')
  BY <1>1, SlotRests, RequestsRest, VerifyingRests DEF UnionInv
<1>4. \A a \in UnionView, b \in Candidate : job'[a][b].stage # "none" => b <= current'[a]
  BY <1>1 DEF UnionInv, CandidatesOK
<1>5. task' = task => CandidatesOK'
  BY <1>1, <1>4 DEF UnionInv, CandidatesOK, JobsKept
<1> QED
  BY <1>1, <1>2, <1>3, <1>4, <1>5 DEF OthersRest

LEMMA ThreadKeeps ==
  ASSUME UnionInv, NEW v \in UnionView, NEW g \in Candidate, NEW x \in JobSet,
         job' = [job EXCEPT ![v][g] = x], x.stage # "none", job[v][g].stage # "none",
         Sent(v, g) => x.stage \notin {"none", "freezing"} /\ x.frozen = job[v][g].frozen,
         UNCHANGED <<fence, written, cloned, overrun, slots, next_epoch, handler, guards,
                     union_plan, verdict, seen, revision, current, published, inbox,
                     task>>
  PROVE  UnionInv'
<1>1. /\ WorkerTypes' /\ RequestsOK' /\ GuardsOK' /\ JobsKept /\ VerdictsKept
      /\ job' \in [UnionView -> [Candidate -> JobSet]]
      /\ \A a \in UnionView : SlotOK(a)'
      /\ CandidatesOK' /\ \A w \in Window : VerifyingOK(w)'
  BY JobStepRests DEF JobMoved, OthersRest
<1> HIDE DEF JobSet
<1>2. WindowTypes' /\ TransportTypes' /\ ReceiptsOK'
  BY <1>1 DEF UnionInv, WindowTypes, TransportTypes, ReceiptsOK
<1>3. \A a \in UnionView : InstalledOK(a)'
  BY <1>1, InstalledRests DEF UnionInv
<1> QED
  BY <1>1, <1>2, <1>3 DEF UnionInv

LEMMA FreezeKeeps ==
  ASSUME UnionInv, NEW v \in UnionView, NEW g \in Candidate, Union!Freeze(v, g)
  PROVE  UnionInv'
<1>1. PICK k \in DOMAIN Sources :
         job' = [job EXCEPT ![v][g].frozen[Sources[k]] = seen[UnionWindow[v]][Sources[k]]]
  BY DEF Union!Freeze
<1> DEFINE s == Sources[k]
           new == [job[v][g].frozen EXCEPT ![s] = seen[UnionWindow[v]][s]]
           x == [job[v][g] EXCEPT !.frozen = new]
<1>2. /\ job[v][g].stage = "freezing"
      /\ UNCHANGED <<fence, written, cloned, overrun, slots, next_epoch, handler, guards,
                     union_plan, verdict, seen, revision, current, published, inbox,
                     task>>
  BY DEF Union!Freeze, Union!workerVars, Union!sourceVars, Union!transport
<1>3. /\ job \in [UnionView -> [Candidate -> JobSet]] /\ job[v][g] \in JobSet
      /\ seen[UnionWindow[v]] \in FenceSet
  BY WindowsAssumption DEF UnionInv, WindowTypes
<1>4. x \in JobSet /\ x.stage = "freezing"
  <2>1. s \in Union!Source
    BY SourcesNamed
  <2>2. job[v][g].frozen \in FenceSet
    BY <1>3 DEF JobSet
  <2>3. new \in FenceSet
    BY <2>1, <2>2, <1>3 DEF FenceSet
  <2> HIDE DEF new
  <2> QED
    BY <2>3, <1>2, <1>3 DEF JobSet
<1>5. job' = [job EXCEPT ![v][g] = x]
  BY <1>1, <1>3
<1>6. ~Sent(v, g)
  BY <1>2 DEF Sent
<1> HIDE DEF x, JobSet
<1> QED
  BY <1>2, <1>4, <1>5, <1>6, ThreadKeeps

LEMMA MarkKeeps ==
  ASSUME UnionInv, NEW v \in UnionView, NEW g \in Candidate, Union!Mark(v, g)
  PROVE  UnionInv'
<1> DEFINE x == [job[v][g] EXCEPT !.stage = "ended", !.ok = TRUE]
<1>1. /\ job[v][g].stage = "installed"
      /\ job' = [job EXCEPT ![v][g].stage = "ended", ![v][g].ok = TRUE]
      /\ UNCHANGED <<fence, written, cloned, overrun, slots, next_epoch, handler, guards,
                     union_plan, verdict, seen, revision, current, published, inbox,
                     task>>
  BY DEF Union!Mark, Union!End, Union!workerVars, Union!sourceVars, Union!transport
<1>2. job \in [UnionView -> [Candidate -> JobSet]] /\ job[v][g] \in JobSet
  BY DEF UnionInv, WindowTypes
<1>3. x \in JobSet /\ x.stage = "ended" /\ x.frozen = job[v][g].frozen
  BY <1>2 DEF JobSet, Stages
<1>4. job' = [job EXCEPT ![v][g] = x]
  BY <1>1, <1>2
<1> HIDE DEF x, JobSet
<1> QED
  BY <1>1, <1>3, <1>4, ThreadKeeps

LEMMA FailKeeps ==
  ASSUME UnionInv, NEW v \in UnionView, NEW g \in Candidate, Union!Fail(v, g)
  PROVE  UnionInv'
<1> DEFINE x == [job[v][g] EXCEPT !.stage = "ended", !.ok = FALSE]
<1>1. /\ job[v][g].stage \in {"freezing", "waiting"}
      /\ job' = [job EXCEPT ![v][g].stage = "ended", ![v][g].ok = FALSE]
      /\ UNCHANGED <<fence, written, cloned, overrun, slots, next_epoch, handler, guards,
                     union_plan, verdict, seen, revision, current, published, inbox,
                     task>>
  BY DEF Union!Fail, Union!End, Union!workerVars, Union!sourceVars, Union!transport
<1>2. job \in [UnionView -> [Candidate -> JobSet]] /\ job[v][g] \in JobSet
  BY DEF UnionInv, WindowTypes
<1>3. x \in JobSet /\ x.stage = "ended" /\ x.frozen = job[v][g].frozen
  BY <1>2 DEF JobSet, Stages
<1>4. job' = [job EXCEPT ![v][g] = x]
  BY <1>1, <1>2
<1> HIDE DEF x, JobSet
<1> QED
  BY <1>1, <1>3, <1>4, ThreadKeeps

LEMMA ReportKeeps ==
  ASSUME UnionInv, NEW v \in UnionView, NEW g \in Candidate, Union!Report(v, g)
  PROVE  UnionInv'
<1> DEFINE x == [job[v][g] EXCEPT !.stage = "done"]
<1>1. /\ job[v][g].stage = "ended"
      /\ job' = [job EXCEPT ![v][g].stage = "done"]
      /\ UNCHANGED <<fence, written, cloned, overrun, slots, next_epoch, handler, guards,
                     union_plan, verdict, seen, revision, current, published, inbox,
                     task>>
  BY DEF Union!Report, Union!Advance, Union!workerVars, Union!sourceVars, Union!transport
<1>2. job \in [UnionView -> [Candidate -> JobSet]] /\ job[v][g] \in JobSet
  BY DEF UnionInv, WindowTypes
<1>3. x \in JobSet /\ x.stage = "done" /\ x.frozen = job[v][g].frozen
  BY <1>2 DEF JobSet, Stages
<1>4. job' = [job EXCEPT ![v][g] = x]
  BY <1>1, <1>2
<1> HIDE DEF x, JobSet
<1> QED
  BY <1>1, <1>3, <1>4, ThreadKeeps

\* What the window keeps of failures and completions disturbs nothing of it.
LEMMA AppStepKeeps ==
  ASSUME UnionInv,
         \/ \E v \in UnionView : Union!RetryDelayEnds(v)
         \/ \E w \in Union!Active : Union!TakeCompletions(w)
  PROVE  UnionInv'
<1>1. UNCHANGED <<fence, written, cloned, overrun, slots, next_epoch, handler, guards,
                  union_plan, verdict, seen, revision, current, published, job, inbox,
                  task>>
  BY DEF Union!RetryDelayEnds, Union!TakeCompletions, Union!workerVars, Union!sourceVars,
         Union!transport
<1>2. WorkerTypes' /\ WindowTypes' /\ GuardsOK'
  BY <1>1 DEF UnionInv, WorkerTypes, WindowTypes, GuardsOK
<1> QED
  BY <1>1, <1>2, WorkerRests

\* From here on the candidate's fences are frozen.
LEMMA RegisterKeeps ==
  ASSUME UnionInv, NEW v \in UnionView, NEW g \in Candidate, Union!Register(v, g)
  PROVE  UnionInv'
<1> DEFINE x == [job[v][g] EXCEPT !.stage = "waiting"]
           t == [task[v][g] EXCEPT !.stage = "commit"]
<1>1. /\ job[v][g].stage = "freezing"
      /\ job' = [job EXCEPT ![v][g].stage = "waiting"]
      /\ task' = [task EXCEPT ![v][g].stage = "commit"]
      /\ UNCHANGED <<fence, written, cloned, overrun, slots, next_epoch, handler, guards,
                     union_plan, verdict, seen, revision, current, published, inbox>>
  BY DEF Union!Register, Union!Advance, Union!workerVars, Union!sourceVars
<1>2. /\ job \in [UnionView -> [Candidate -> JobSet]] /\ job[v][g] \in JobSet
      /\ task \in [UnionView -> [Candidate -> TaskSet]] /\ task[v][g] \in TaskSet
  BY DEF UnionInv, WindowTypes, TransportTypes
<1>3. /\ x \in JobSet /\ x.stage = "waiting" /\ x.frozen = job[v][g].frozen
      /\ t \in TaskSet /\ t.outcome = task[v][g].outcome
  BY <1>2 DEF JobSet, TaskSet, Stages, TransportStages
<1>4. job' = [job EXCEPT ![v][g] = x] /\ task' = [task EXCEPT ![v][g] = t]
  BY <1>1, <1>2
<1>n. ~Sent(v, g)
  BY <1>1 DEF Sent
<1> HIDE DEF x, t, JobSet, TaskSet
<1>5. /\ task' \in [UnionView -> [Candidate -> TaskSet]] /\ task'[v][g] = t
      /\ \A a \in UnionView, b \in Candidate : a # v \/ b # g => task'[a][b] = task[a][b]
  BY <1>2, <1>3, <1>4, TableUpdate
<1>6. /\ WorkerTypes' /\ RequestsOK' /\ GuardsOK' /\ JobsKept /\ VerdictsKept
      /\ job' \in [UnionView -> [Candidate -> JobSet]] /\ job'[v][g] = x
      /\ \A a \in UnionView, b \in Candidate : job'[a][b].stage # "none" => b <= current'[a]
      /\ \A a \in UnionView : SlotOK(a)'
      /\ \A w \in Window : VerifyingOK(w)'
  <2>1. JobMoved(v, g, x) /\ OthersRest
    BY <1>1, <1>3, <1>4, <1>n, JobStepRests
  <2> QED
    BY <2>1 DEF JobMoved, OthersRest
<1>7. WindowTypes' /\ TransportTypes'
  BY <1>1, <1>5, <1>6 DEF UnionInv, WindowTypes, TransportTypes
<1>8. Sent(v, g)'
  BY <1>3, <1>6 DEF Sent
<1>9. CandidatesOK'
  <2>1. \A a \in UnionView, b \in Candidate : task'[a][b].stage # "none" => Sent(a, b)'
    BY <1>5, <1>6, <1>8 DEF UnionInv, CandidatesOK, JobsKept
  <2> QED
    BY <2>1, <1>6 DEF CandidatesOK
<1>10. ReceiptsOK'
  BY <1>1, <1>3, <1>5 DEF UnionInv, ReceiptsOK
<1>11. \A a \in UnionView : InstalledOK(a)'
  BY <1>1, <1>6, InstalledRests DEF UnionInv
<1> QED
  BY <1>6, <1>7, <1>9, <1>10, <1>11 DEF UnionInv

\* What is installed has its receipt.
LEMMA InstallKeeps ==
  ASSUME UnionInv, NEW v \in UnionView, NEW g \in Candidate, Union!Install(v, g)
  PROVE  UnionInv' /\ published'[v].generation >= published[v].generation
         /\ \A a \in UnionView : a # v => published'[a] = published[a]
<1> DEFINE x == [job[v][g] EXCEPT !.stage = "installed"]
           u == [generation |-> g, frozen |-> job[v][g].frozen,
           revision |-> job[v][g].revision]
<1>1. /\ job[v][g].stage = "waiting" /\ task[v][g].outcome = "committed" /\ current[v] = g
      /\ published' = [published EXCEPT ![v] = u]
      /\ job' = [job EXCEPT ![v][g].stage = "installed"]
      /\ UNCHANGED <<fence, written, cloned, overrun, slots, next_epoch, handler, guards,
                     union_plan, verdict, seen, revision, current, inbox, task>>
  BY DEF Union!Install, Union!Advance, Union!workerVars, Union!sourceVars, Union!transport,
         Union!WindowFencesHold, Union!Superseded
<1>2. job \in [UnionView -> [Candidate -> JobSet]] /\ job[v][g] \in JobSet
      /\ published \in [UnionView -> UnionSet]
  BY DEF UnionInv, WindowTypes
<1>3. x \in JobSet /\ x.stage = "installed" /\ x.frozen = job[v][g].frozen
      /\ u \in UnionSet /\ u.generation = g /\ u.frozen = job[v][g].frozen
  BY <1>2 DEF JobSet, UnionSet, Stages
<1>4. job' = [job EXCEPT ![v][g] = x]
  BY <1>1, <1>2
<1> HIDE DEF x, u, JobSet
<1>5. published' \in [UnionView -> UnionSet] /\ published'[v] = u
      /\ \A a \in UnionView : a # v => published'[a] = published[a]
  <2> HIDE DEF UnionSet
  <2> QED
    BY <1>1, <1>2, <1>3
<1>6. /\ WorkerTypes' /\ RequestsOK' /\ GuardsOK' /\ JobsKept /\ VerdictsKept
      /\ job' \in [UnionView -> [Candidate -> JobSet]] /\ job'[v][g] = x
      /\ \A a \in UnionView : SlotOK(a)'
      /\ CandidatesOK' /\ \A w \in Window : VerifyingOK(w)'
  <2>1. JobMoved(v, g, x) /\ OthersRest
    BY <1>1, <1>3, <1>4, JobStepRests
  <2> QED
    BY <2>1, <1>1 DEF JobMoved, OthersRest
<1>7. WindowTypes' /\ TransportTypes' /\ ReceiptsOK'
  BY <1>1, <1>5, <1>6 DEF UnionInv, WindowTypes, TransportTypes, ReceiptsOK
<1>8. verdict[v][g] = "committed"
  BY <1>1 DEF UnionInv, ReceiptsOK
<1>9. ASSUME NEW a \in UnionView PROVE InstalledOK(a)'
  <2>1. CASE a # v
    BY <2>1, <1>1, <1>5, <1>6, InstalledRests DEF UnionInv
  <2>2. CASE a = v
    <3>1. g # 0 /\ g <= g
      BY CandidateIsNumber
    <3> QED
      BY <2>2, <3>1, <1>1, <1>3, <1>5, <1>6, <1>8 DEF InstalledOK, Sent
  <2> QED
    BY <2>1, <2>2
<1>10. published'[v].generation >= published[v].generation
  <2>1. published[v].generation <= current[v]
    BY DEF UnionInv, InstalledOK
  <2>2. published[v].generation \in Nat /\ g \in Nat
    <3>1. published[v].generation \in Candidate \cup {0}
      BY <1>2 DEF UnionSet
    <3> QED
      BY <3>1, CandidateIsNumber
  <2> QED
    BY <2>1, <2>2, <1>1, <1>3, <1>5
<1> QED
  BY <1>5, <1>6, <1>7, <1>9, <1>10 DEF UnionInv

\* A new candidate has a number of its own.
LEMMA SubmitKeeps ==
  ASSUME UnionInv, NEW v \in UnionView, Union!Submit(v)
  PROVE  UnionInv'
<1> DEFINE g == current[v] + 1
           x == [Union!NoJob EXCEPT !.stage = "freezing",
           !.revision = revision[UnionWindow[v]],
                                    !.basis = seen[UnionWindow[v]]]
<1>1. /\ current[v] < union_plan.candidates
      /\ current' = [current EXCEPT ![v] = @ + 1]
      /\ job' = [job EXCEPT ![v][current'[v]] = x]
      /\ UNCHANGED <<fence, written, cloned, overrun, slots, next_epoch, handler, guards,
                     union_plan, verdict, seen, revision, published, inbox, task>>
  BY DEF Union!Submit, Union!workerVars, Union!sourceVars, Union!transport
<1>2. /\ current \in [UnionView -> Candidate \cup {0}] /\ union_plan \in UnionPlans
      /\ job \in [UnionView -> [Candidate -> JobSet]] /\ revision \in [Window -> Nat]
      /\ seen \in [Window -> FenceSet]
  BY DEF UnionInv, WorkerTypes, WindowTypes
<1>3. current[v] \in Nat /\ g \in Candidate /\ current'[v] = g
  <2>1. current[v] \in Nat /\ union_plan.candidates \in Nat
    BY <1>2, CandidateIsNumber, WindowsAssumption
  <2>2. g \in 1..union_plan.candidates
    BY <2>1, <1>1
  <2>3. g \in Candidate
    BY <2>2, <1>2 DEF Candidate, Union!Generation
  <2> QED
    BY <2>1, <2>3, <1>1, <1>2
<1>4. x \in JobSet /\ x.stage = "freezing"
  <2>1. revision[UnionWindow[v]] \in Nat /\ seen[UnionWindow[v]] \in FenceSet
    BY <1>2, WindowsAssumption
  <2> QED
    BY <2>1, NoFences DEF JobSet, Stages, Union!NoJob, Union!None
<1>5. job' = [job EXCEPT ![v][g] = x]
  BY <1>1, <1>3
<1>6. /\ current' \in [UnionView -> Candidate \cup {0}]
      /\ \A a \in UnionView : a # v => current'[a] = current[a]
  BY <1>1, <1>2, <1>3
<1>7. job[v][g].stage = "none"
  <2>1. job[v][g].stage # "none" => g <= current[v]
    BY <1>3 DEF UnionInv, CandidatesOK
  <2>2. ~(g <= current[v])
    BY <1>3
  <2> QED
    BY <2>1, <2>2
<1>8. g > current[v]
  BY <1>3
<1> HIDE DEF x, JobSet, g
<1>9. ~Sent(v, g)
  BY <1>7 DEF Sent
<1>10. /\ job' \in [UnionView -> [Candidate -> JobSet]] /\ job'[v][g] = x
       /\ \A a \in UnionView, b \in Candidate : a # v \/ b # g => job'[a][b] = job[a][b]
       /\ JobsKept
  <2>1. JobMoved(v, g, x)
    BY <1>3, <1>4, <1>5, <1>9, JobMoves
  <2> QED
    BY <2>1 DEF JobMoved
<1>11. WorkerTypes' /\ WindowTypes' /\ TransportTypes'
  BY <1>1, <1>6, <1>10 DEF UnionInv, WorkerTypes, WindowTypes, TransportTypes
<1>12. GuardsOK' /\ ReceiptsOK' /\ VerdictsKept
  BY <1>1 DEF UnionInv, GuardsOK, ReceiptsOK, VerdictsKept
<1>13. RequestsOK' /\ (\A a \in UnionView : SlotOK(a)') /\ (\A w \in Window : VerifyingOK(w)')
  BY <1>1, <1>10, SlotRests, RequestsRest, VerifyingRests DEF UnionInv
<1>14. CandidatesOK'
  <2>1. ASSUME NEW a \in UnionView, NEW b \in Candidate, job'[a][b].stage # "none"
        PROVE  b <= current'[a]
    <3>1. CASE a = v /\ b = g
      <4>1. g \in Nat
        BY <1>3, CandidateIsNumber
      <4> QED
        BY <4>1, <3>1, <1>3
    <3>2. CASE a = v /\ b # g
      <4>1. b <= current[v]
        BY <3>2, <2>1, <1>10 DEF UnionInv, CandidatesOK
      <4>2. b \in Nat /\ g \in Nat
        BY <1>3, CandidateIsNumber
      <4> QED
        BY <4>1, <4>2, <3>2, <1>3, <1>8
    <3>3. CASE a # v
      BY <3>3, <2>1, <1>6, <1>10 DEF UnionInv, CandidatesOK
    <3> QED
      BY <3>1, <3>2, <3>3
  <2>2. \A a \in UnionView, b \in Candidate : task'[a][b].stage # "none" => Sent(a, b)'
    BY <1>1, <1>10 DEF UnionInv, CandidatesOK, JobsKept
  <2> QED
    BY <2>1, <2>2 DEF CandidatesOK
<1>15. ASSUME NEW a \in UnionView PROVE InstalledOK(a)'
  <2>1. CASE a # v
    BY <2>1, <1>1, <1>6, <1>10, <1>12, InstalledRests DEF UnionInv
  <2>2. CASE a = v
    <3>1. InstalledOK(v) /\ published[v].generation \in Candidate \cup {0}
      BY DEF UnionInv, WindowTypes, UnionSet
    <3>2. published[v].generation <= current'[v]
      <4>1. published[v].generation <= current[v]
        BY <3>1 DEF InstalledOK
      <4>2. published[v].generation \in Nat /\ g \in Nat
        BY <3>1, <1>3, CandidateIsNumber
      <4> QED
        BY <4>1, <4>2, <1>3, <1>8
    <3> QED
      BY <2>2, <3>1, <3>2, <1>1, <1>10 DEF InstalledOK, JobsKept
  <2> QED
    BY <2>1, <2>2
<1> QED
  BY <1>11, <1>12, <1>13, <1>14, <1>15 DEF UnionInv

-----------------------------------------------------------------------------
(* The union: the invariant and what follows *)

\* What no step of the union may do.
AttestsNow ==
    \A v \in UnionView, g \in Candidate :
        verdict[v][g] # "committed" /\ verdict'[v][g] = "committed"
            => \A s \in Union!Source \ overrun[UnionWindow[v]] :
                  job[v][g].frozen[s] = fence[s]

OnlyForward ==
    \A v \in UnionView : published'[v].generation >= published[v].generation

LEMMA ActiveWindows == ASSUME UnionInv PROVE Union!Active \subseteq Window
<1>1. union_plan.views \subseteq UnionView
  BY WindowsAssumption DEF UnionInv, WorkerTypes
<1> QED
  BY <1>1, WindowsAssumption DEF Union!Active

LEMMA UnionStepKeeps == UnionInv /\ Union!Next => UnionInv'
<1> SUFFICES ASSUME UnionInv, Union!Next PROVE UnionInv'
  OBVIOUS
<1>1. CASE Union!SourceStep
  BY <1>1, AwaitKeeps, MoveKeeps, CloneProgressKeeps, UpdateStateKeeps DEF Union!SourceStep
<1>2. CASE Union!Feed
  BY <1>2, ActiveWindows, PollKeeps DEF Union!Feed
<1>3. CASE \E w \in Union!Active :
             Union!HandlerStep(w) \/ Union!AttemptTimeout(w) \/ Union!Redefine(w)
  <2>1. PICK w \in Window :
           Union!HandlerStep(w) \/ Union!AttemptTimeout(w) \/ Union!Redefine(w)
    BY <1>3, ActiveWindows
  <2> QED
    BY <2>1, AnswerKeeps, AdmitKeeps, LockProgressKeeps, SettleKeeps, AttemptTimeoutKeeps,
       RedefineKeeps DEF Union!HandlerStep
<1>4. CASE \E v \in UnionView : Union!UserSubmit(v) \/ Union!Refresh(v)
  BY <1>4, SubmitKeeps DEF Union!UserSubmit, Union!Refresh
<1>6. CASE \/ \E v \in UnionView : Union!RetryDelayEnds(v)
           \/ \E w \in Union!Active : Union!TakeCompletions(w)
  BY <1>6, AppStepKeeps
<1>5. CASE \E v \in UnionView, g \in Candidate : Union!TransportStep(v,
g) \/ Union!JobStep(v, g)
  <2>1. PICK v \in UnionView, g \in Candidate :
           Union!TransportStep(v, g) \/ Union!JobStep(v, g)
    BY <1>5
  <2> QED
    BY <2>1, SendKeeps, DeadlineKeeps, FreezeKeeps, RegisterKeeps, InstallKeeps, MarkKeeps,
       FailKeeps, ReportKeeps DEF Union!TransportStep, Union!JobStep
<1> QED
  BY <1>1, <1>2, <1>3, <1>4, <1>5, <1>6 DEF Union!Next, Candidate

LEMMA UnionRests == UnionInv /\ UNCHANGED unionVars => UnionInv'
<1> SUFFICES ASSUME UnionInv, UNCHANGED unionVars PROVE UnionInv'
  OBVIOUS
<1> USE DEF unionVars
<1>1. /\ WorkerTypes' /\ WindowTypes' /\ TransportTypes'
      /\ CandidatesOK' /\ GuardsOK' /\ ReceiptsOK'
  BY DEF UnionInv, WorkerTypes, WindowTypes, TransportTypes, CandidatesOK, Sent, GuardsOK,
         ReceiptsOK
<1>2. JobsKept /\ VerdictsKept
  BY DEF JobsKept, VerdictsKept, Sent
<1> QED
  BY <1>1, <1>2, SlotRests, InstalledRests, RequestsRest, VerifyingRests DEF UnionInv

LEMMA UnionInitially == Union!Init => UnionInv
<1> SUFFICES ASSUME Union!Init PROVE UnionInv
  OBVIOUS
<1> USE DEF Union!None
<1>1. /\ union_plan \in UnionPlans
      /\ fence = [s \in Union!Source |-> 1] /\ written = fence /\ next_epoch = 1
      /\ cloned = [s \in Union!Source |-> 0] /\ overrun = [w \in Window |-> {}]
      /\ slots = [v \in UnionView |-> Union!NoSlot]
      /\ handler = [w \in Window |-> 0] /\ guards = [w \in Window |-> Union!Unfrozen]
      /\ inbox = [w \in Window |-> <<>>]
      /\ seen = [w \in Window |-> fence] /\ revision = [w \in Window |-> 1]
      /\ current = [v \in UnionView |-> 0]
      /\ published = [v \in UnionView |-> Union!NoUnion]
      /\ job = [v \in UnionView |-> [g \in Candidate |-> Union!NoJob]]
      /\ task = [v \in UnionView |-> [g \in Candidate |-> Union!NoTask]]
      /\ verdict = [v \in UnionView |-> [g \in Candidate |-> "none"]]
  BY DEF Union!Init, Candidate
<1>2. fence \in FenceSet /\ written \in FenceSet /\ cloned \in FenceSet
  BY <1>1 DEF FenceSet
<1>3. /\ Union!NoSlot \in SlotSet /\ Union!NoJob \in JobSet
      /\ Union!NoTask \in TaskSet /\ Union!NoUnion \in UnionSet
  BY NoFences DEF Union!NoSlot, Union!NoJob, Union!NoTask, Union!NoUnion, SlotSet, JobSet,
     TaskSet, UnionSet, Stages, TransportStages, CommitAnswers
<1>4. WorkerTypes
  BY <1>1, <1>2, <1>3, NoFences DEF WorkerTypes
<1>5. WindowTypes
  BY <1>1, <1>2, <1>3 DEF WindowTypes
<1>6. TransportTypes
  <2>1. <<>> \in Seq(RequestSet)
    OBVIOUS
  <2> QED
    BY <2>1, <1>1, <1>3 DEF TransportTypes
<1>7. /\ Union!NoJob.stage = "none" /\ Union!NoTask.stage = "none"
      /\ Union!NoTask.outcome = "none" /\ Union!NoSlot.generation = 0
      /\ Union!NoSlot.outcome = "none" /\ Union!NoUnion.generation = 0
  BY DEF Union!NoJob, Union!NoTask, Union!NoSlot, Union!NoUnion
<1>8. CandidatesOK /\ RequestsOK /\ GuardsOK /\ ReceiptsOK
  BY <1>1, <1>7, NoFences DEF CandidatesOK, RequestsOK, GuardsOK, ReceiptsOK
<1>9. \A v \in UnionView : SlotOK(v)
  BY <1>1, <1>7 DEF SlotOK
<1>10. \A v \in UnionView : InstalledOK(v)
  BY <1>1, <1>7 DEF InstalledOK
<1>11. \A w \in Window : VerifyingOK(w)
  BY <1>1 DEF VerifyingOK
<1> QED
  BY <1>4, <1>5, <1>6, <1>8, <1>9, <1>10, <1>11 DEF UnionInv

\* The invariant of the union commit (union_commit.rs, worker.rs,
\* union_worker.rs): what connections, slots, guards and transports hold, against
\* the candidates they hold it of.
THEOREM UnionInvariant == WindowsSpec => []UnionInv
<1>1. WindowsInit => UnionInv
  BY UnionInitially DEF WindowsInit
<1>2. UnionInv /\ [WindowsNext]_windowsVars => UnionInv'
  <2>1. ASSUME UnionInv, UNCHANGED windowsVars PROVE UnionInv'
    BY <2>1, UnionRests DEF windowsVars
  <2> QED
    BY <2>1, UnionStepKeeps, UnionRests DEF WindowsNext
<1> QED
  BY <1>1, <1>2, PTL DEF WindowsSpec

\* What is installed was committed under these very fences (install_union_locked).
THEOREM UnionInstalledIsAttested == WindowsSpec => []InstalledIsAttested
<1>1. UnionInv => InstalledIsAttested
  <2> SUFFICES ASSUME UnionInv, NEW v \in UnionView, published[v] # Union!NoUnion
               PROVE  /\ verdict[v][published[v].generation] = "committed"
                      /\ published[v].frozen = job[v][published[v].generation].frozen
    BY DEF InstalledIsAttested, Union!InstalledIsAttested
  <2> QED
    BY DEF UnionInv, InstalledOK
<1> QED
  BY <1>1, UnionInvariant, PTL

\* A verdict is given while the guards of all sources are held.
LEMMA SettleAttests ==
  ASSUME UnionInv, NEW w \in Window, Union!Settle(w)
  PROVE  AttestsNow
<1> DEFINE r == Head(inbox[w])
<1>1. inbox[w] # <<>> /\ Union!Outcome(w) \in {"committed", "stale"}
  BY SettleSays
<1>2. r.view \in UnionView /\ r.generation \in Candidate /\ UnionWindow[r.view] = w
  BY <1>1, RequestTyped DEF UnionInv, RequestsOK
<1>3. verdict' = [verdict EXCEPT ![r.view][r.generation] = Union!Outcome(w)]
  BY <1>1 DEF Union!Settle, Union!Request
<1>4. verdict \in [UnionView -> [Candidate -> {"none", "committed", "stale"}]]
  BY DEF UnionInv, WorkerTypes
<1> HIDE DEF r
<1>5. /\ verdict'[r.view][r.generation] = Union!Outcome(w)
      /\ \A v \in UnionView, g \in Candidate :
            v # r.view \/ g # r.generation => verdict'[v][g] = verdict[v][g]
  <2> DEFINE said == Union!Outcome(w)
  <2>1. said \in {"none", "committed", "stale"}
        /\ verdict' = [verdict EXCEPT ![r.view][r.generation] = said]
    BY <1>1, <1>3
  <2> HIDE DEF said
  <2>2. /\ verdict'[r.view][r.generation] = said
        /\ \A v \in UnionView, g \in Candidate :
              v # r.view \/ g # r.generation => verdict'[v][g] = verdict[v][g]
    BY <2>1, <1>2, <1>4, TableUpdate
  <2> QED
    BY <2>2 DEF said
<1>6. Union!Outcome(w) = "committed" =>
         \A s \in Union!Source \ overrun[w] : job[r.view][r.generation].frozen[s] = fence[s]
  BY SettleSays DEF r
<1>7. \A v \in UnionView, g \in Candidate :
         (v = r.view /\ g = r.generation) \/ verdict'[v][g] = verdict[v][g]
  BY <1>5
<1> QED
  BY <1>2, <1>5, <1>6, <1>7 DEF AttestsNow

\* The other steps leave the verdicts alone, or what is published, or both.
LEMMA UnionStepAttests == UnionInv /\ Union!Next => AttestsNow /\ OnlyForward
<1> SUFFICES ASSUME UnionInv, Union!Next PROVE AttestsNow /\ OnlyForward
  OBVIOUS
<1>1. verdict' = verdict => AttestsNow
  BY DEF AttestsNow
<1>2. published' = published => OnlyForward
  <2>1. \A v \in UnionView : published[v].generation \in Candidate \cup {0}
    BY DEF UnionInv, WindowTypes, UnionSet
  <2>2. \A v \in UnionView : published[v].generation \in Nat
    BY <2>1, CandidateIsNumber
  <2> QED
    BY <2>2 DEF OnlyForward
<1>3. CASE \E w \in Window : Union!Settle(w)
  BY <1>2, <1>3, SettleAttests DEF Union!Settle, Union!windowVars
<1>4. CASE \E v \in UnionView, g \in Candidate : Union!Install(v, g)
  <2>1. PICK v \in UnionView, g \in Candidate : Union!Install(v, g)
    BY <1>4
  <2>2. verdict' = verdict
    BY <2>1 DEF Union!Install, Union!workerVars, Union!sourceVars
  <2>3. \A a \in UnionView : published[a].generation \in Nat
    <3>1. \A a \in UnionView : published[a].generation \in Candidate \cup {0}
      BY DEF UnionInv, WindowTypes, UnionSet
    <3> QED
      BY <3>1, CandidateIsNumber
  <2> QED
    BY <2>1, <2>2, <2>3, <1>1, InstallKeeps DEF OnlyForward
<1>5. CASE Union!SourceStep \/ Union!Feed
  BY <1>1, <1>2, <1>5 DEF Union!SourceStep, Union!Feed, Union!Await, Union!Move,
     Union!CloneProgress, Union!UpdateState, Union!Poll,
     Union!workerVars, Union!sourceVars, Union!windowVars
<1>6. CASE \E w \in Window : \/ Union!Answer(w) \/ Union!Admit(w) \/ Union!LockProgress(w)
                             \/ Union!AttemptTimeout(w) \/ Union!Redefine(w)
  BY <1>1, <1>2, <1>6 DEF Union!Answer, Union!Admit, Union!LockProgress, Union!TakeGuard,
     Union!AttemptTimeout, Union!Redefine, Union!workerVars, Union!sourceVars,
     Union!windowVars
<1>7. CASE \E v \in UnionView : Union!UserSubmit(v) \/ Union!Refresh(v)
  BY <1>1, <1>2, <1>7 DEF Union!UserSubmit, Union!Refresh, Union!Submit, Union!workerVars,
     Union!sourceVars
<1>8. CASE \E v \in UnionView, g \in Candidate :
             Union!TransportStep(v, g) \/ Union!Freeze(v, g) \/ Union!Register(v, g)
  BY <1>1, <1>2, <1>8 DEF Union!TransportStep, Union!Send, Union!Deadline, Union!Freeze,
     Union!Register, Union!workerVars, Union!sourceVars, Union!windowVars
<1>9. CASE \E v \in UnionView, g \in Candidate :
             Union!Mark(v, g) \/ Union!Fail(v, g) \/ Union!Report(v, g)
  BY <1>1, <1>2, <1>9 DEF Union!Mark, Union!Fail, Union!Report, Union!workerVars,
     Union!sourceVars
<1>10. CASE \/ \E v \in UnionView : Union!RetryDelayEnds(v)
            \/ \E w \in Union!Active : Union!TakeCompletions(w)
  BY <1>1, <1>2, <1>10 DEF Union!RetryDelayEnds, Union!TakeCompletions, Union!workerVars
<1> QED
  BY <1>3, <1>4, <1>5, <1>6, <1>7, <1>8, <1>9, <1>10, ActiveWindows
  DEF Union!Next, Union!HandlerStep, Union!TransportStep, Union!JobStep, Candidate

\* A candidate is committed only while the fences of all its sources are the
\* frozen ones at once, but for those that update_state has replaced under the
\* guards of that very commit (mediated_union_commit).
THEOREM UnionAttestsPublications == WindowsSpec => AttestsPublications
<1>1. UnionInv /\ [WindowsNext]_windowsVars => [AttestsNow]_(Union!vars)
  <2>1. unionVars' = unionVars => Union!vars' = Union!vars
    BY DEF unionVars, Union!vars, Union!workerVars, Union!sourceVars, Union!windowVars,
           Union!appVars, Union!transport
  <2>2. windowsVars' = windowsVars => unionVars' = unionVars
    BY DEF windowsVars
  <2> QED
    BY <2>1, <2>2, UnionStepAttests DEF WindowsNext
<1>2. WindowsSpec => [][AttestsNow]_(Union!vars)
  BY <1>1, UnionInvariant, PTL DEF WindowsSpec
<1> QED
  BY <1>2 DEF AttestsPublications, Union!AttestsPublications, Union!Committing, AttestsNow,
              Candidate

\* A union never goes back to an older candidate (install_union_locked).
THEOREM UnionNeverGoesBack == WindowsSpec => NeverGoesBack
<1>1. UnionInv /\ [WindowsNext]_windowsVars => [OnlyForward]_(Union!vars)
  <2>1. unionVars' = unionVars => Union!vars' = Union!vars
    BY DEF unionVars, Union!vars, Union!workerVars, Union!sourceVars, Union!windowVars,
           Union!appVars, Union!transport
  <2>2. windowsVars' = windowsVars => unionVars' = unionVars
    BY DEF windowsVars
  <2> QED
    BY <2>1, <2>2, UnionStepAttests DEF WindowsNext
<1>2. WindowsSpec => [][OnlyForward]_(Union!vars)
  BY <1>1, UnionInvariant, PTL DEF WindowsSpec
<1> QED
  BY <1>2 DEF NeverGoesBack, Union!NeverGoesBack, OnlyForward

-----------------------------------------------------------------------------
(* The saves over the same connection *)

\* Every behaviour of the windows is, for their saves, a behaviour of the saves
\* with steps in between that leave them alone.
THEOREM WindowsSave == WindowsSpec => Spec
<1>1. WindowsInit => Init
  BY DEF WindowsInit
<1>2. [WindowsNext]_windowsVars => [Next]_vars
  BY DEF WindowsNext, windowsVars
<1> QED
  BY <1>1, <1>2, PTL DEF WindowsSpec, Spec

\* In windows that also exchange requests and commit unions, a clean exit has
\* saved everything, and no save replaces what its window had not adopted.
THEOREM WindowsKeepSaves ==
    WindowsSpec => []CleanExitIsSavedOnceLoaded /\ NoLostUpdateOnceRestored
  BY WindowsSave, SavesCleanExit, SavesNoLostUpdate
=============================================================================
