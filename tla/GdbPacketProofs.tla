-------------------------- MODULE GdbPacketProofs ---------------------------
(***************************************************************************)
(* Proofs about GdbPacket for every set of commands, every size of the     *)
(* buffer, any number of packets, and every way recv() may cut the stream. *)
(***************************************************************************)
EXTENDS GdbPacket, SeqLemmas

\* What goes over the wire.
Symbol == {"$", "%", "#", "s", "y", "n", "x"} \cup Commands \cup Single

Encoded(its) == [i \in DOMAIN its |-> Encode(its[i])]

\* Where the k-th item of the stream ends.
Off(its, k) == Len(Stream(SubSeq(its, 1, k)))

-----------------------------------------------------------------------------
(* The stream.                                                             *)

\* Encode, arm by arm: every item has exactly one of the five forms.
LEMMA EncodeCases ==
  ASSUME NEW it \in Items
  PROVE  /\ it \in Single => Encode(it) = <<it>>
         /\ it = "damaged" => Encode(it) = <<"$", "s", "#", "n", "y">>
         /\ it = "headless" => Encode(it) = <<"%", "s", "#", "y", "y">>
         /\ it = "unsummed" => Encode(it) = <<"$", "s", "#", "x", "y">>
         /\ it \in Commands => Encode(it) = <<"$", it, "#", "y", "y">>
         /\ it \in Single \/ it \in Broken \/ it \in Commands
BY PacketAssumption DEF Encode, Items, Single, Signs, Broken

\* One symbol for a single byte, five for a packet, whose only '#' is the third.
LEMMA EncodeType ==
  ASSUME NEW it \in Items
  PROVE  /\ Encode(it) \in Seq(Symbol)
         /\ it \in Single => Len(Encode(it)) = 1 /\ Encode(it)[1] = it
         /\ it \notin Single =>
              /\ Len(Encode(it)) = 5 /\ Encode(it)[3] = "#"
              /\ Encode(it)[1] \in {"$", "%"} /\ Encode(it)[2] # "#"
<1>1. CASE it \in Single
  <2>1. Encode(it) = <<it>> /\ it \in Symbol
    BY <1>1, EncodeCases DEF Symbol
  <2>2. QED
    BY <1>1, <2>1
<1>2. CASE it = "damaged"
  <2>1. Encode(it) = <<"$", "s", "#", "n", "y">> /\ it \notin Single
    BY <1>2, EncodeCases DEF Single, Signs
  <2>2. {"$", "s", "#", "n", "y"} \subseteq Symbol
    BY DEF Symbol
  <2>3. QED
    BY <2>1, <2>2
<1>3. CASE it = "headless"
  <2>1. Encode(it) = <<"%", "s", "#", "y", "y">> /\ it \notin Single
    BY <1>3, EncodeCases DEF Single, Signs
  <2>2. {"%", "s", "#", "y"} \subseteq Symbol
    BY DEF Symbol
  <2>3. QED
    BY <2>1, <2>2
<1>4. CASE it = "unsummed"
  <2>1. Encode(it) = <<"$", "s", "#", "x", "y">> /\ it \notin Single
    BY <1>4, EncodeCases DEF Single, Signs
  <2>2. {"$", "s", "#", "x", "y"} \subseteq Symbol
    BY DEF Symbol
  <2>3. QED
    BY <2>1, <2>2
<1>5. CASE it \in Commands
  <2>1. Encode(it) = <<"$", it, "#", "y", "y">> /\ it \notin Single /\ it # "#"
    BY <1>5, EncodeCases, PacketAssumption
  <2>2. {"$", "#", "y", it} \subseteq Symbol
    BY <1>5 DEF Symbol
  <2>3. QED
    BY <2>1, <2>2
<1>6. QED
  BY <1>1, <1>2, <1>3, <1>4, <1>5, EncodeCases DEF Broken

\* The packets of a list of items, before they are put end to end.
LEMMA EncodedType ==
  ASSUME NEW its \in Seq(Items)
  PROVE  /\ Encoded(its) \in Seq(Seq(Symbol)) /\ Len(Encoded(its)) = Len(its)
         /\ \A i \in 1..Len(its) : Encoded(its)[i] = Encode(its[i])
         /\ Stream(its) = FlattenSeq(Encoded(its))
<1>1. \A i \in 1..Len(its) : its[i] \in Items
  OBVIOUS
<1>2. \A i \in 1..Len(its) : Encode(its[i]) \in Seq(Symbol)
  BY <1>1, EncodeType
<1>3. QED
  BY <1>2 DEF Encoded, Stream

\* Those of its first k items are the first k.
LEMMA EncodedSub ==
  ASSUME NEW its \in Seq(Items), NEW k \in 0..Len(its)
  PROVE  /\ SubSeq(its, 1, k) \in Seq(Items)
         /\ Encoded(SubSeq(its, 1, k)) = SubSeq(Encoded(its), 1, k)
         /\ Stream(SubSeq(its, 1, k)) = Flat(Encoded(its), k)
<1>1. SubSeq(its, 1, k) \in Seq(Items) /\ Len(SubSeq(its, 1, k)) = k
       /\ \A i \in 1..k : SubSeq(its, 1, k)[i] = its[i]
  OBVIOUS
<1> DEFINE a == Encoded(SubSeq(its, 1, k))
           b == SubSeq(Encoded(its), 1, k)
<1>2. a \in Seq(Seq(Symbol)) /\ Len(a) = k /\ \A i \in 1..k : a[i] = Encode(its[i])
  BY <1>1, EncodedType
<1>3. b \in Seq(Seq(Symbol)) /\ Len(b) = k /\ \A i \in 1..k : b[i] = Encode(its[i])
  BY EncodedType
<1> HIDE DEF a, b
<1>4. a = b
  BY <1>2, <1>3, SeqEqual
<1>5. QED
  BY <1>1, <1>4, EncodedType DEF a, b, Flat

\* The first k items are the first Off(its, k) symbols of the stream.
LEMMA StreamType ==
  ASSUME NEW its \in Seq(Items), NEW k \in 0..Len(its)
  PROVE  /\ Stream(its) \in Seq(Symbol) /\ Stream(SubSeq(its, 1, k)) \in Seq(Symbol)
         /\ Off(its, k) \in Nat /\ Off(its, k) <= Len(Stream(its))
         /\ Stream(SubSeq(its, 1, k)) = SubSeq(Stream(its), 1, Off(its, k))
         /\ Off(its, 0) = 0 /\ Off(its, Len(its)) = Len(Stream(its))
<1> DEFINE e == Encoded(its)
<1>1. e \in Seq(Seq(Symbol)) /\ Len(e) = Len(its) /\ Stream(its) = FlattenSeq(e)
  BY EncodedType
<1>2. Stream(SubSeq(its, 1, k)) = Flat(e, k)
  BY EncodedSub
<1>3. SubSeq(its, 1, Len(its)) = its /\ SubSeq(its, 1, 0) = <<>>
  BY SubSeqFull
<1>4. Stream(<<>>) = <<>>
  BY FlattenEmpty DEF Stream
<1>5. Len(its) \in 0..Len(its)
  OBVIOUS
<1>6. Stream(its) = Flat(e, Len(its))
  BY <1>3, <1>5, EncodedSub
<1> HIDE DEF e
<1>7. Stream(its) \in Seq(Symbol) /\ Flat(e, k) \in Seq(Symbol)
  BY <1>1, <1>5, <1>6, FlatType
<1>8. Len(Flat(e, k)) <= Len(Stream(its))
       /\ Flat(e, k) = SubSeq(Stream(its), 1, Len(Flat(e, k)))
  BY <1>1, FlatPrefix
<1>9. Off(its, k) = Len(Flat(e, k)) /\ Off(its, k) \in Nat
  BY <1>2, <1>7 DEF Off
<1>10. Off(its, 0) = 0
  <2>1. Off(its, 0) = Len(<<>>)
    BY <1>3, <1>4, Zenon DEF Off
  <2>2. QED
    BY <2>1
<1>11. Off(its, Len(its)) = Len(Stream(its))
  BY <1>3, Zenon DEF Off
<1>12. QED
  BY <1>2, <1>7, <1>8, <1>9, <1>10, <1>11

\* The symbols of one item.
LEMMA StreamAt ==
  ASSUME NEW its \in Seq(Items), NEW k \in 0..Len(its), k < Len(its)
  PROVE  /\ its[k + 1] \in Items
         /\ Off(its, k + 1) = Off(its, k) + Len(Encode(its[k + 1]))
         /\ \A j \in 1..Len(Encode(its[k + 1])) :
              Stream(its)[Off(its, k) + j] = Encode(its[k + 1])[j]
<1> DEFINE e == Encoded(its)
           a == Stream(SubSeq(its, 1, k))
           b == Encode(its[k + 1])
           c == Stream(SubSeq(its, 1, k + 1))
<1>1. its[k + 1] \in Items /\ k + 1 \in 0..Len(its)
  OBVIOUS
<1>2. a \in Seq(Symbol) /\ b \in Seq(Symbol) /\ c \in Seq(Symbol)
  BY <1>1, StreamType, EncodeType
<1>3. c = a \o b
  <2>1. e \in Seq(Seq(Symbol)) /\ Len(e) = Len(its) /\ e[k + 1] = b
    BY EncodedType
  <2>2. a = Flat(e, k) /\ c = Flat(e, k + 1)
    BY <1>1, EncodedSub
  <2> HIDE DEF e, a, b, c
  <2>3. Flat(e, k + 1) = Flat(e, k) \o e[k + 1]
    BY <2>1, FlatNext
  <2>4. QED
    BY <2>1, <2>2, <2>3
<1>4. Off(its, k) = Len(a) /\ Off(its, k + 1) = Len(c)
  BY DEF Off
<1>5. c = SubSeq(Stream(its), 1, Len(c)) /\ Len(c) <= Len(Stream(its))
       /\ Stream(its) \in Seq(Symbol)
  BY <1>1, <1>4, StreamType
<1> HIDE DEF a, b, c
<1>6. Len(c) = Len(a) + Len(b)
  BY <1>2, <1>3
<1>7. ASSUME NEW j \in 1..Len(b) PROVE Stream(its)[Len(a) + j] = b[j]
  <2>1. c[Len(a) + j] = b[j]
    BY <1>2, <1>3
  <2>2. Len(a) + j \in 1..Len(c)
    BY <1>2, <1>6
  <2>3. SubSeq(Stream(its), 1, Len(c))[Len(a) + j] = Stream(its)[Len(a) + j]
    BY <1>5, <2>2, <1>2
  <2>4. QED
    BY <1>5, <2>1, <2>3
<1>8. QED
  BY <1>1, <1>4, <1>6, <1>7 DEF b

\* Single bytes take one place each.
LEMMA SingleRun ==
  ASSUME NEW its \in Seq(Items), NEW n \in 0..Len(its), NEW m \in n..Len(its),
         \A k \in n + 1..m : its[k] \in Single
  PROVE  /\ Off(its, m) = Off(its, n) + (m - n)
         /\ \A j \in 1..m - n : Stream(its)[Off(its, n) + j] = its[n + j]
<1> DEFINE P(d) == /\ Off(its, n + d) = Off(its, n) + d
                   /\ \A j \in 1..d : Stream(its)[Off(its, n) + j] = its[n + j]
           T == {d \in Nat : d <= m - n => P(d)}
<1>1. Off(its, n) \in Nat
  BY StreamType
<1>2. 0 \in T
  BY <1>1
<1>3. ASSUME NEW d \in T PROVE d + 1 \in T
  <2> SUFFICES ASSUME d + 1 <= m - n PROVE P(d + 1)
    OBVIOUS
  <2> DEFINE k == n + d
  <2>1. k \in 0..Len(its) /\ k < Len(its) /\ k + 1 \in n + 1..m /\ d \in Nat
         /\ k + 1 = n + (d + 1)
    OBVIOUS
  <2>2. Off(its, k) = Off(its, n) + d
         /\ \A j \in 1..d : Stream(its)[Off(its, n) + j] = its[n + j]
    OBVIOUS
  <2> HIDE DEF k
  <2>3. its[k + 1] \in Items /\ its[k + 1] \in Single
    BY <2>1
  <2>4. Len(Encode(its[k + 1])) = 1 /\ Encode(its[k + 1])[1] = its[k + 1]
    BY <2>3, EncodeType
  <2>5. Off(its, k + 1) = Off(its, k) + 1
    BY <2>1, <2>4, StreamAt
  <2>6. Stream(its)[Off(its, k) + 1] = its[k + 1]
    BY <2>1, <2>4, StreamAt
  <2>7. Off(its, n + (d + 1)) = Off(its, n) + (d + 1)
    BY <1>1, <2>1, <2>2, <2>5
  <2>8. Off(its, k) + 1 = Off(its, n) + (d + 1)
    BY <1>1, <2>1, <2>2
  <2>9. Stream(its)[Off(its, n) + (d + 1)] = its[n + (d + 1)]
    BY <2>1, <2>6, <2>8, Zenon
  <2>10. \A j \in 1..d + 1 : j \in 1..d \/ j = d + 1
    BY <2>1
  <2>11. QED
    BY <2>2, <2>7, <2>9, <2>10, Zenon
<1> HIDE DEF T
<1>4. m - n \in T
  <2>1. T \in SUBSET Nat /\ m - n \in Nat
    BY DEF T
  <2>2. QED
    BY <1>2, <1>3, <2>1, SetInduction
<1>5. P(m - n)
  BY <1>4 DEF T
<1>6. n + (m - n) = m
  OBVIOUS
<1>7. QED
  BY <1>5, <1>6

\* Longer streams begin with shorter ones.
LEMMA StreamAppend ==
  ASSUME NEW its \in Seq(Items), NEW it \in Items
  PROVE  /\ Append(its, it) \in Seq(Items)
         /\ Stream(Append(its, it)) = Stream(its) \o Encode(it)
<1> DEFINE t == Append(its, it)
<1>1. t \in Seq(Items) /\ Len(t) = Len(its) + 1 /\ t[Len(its) + 1] = it
       /\ \A i \in 1..Len(its) : t[i] = its[i]
  OBVIOUS
<1> HIDE DEF t
<1>2. /\ Encoded(its) \in Seq(Seq(Symbol)) /\ Len(Encoded(its)) = Len(its)
      /\ \A i \in 1..Len(its) : Encoded(its)[i] = Encode(its[i])
      /\ Stream(its) = FlattenSeq(Encoded(its))
  BY EncodedType
<1>3. /\ Encoded(t) \in Seq(Seq(Symbol)) /\ Len(Encoded(t)) = Len(its) + 1
      /\ \A i \in 1..Len(its) + 1 : Encoded(t)[i] = Encode(t[i])
      /\ Stream(t) = FlattenSeq(Encoded(t))
  BY <1>1, EncodedType
<1>4. Encode(it) \in Seq(Symbol)
  BY EncodeType
<1> DEFINE a == Encoded(t)
           b == Append(Encoded(its), Encode(it))
<1>5. a = b
  <2>1. b \in Seq(Seq(Symbol)) /\ Len(b) = Len(its) + 1
         /\ b[Len(its) + 1] = Encode(it)
         /\ \A i \in 1..Len(its) : b[i] = Encode(its[i])
    BY <1>2, <1>4
  <2>2. a[Len(its) + 1] = Encode(it) /\ \A i \in 1..Len(its) : a[i] = Encode(its[i])
    BY <1>1, <1>3
  <2>3. \A i \in 1..Len(its) + 1 : i \in 1..Len(its) \/ i = Len(its) + 1
    OBVIOUS
  <2> HIDE DEF a, b
  <2>4. \A i \in 1..Len(its) + 1 : a[i] = b[i]
    BY <2>1, <2>2, <2>3, Zenon
  <2>5. a \in Seq(Seq(Symbol)) /\ Len(a) = Len(its) + 1
    BY <1>3 DEF a
  <2>6. QED
    BY <2>1, <2>4, <2>5, SeqEqual
<1>6. FlattenSeq(b) = FlattenSeq(Encoded(its)) \o Encode(it)
  BY <1>2, <1>4, FlattenAppend
<1>7. QED
  BY <1>1, <1>2, <1>3, <1>5, <1>6 DEF t

-----------------------------------------------------------------------------
(* The outcomes.                                                           *)

Reply == {"NAK", "empty", "answer", "stop"}

\* They depend on what was sent up to there only.
LEMMA InterruptedPrefix ==
  ASSUME NEW s, NEW t, NEW n \in Nat, Agree(s, t, n)
  PROVE  Interrupted(s, n + 1) <=> Interrupted(t, n + 1)
<1>1. \A i \in 1..n : s[i] = t[i]
  BY DEF Agree
<1>2. (n + 1) - 1 = n
  OBVIOUS
<1>3. \A j \in 1..n : \A k \in j..n : k \in 1..n
  OBVIOUS
<1>4. \A j \in 1..n : (\A k \in j..n : s[k] \in Single) <=> (\A k \in j..n : t[k] \in Single)
  BY <1>1, <1>3, Zenon
<1>5. QED
  BY <1>1, <1>2, <1>4, Zenon DEF Interrupted

\* The same for the reply to an item.
LEMMA OutcomePrefix ==
  ASSUME NEW s, NEW t, NEW n \in Nat, Agree(s, t, n), NEW i \in 1..n
  PROVE  Outcome(s, i) = Outcome(t, i)
<1>1. s[i] = t[i]
  BY DEF Agree
<1>2. i - 1 \in Nat /\ (i - 1) + 1 = i /\ Agree(s, t, i - 1)
  BY DEF Agree
<1>3. Interrupted(s, i) <=> Interrupted(t, i)
  <2>1. Interrupted(s, (i - 1) + 1) <=> Interrupted(t, (i - 1) + 1)
    BY <1>2, InterruptedPrefix, Zenon
  <2>2. QED
    BY <1>2, <2>1
<1> DEFINE g(x) == CASE x = "damaged"           -> <<"NAK">>
                     [] x = "unsummed"          -> <<>>
                     [] x \in {"u", "headless"} -> <<"empty">>
                     [] x = "q"                 -> <<"answer">>
                     [] x = "s"                 -> <<"stop">>
           f(x, b) == IF x \in Single THEN <<>> ELSE IF b THEN <<"NAK">> ELSE g(x)
<1>4. Outcome(s, i) = f(s[i], Interrupted(s, i)) /\ Outcome(t, i) = f(t[i], Interrupted(t, i))
  BY Zenon DEF Outcome
<1> HIDE DEF g
<1>5. CASE Interrupted(s, i)
  BY <1>1, <1>3, <1>4, <1>5
<1>6. CASE ~Interrupted(s, i)
  BY <1>1, <1>3, <1>4, <1>6
<1>7. QED
  BY <1>5, <1>6

\* The replies to one more item.
LEMMA OutcomesNext ==
  ASSUME NEW its \in Seq(Items), NEW n \in 0..Len(its), n < Len(its),
         \A i \in 1..n + 1 : Outcome(its, i) \in Seq(Reply)
  PROVE  Outcomes(SubSeq(its, 1, n + 1)) = Outcomes(SubSeq(its, 1, n)) \o Outcome(its, n + 1)
<1> DEFINE o(m) == [i \in 1..m |-> Outcome(its, i)]
<1>1. ASSUME NEW m \in 0..Len(its)
      PROVE  Outcomes(SubSeq(its, 1, m)) = FlattenSeq(o(m))
  <2> DEFINE t == SubSeq(its, 1, m)
  <2>1. DOMAIN t = 1..m /\ \A i \in 1..m : t[i] = its[i]
    OBVIOUS
  <2> HIDE DEF t
  <2>2. Agree(t, its, m) /\ m \in Nat
    BY <2>1 DEF Agree
  <2>3. \A i \in 1..m : Outcome(t, i) = Outcome(its, i)
    BY <2>2, OutcomePrefix
  <2>4. [i \in DOMAIN t |-> Outcome(t, i)] = [i \in 1..m |-> Outcome(its, i)]
    BY <2>1, <2>3, Zenon
  <2>5. QED
    BY <2>4, Zenon DEF t, Outcomes
<1>2. n \in 0..Len(its) /\ n + 1 \in 0..Len(its) /\ n \in Nat /\ n + 1 \in 1..n + 1
  OBVIOUS
<1> DEFINE a == o(n)
           b == o(n + 1)
           x == Outcome(its, n + 1)
<1>3. a \in Seq(Seq(Reply)) /\ Len(a) = n /\ \A i \in 1..n : a[i] = Outcome(its, i)
  OBVIOUS
<1>4. b \in Seq(Seq(Reply)) /\ Len(b) = n + 1 /\ \A i \in 1..n + 1 : b[i] = Outcome(its, i)
  OBVIOUS
<1>5. x \in Seq(Reply)
  BY <1>2
<1>6. \A i \in 1..n + 1 : i \in 1..n \/ i = n + 1
  OBVIOUS
<1>7. Outcomes(SubSeq(its, 1, n)) = FlattenSeq(a) /\ Outcomes(SubSeq(its, 1, n + 1)) = FlattenSeq(b)
  BY <1>1, <1>2, Zenon
<1> HIDE DEF a, b
<1>8. b = Append(a, x)
  <2>1. Append(a, x) \in Seq(Seq(Reply)) /\ Len(Append(a, x)) = n + 1
         /\ Append(a, x)[n + 1] = x /\ \A i \in 1..n : Append(a, x)[i] = a[i]
    BY <1>3, <1>5
  <2>2. \A i \in 1..n + 1 : b[i] = Append(a, x)[i]
    BY <1>2, <1>3, <1>4, <1>6, <2>1, Zenon
  <2>3. QED
    BY <1>4, <2>1, <2>2, SeqEqual
<1> HIDE DEF x
<1>9. FlattenSeq(Append(a, x)) = FlattenSeq(a) \o x
  BY <1>3, <1>5, FlattenAppend
<1>10. QED
  BY <1>7, <1>8, <1>9 DEF x

\* Single bytes have none.
LEMMA OutcomesUpTo ==
  ASSUME NEW its \in Seq(Items), NEW n \in 0..Len(its), NEW m \in n + 1..Len(its),
         \A k \in n + 1..m - 1 : its[k] \in Single,
         \A i \in 1..n : Outcome(its, i) \in Seq(Reply),
         Outcome(its, m) \in Seq(Reply),
         Outcomes(SubSeq(its, 1, n)) \in Seq(Reply)
  PROVE  /\ Outcomes(SubSeq(its, 1, m)) = Outcomes(SubSeq(its, 1, n)) \o Outcome(its, m)
         /\ \A i \in 1..m : Outcome(its, i) \in Seq(Reply)
<1>1. \A k \in n + 1..m - 1 : Outcome(its, k) = <<>>
  BY Zenon DEF Outcome
<1>2. <<>> \in Seq(Reply)
  OBVIOUS
<1>3. \A i \in 1..m : i \in 1..n \/ i \in n + 1..m - 1 \/ i = m
  OBVIOUS
<1>4. \A i \in 1..m : Outcome(its, i) \in Seq(Reply)
  BY <1>1, <1>2, <1>3, Zenon
<1> DEFINE T == {d \in Nat : n + d < m =>
                   Outcomes(SubSeq(its, 1, n + d)) = Outcomes(SubSeq(its, 1, n))}
<1>5. 0 \in T
  BY n + 0 = n
<1>6. ASSUME NEW d \in T PROVE d + 1 \in T
  <2> SUFFICES ASSUME n + (d + 1) < m
               PROVE  Outcomes(SubSeq(its, 1, n + (d + 1))) = Outcomes(SubSeq(its, 1, n))
    OBVIOUS
  <2> DEFINE k == n + d
  <2>1. k \in 0..Len(its) /\ k < Len(its) /\ k + 1 \in n + 1..m - 1 /\ k + 1 = n + (d + 1)
         /\ \A i \in 1..k + 1 : i \in 1..m
    OBVIOUS
  <2>2. Outcomes(SubSeq(its, 1, k)) = Outcomes(SubSeq(its, 1, n))
    OBVIOUS
  <2> HIDE DEF k
  <2>3. \A i \in 1..k + 1 : Outcome(its, i) \in Seq(Reply)
    BY <1>4, <2>1
  <2>4. Outcomes(SubSeq(its, 1, k + 1)) = Outcomes(SubSeq(its, 1, k)) \o Outcome(its, k + 1)
    BY <2>1, <2>3, OutcomesNext
  <2>5. Outcome(its, k + 1) = <<>>
    BY <1>1, <2>1
  <2>6. Outcomes(SubSeq(its, 1, n)) \o <<>> = Outcomes(SubSeq(its, 1, n))
    BY ConcatEmptySeq
  <2>7. QED
    BY <2>1, <2>2, <2>4, <2>5, <2>6, Zenon
<1> HIDE DEF T
<1>7. m - 1 - n \in T
  <2>1. T \in SUBSET Nat /\ m - 1 - n \in Nat
    BY DEF T
  <2>2. QED
    BY <1>5, <1>6, <2>1, SetInduction
<1> DEFINE l == m - 1
<1>8. l \in 0..Len(its) /\ l < Len(its) /\ l + 1 = m /\ n + (m - 1 - n) = l /\ l < m
  OBVIOUS
<1>9. Outcomes(SubSeq(its, 1, l)) = Outcomes(SubSeq(its, 1, n))
  BY <1>7, <1>8 DEF T
<1> HIDE DEF l
<1>10. Outcomes(SubSeq(its, 1, l + 1)) = Outcomes(SubSeq(its, 1, l)) \o Outcome(its, l + 1)
  BY <1>4, <1>8, OutcomesNext
<1>11. QED
  BY <1>4, <1>8, <1>9, <1>10

\* The stop replies are counted one by one.
LEMMA StopsAppend ==
  ASSUME NEW said \in Seq(Reply), NEW x \in Reply
  PROVE  StopReplies(said \o <<x>>) = StopReplies(said) + IF x = "stop" THEN 1 ELSE 0
<1>1. \A r : StopReplies(r) = Count(r, {"stop"})
  BY DEF StopReplies, Count
<1>2. QED
  BY <1>1, CountAppend

-----------------------------------------------------------------------------
(* The inductive invariant, in two parts: the framing, which is the same   *)
(* whatever the commands do and say, and the replies.                      *)

FrameTypeOK ==
  /\ stage \in {"poll", "recv", "scan", "running", "gone", "aborted"}
  /\ clientbuf \in Seq(Symbol) /\ wire \in Seq(Symbol) /\ consumed \in Seq(Symbol)
  /\ bp \in 0..Len(clientbuf)
  /\ processed_any \in BOOLEAN /\ execute \in BOOLEAN
  /\ hungup \in BOOLEAN /\ whole \in BOOLEAN
  /\ items \in Seq(Items)

\* Nothing is lost between the client and the scan.
InOrder == consumed \o clientbuf \o wire = Stream(items)

\* The scan is behind item n, and no interrupt waits for the end of its packet.
Stands(n) ==
  /\ Len(consumed) + bp = Off(items, n)
  /\ ~Interrupted(items, n + 1)

\* There is room to receive into whenever recv() may be called next, a resume
\* command has been passed when execute is set, and outside the scan nothing
\* has been.
Room ==
  /\ stage \in {"poll", "recv"} => ~execute
  /\ stage \notin {"scan", "aborted"} => bp = 0
  /\ stage = "scan" /\ execute => bp > 0
  /\ stage \in {"poll", "recv", "running"} => Len(clientbuf) < PKT_BUF_MAX
  /\ Len(clientbuf) <= PKT_BUF_MAX

Frame(n) ==
  /\ n \in 0..Len(items) /\ Stands(n)
  /\ FrameTypeOK /\ InOrder /\ Room /\ OnlyDropsTheGone

\* The replies are those to the first n items.
Replied(n) ==
  /\ replies = Outcomes(SubSeq(items, 1, n))
  /\ \A i \in 1..n : Outcome(items, i) \in Seq(Reply)

PacketInv ==
  /\ \E n \in Nat : Frame(n) /\ Replied(n)
  /\ replies \in Seq(Reply) /\ ran \in Nat /\ OneRunPerResume

-----------------------------------------------------------------------------
(* What is in clientbuf behind the scan.                                   *)

\* It is the stream from there on.
LEMMA RestIs ==
  ASSUME FrameTypeOK, InOrder
  PROVE  /\ Rest \in Seq(Symbol) /\ Len(Rest) = Len(clientbuf) - bp
         /\ \A j \in 1..Len(Rest) :
              /\ Rest[j] = Stream(items)[(Len(consumed) + bp) + j]
              /\ (Len(consumed) + bp) + j <= Len(Stream(items))
<1>1. /\ clientbuf \in Seq(Symbol) /\ wire \in Seq(Symbol) /\ consumed \in Seq(Symbol)
      /\ bp \in 0..Len(clientbuf)
  BY DEF FrameTypeOK
<1>2. Rest \in Seq(Symbol) /\ Len(Rest) = Len(clientbuf) - bp
       /\ \A j \in 1..Len(Rest) : Rest[j] = clientbuf[bp + j]
  BY <1>1 DEF Rest
<1> DEFINE a == consumed \o clientbuf
<1>3. a \in Seq(Symbol) /\ Len(a) = Len(consumed) + Len(clientbuf)
       /\ \A i \in 1..Len(clientbuf) : a[Len(consumed) + i] = clientbuf[i]
  BY <1>1
<1> HIDE DEF a
<1>4. Len(a \o wire) = Len(a) + Len(wire) /\ \A i \in 1..Len(a) : (a \o wire)[i] = a[i]
  <2>1. a \in Seq(Symbol) /\ wire \in Seq(Symbol)
    BY <1>1, <1>3
  <2>2. QED
    BY <2>1
<1>5. Stream(items) = a \o wire
  BY DEF InOrder, a
<1>6. ASSUME NEW j \in 1..Len(Rest)
      PROVE  /\ Rest[j] = Stream(items)[(Len(consumed) + bp) + j]
             /\ (Len(consumed) + bp) + j <= Len(Stream(items))
  <2>1. bp + j \in 1..Len(clientbuf) /\ Len(consumed) + (bp + j) \in 1..Len(a)
         /\ (Len(consumed) + bp) + j = Len(consumed) + (bp + j)
    BY <1>1, <1>2, <1>3
  <2>2. Rest[j] = (a \o wire)[Len(consumed) + (bp + j)]
    BY <1>2, <1>3, <1>4, <2>1
  <2>3. Len(consumed) + (bp + j) <= Len(a \o wire)
    BY <1>1, <1>3, <1>4, <2>1
  <2>4. QED
    BY <1>5, <2>1, <2>2, <2>3
<1>7. QED
  BY <1>2, <1>6

\* memchr finds the first '#'.
LEMMA PoundIs ==
  ASSUME FrameTypeOK, InOrder, pound # 0
  PROVE  /\ pound \in 1..Len(Rest) /\ Rest[pound] = "#"
         /\ \A j \in 1..pound - 1 : Rest[j] # "#"
<1>1. Rest \in Seq(Symbol) /\ DOMAIN Rest = 1..Len(Rest)
  BY RestIs
<1> DEFINE T == {i \in DOMAIN Rest : Rest[i] = "#"}
<1>2. T # {}
  BY DEF pound
<1>3. T \in SUBSET Nat
  BY <1>1
<1>4. PICK i \in T : \A j \in T : i <= j
  BY <1>2, <1>3, LeastNatural
<1>5. i \in DOMAIN Rest /\ Rest[i] = "#" /\ \A j \in 1..i - 1 : Rest[j] # "#"
  BY <1>1, <1>4
<1>6. pound \in DOMAIN Rest /\ Rest[pound] = "#" /\ \A j \in 1..pound - 1 : Rest[j] # "#"
  <2>1. pound = CHOOSE k \in DOMAIN Rest :
                  Rest[k] = "#" /\ \A j \in 1..k - 1 : Rest[j] # "#"
    BY <1>5, Zenon DEF pound
  <2>2. QED
    BY <1>5, <2>1, Zenon
<1>7. QED
  BY <1>1, <1>6

\* A complete packet at the scan ends where an item of the stream does, the
\* first from here on that is not a single byte.
LEMMA PacketAt ==
  ASSUME FrameTypeOK, InOrder, AtPacket, NEW n \in 0..Len(items), Stands(n)
  PROVE  \E m \in n + 1..Len(items) :
           /\ items[m] \in Items \ Single
           /\ \A k \in n + 1..m - 1 : items[k] \in Single
           /\ Off(items, m) = Len(consumed) + PacketEnd
           /\ PacketEnd \in 1..Len(clientbuf)
           /\ m # n + 1 => items[n + 1] = "^C" /\ pound # 3
           /\ m = n + 1 => pound = 3 /\ \A j \in 1..5 : Rest[j] = Encode(items[m])[j]
<1> DEFINE p == Len(consumed) + bp
<1>1. /\ Rest \in Seq(Symbol) /\ Len(Rest) = Len(clientbuf) - bp
      /\ \A j \in 1..Len(Rest) :
           Rest[j] = Stream(items)[p + j] /\ p + j <= Len(Stream(items))
  BY RestIs
<1>2. /\ pound \in 1..Len(Rest) /\ Rest[pound] = "#" /\ pound + 2 <= Len(Rest)
      /\ \A j \in 1..pound - 1 : Rest[j] # "#"
  BY PoundIs DEF AtPacket, Complete
<1>3. Rest[1] \notin Signs
  BY <1>1, <1>2 DEF AtPacket, AtSign
<1>4. items \in Seq(Items) /\ p = Off(items, n) /\ p \in Nat
       /\ bp \in 0..Len(clientbuf) /\ consumed \in Seq(Symbol) /\ clientbuf \in Seq(Symbol)
  BY DEF Stands, FrameTypeOK
<1>5. Off(items, Len(items)) = Len(Stream(items))
  BY <1>4, StreamType
<1> HIDE DEF p
<1> DEFINE T == {k \in n + 1..Len(items) : items[k] \notin Single}
<1>6. T # {}
  <2> SUFFICES ASSUME T = {} PROVE FALSE
    OBVIOUS
  <2>1. \A k \in n + 1..Len(items) : items[k] \in Single
    OBVIOUS
  <2>2. Len(items) \in n..Len(items)
    BY <1>4
  <2>3. /\ Off(items, Len(items)) = Off(items, n) + (Len(items) - n)
        /\ \A j \in 1..Len(items) - n : Stream(items)[Off(items, n) + j] = items[n + j]
    BY <1>4, <2>1, <2>2, SingleRun
  <2>4. pound \in 1..Len(items) - n
    BY <1>1, <1>2, <1>4, <1>5, <2>3
  <2>5. items[n + pound] = "#"
    <3>1. Stream(items)[p + pound] = "#"
      BY <1>1, <1>2
    <3>2. Stream(items)[p + pound] = items[n + pound]
      BY <1>4, <2>3, <2>4
    <3>3. QED
      BY <3>1, <3>2
  <2>6. n + pound \in n + 1..Len(items)
    BY <2>4
  <2>7. QED
    BY <2>1, <2>5, <2>6 DEF Single, Signs
<1>7. PICK m \in T : \A k \in T : m <= k
  <2>1. T \in SUBSET Nat
    OBVIOUS
  <2>2. QED
    BY <1>6, <2>1, LeastNatural
<1>8. m \in n + 1..Len(items) /\ items[m] \in Items \ Single
       /\ \A k \in n + 1..m - 1 : items[k] \in Single
  BY <1>4, <1>7
<1> HIDE DEF T
<1> DEFINE d == m - 1 - n
<1>9. d \in Nat /\ m - 1 \in n..Len(items) /\ m - 1 \in 0..Len(items) /\ m - 1 < Len(items)
       /\ (m - 1) + 1 = m /\ (m - 1) - n = d
  BY <1>8, <1>4
<1>10. /\ Off(items, m - 1) = p + d
       /\ \A j \in 1..d : Stream(items)[p + j] = items[n + j]
  BY <1>4, <1>8, <1>9, SingleRun
<1>11. /\ Len(Encode(items[m])) = 5 /\ Encode(items[m])[3] = "#"
       /\ Encode(items[m])[1] \in {"$", "%"} /\ Encode(items[m])[2] # "#"
  BY <1>8, EncodeType
<1>12. /\ Off(items, m) = p + d + 5
       /\ \A j \in 1..5 : Stream(items)[(p + d) + j] = Encode(items[m])[j]
  <2>1. /\ Off(items, (m - 1) + 1) = Off(items, m - 1) + Len(Encode(items[(m - 1) + 1]))
        /\ \A j \in 1..Len(Encode(items[(m - 1) + 1])) :
             Stream(items)[Off(items, m - 1) + j] = Encode(items[(m - 1) + 1])[j]
    BY <1>4, <1>9, StreamAt, Zenon
  <2>2. QED
    BY <1>9, <1>10, <1>11, <2>1
<1> HIDE DEF d
<1>13. \A j \in 1..d : n + j \in n + 1..m - 1
  BY <1>8, <1>9
<1>14. \A j \in 1..d : Stream(items)[p + j] \in Single
  BY <1>8, <1>10, <1>13
<1>15. pound = d + 3
  <2>1. pound >= d + 3
    <3>1. CASE pound \in 1..d
      BY <1>1, <1>2, <1>14, <3>1 DEF Single, Signs
    <3>2. CASE pound = d + 1
      <4>1. p + pound = (p + d) + 1
        BY <1>4, <1>9, <3>2
      <4>2. Rest[pound] = Encode(items[m])[1]
        BY <1>1, <1>2, <1>12, <4>1
      <4>3. QED
        BY <1>2, <1>11, <4>2
    <3>3. CASE pound = d + 2
      <4>1. p + pound = (p + d) + 2
        BY <1>4, <1>9, <3>3
      <4>2. Rest[pound] = Encode(items[m])[2]
        BY <1>1, <1>2, <1>12, <4>1
      <4>3. QED
        BY <1>2, <1>11, <4>2
    <3>4. QED
      BY <1>1, <1>2, <1>9, <3>1, <3>2, <3>3
  <2>2. ASSUME pound > d + 3 PROVE FALSE
    <3>1. d + 3 \in 1..pound - 1 /\ d + 3 \in 1..Len(Rest)
      BY <1>1, <1>2, <1>9, <2>2
    <3>2. Rest[d + 3] = Stream(items)[(p + d) + 3]
      <4>1. p + (d + 3) = (p + d) + 3
        BY <1>4, <1>9
      <4>2. Rest[d + 3] = Stream(items)[p + (d + 3)]
        BY <1>1, <3>1
      <4>3. QED
        BY <4>1, <4>2
    <3>3. QED
      BY <1>2, <1>11, <1>12, <3>1, <3>2
  <2>3. QED
    BY <1>2, <1>9, <2>1, <2>2
<1>16. PacketEnd \in 1..Len(clientbuf) /\ Off(items, m) = Len(consumed) + PacketEnd
  BY <1>1, <1>2, <1>4, <1>9, <1>12, <1>15 DEF PacketEnd, p
<1>17. ASSUME m # n + 1 PROVE items[n + 1] = "^C" /\ pound # 3
  <2>1. d >= 1 /\ 1 \in 1..d /\ 1 \in 1..Len(Rest)
    BY <1>1, <1>2, <1>8, <1>9, <1>17 DEF d
  <2>2. Rest[1] = items[n + 1] /\ items[n + 1] \in Single
    BY <1>1, <1>10, <1>14, <2>1
  <2>3. QED
    BY <1>3, <1>9, <1>15, <2>1, <2>2 DEF Single
<1>18. ASSUME m = n + 1
       PROVE  pound = 3 /\ \A j \in 1..5 : Rest[j] = Encode(items[m])[j]
  <2>1. d = 0
    BY <1>4, <1>18 DEF d
  <2>2. \A j \in 1..5 : j \in 1..Len(Rest)
    BY <1>1, <1>2, <1>15, <2>1
  <2>3. p + d = p
    BY <1>4, <2>1
  <2>4. QED
    BY <1>1, <1>12, <1>15, <2>1, <2>2, <2>3
<1>19. QED
  BY <1>8, <1>16, <1>17, <1>18
\* The command of a packet whose checksum is right is the item's, and one whose
\* checksum is wrong was damaged or has an interrupt before it, or the checksum
\* is no number.
LEMMA CommandAt ==
  ASSUME FrameTypeOK, InOrder, AtPacket, NEW n \in 0..Len(items), Stands(n)
  PROVE  \E m \in n + 1..Len(items) :
           /\ items[m] \in Items \ Single
           /\ \A k \in n + 1..m - 1 : items[k] \in Single
           /\ Off(items, m) = Len(consumed) + PacketEnd
           /\ PacketEnd \in 1..Len(clientbuf)
           /\ ~Checks => \/ Interrupted(items, m) \/ items[m] = "damaged"
                         \/ items[m] = "unsummed" /\ Unreadable
           /\ Checks => ~Interrupted(items, m)
           /\ Headless => items[m] = "headless"
           /\ \A cmd : IsCommand(cmd) => items[m] = cmd /\ cmd \in Commands
<1>1. PICK m \in n + 1..Len(items) :
           /\ items[m] \in Items \ Single
           /\ \A k \in n + 1..m - 1 : items[k] \in Single
           /\ Off(items, m) = Len(consumed) + PacketEnd
           /\ PacketEnd \in 1..Len(clientbuf)
           /\ m # n + 1 => items[n + 1] = "^C" /\ pound # 3
           /\ m = n + 1 => pound = 3 /\ \A j \in 1..5 : Rest[j] = Encode(items[m])[j]
  BY PacketAt
<1>2. CASE m # n + 1
  <2>1. ~Checks
    BY <1>1, <1>2 DEF Checks
  <2>2. Interrupted(items, m)
    <3>1. n + 1 \in 1..m - 1 /\ \A k \in n + 1..m - 1 : items[k] \in Single
      BY <1>1, <1>2
    <3>2. items[n + 1] = "^C"
      BY <1>1, <1>2
    <3>3. QED
      BY <3>1, <3>2, Zenon DEF Interrupted
  <2>3. QED
    BY <1>1, <2>1, <2>2 DEF IsCommand, Headless
<1>3. CASE m = n + 1
  <2> DEFINE x == items[m]
  <2>1. ~Interrupted(items, m)
    BY <1>3 DEF Stands
  <2>2. x \in Items /\ x \notin Single
    BY <1>1
  <2>3. pound = 3 /\ \A j \in 1..5 : Rest[j] = Encode(x)[j]
    BY <1>1, <1>3
  <2>4. Checks <=> Encode(x)[4] = "y" /\ Encode(x)[5] = "y"
    BY <2>3 DEF Checks
  <2>5. /\ Rest[1] = Encode(x)[1] /\ Rest[2] = Encode(x)[2]
        /\ Unreadable <=> Encode(x)[4] = "x"
    BY <2>3 DEF Unreadable
  <2> HIDE DEF x
  <2>6. CASE x = "damaged"
    <3>1. Encode(x) = <<"$", "s", "#", "n", "y">>
      BY <2>2, <2>6, EncodeCases
    <3>2. ~Checks
      BY <2>4, <3>1
    <3>3. QED
      BY <1>1, <2>6, <3>2 DEF IsCommand, Headless, x
  <2>7. CASE x = "headless"
    <3>1. Encode(x) = <<"%", "s", "#", "y", "y">>
      BY <2>2, <2>7, EncodeCases
    <3>2. Checks /\ Rest[1] = "%"
      BY <2>4, <2>5, <3>1
    <3>3. QED
      BY <1>1, <2>1, <2>7, <3>2 DEF IsCommand, Headless, x
  <2>8. CASE x = "unsummed"
    <3>1. Encode(x) = <<"$", "s", "#", "x", "y">>
      BY <2>2, <2>8, EncodeCases
    <3>2. ~Checks /\ Unreadable
      BY <2>4, <2>5, <3>1
    <3>3. QED
      BY <1>1, <2>8, <3>2 DEF IsCommand, Headless, x
  <2>9. CASE x \in Commands
    <3>1. Encode(x) = <<"$", x, "#", "y", "y">>
      BY <2>2, <2>9, EncodeCases
    <3>2. Checks /\ Rest[1] = "$" /\ Rest[2] = x
      BY <2>4, <2>5, <3>1
    <3>3. QED
      BY <1>1, <2>1, <2>9, <3>2 DEF IsCommand, Headless, x
  <2>10. QED
    BY <2>2, <2>6, <2>7, <2>8, <2>9, EncodeCases DEF Broken
<1>4. QED
  BY <1>2, <1>3

-----------------------------------------------------------------------------
(* Each action keeps the framing, whatever is answered.                    *)

\* gdbstub_init(): nothing sent, nothing received.
LEMMA FrameStarts == Init => Frame(0) /\ Outcomes(SubSeq(items, 1, 0)) = <<>>
<1> SUFFICES ASSUME Init PROVE Frame(0) /\ Outcomes(SubSeq(items, 1, 0)) = <<>>
  OBVIOUS
<1> USE DEF Init
<1>1. Stream(<<>>) = <<>> /\ Outcomes(<<>>) = <<>>
  <2>1. [i \in DOMAIN <<>> |-> Encode(<<>>[i])] = <<>>
    OBVIOUS
  <2>2. [i \in DOMAIN <<>> |-> Outcome(<<>>, i)] = <<>>
    OBVIOUS
  <2>3. QED
    BY <2>1, <2>2, FlattenEmpty, Zenon DEF Stream, Outcomes
<1>2. SubSeq(<<>>, 1, 0) = <<>>
  OBVIOUS
<1>3. FrameTypeOK
  <2>1. <<>> \in Seq(Symbol) /\ <<>> \in Seq(Items) /\ 0 \in 0..Len(<<>>)
    OBVIOUS
  <2>2. QED
    BY <2>1 DEF FrameTypeOK
<1>4. InOrder
  <2>1. <<>> \o <<>> \o <<>> = <<>>
    OBVIOUS
  <2>2. QED
    BY <1>1, <2>1 DEF InOrder
<1>5. Stands(0)
  <2>1. Off(<<>>, 0) = 0
    <3>1. Off(<<>>, 0) = Len(<<>>)
      BY <1>1, <1>2, Zenon DEF Off
    <3>2. QED
      BY <3>1
  <2>2. ~Interrupted(<<>>, 1)
    BY DEF Interrupted
  <2>3. QED
    BY <2>1, <2>2 DEF Stands
<1>6. Room /\ OnlyDropsTheGone
  BY PacketAssumption DEF Room, OnlyDropsTheGone
<1>7. 0 \in 0..Len(items)
  OBVIOUS
<1>8. Outcomes(SubSeq(items, 1, 0)) = <<>>
  BY <1>1, <1>2
<1>9. QED
  BY <1>3, <1>4, <1>5, <1>6, <1>7, <1>8, Zenon DEF Frame

\* The client sends: the stream grows at its end.
LEMMA FrameSend ==
  ASSUME NEW n, Frame(n), NEW it \in Items, Send(it)
  PROVE  Frame(n)' /\ Agree(items, items', n) /\ SubSeq(items', 1, n) = SubSeq(items, 1, n)
<1> USE DEF Frame
<1>1. /\ items' = Append(items, it) /\ wire' = wire \o Encode(it)
      /\ UNCHANGED <<stage, clientbuf, bp, processed_any, execute, replies, consumed,
                     ran, hungup, whole>>
  BY DEF Send, stub
<1>2. /\ items \in Seq(Items) /\ clientbuf \in Seq(Symbol) /\ wire \in Seq(Symbol)
      /\ consumed \in Seq(Symbol)
  BY DEF FrameTypeOK
<1>3. /\ items' \in Seq(Items) /\ Stream(items') = Stream(items) \o Encode(it)
      /\ Encode(it) \in Seq(Symbol)
  BY <1>1, <1>2, StreamAppend, EncodeType
<1>4. FrameTypeOK'
  <2>1. wire' \in Seq(Symbol)
    BY <1>1, <1>2, <1>3
  <2>2. QED
    BY <1>1, <1>3, <2>1 DEF FrameTypeOK
<1>5. InOrder'
  <2> DEFINE a == consumed \o clientbuf
  <2>1. a \in Seq(Symbol)
    BY <1>2
  <2> HIDE DEF a
  <2>2. (a \o wire) \o Encode(it) = a \o (wire \o Encode(it))
    <3>1. a \in Seq(Symbol) /\ wire \in Seq(Symbol) /\ Encode(it) \in Seq(Symbol)
      BY <1>2, <1>3, <2>1
    <3>2. QED
      BY <3>1, ConcatAssociative
  <2>3. a \o wire = Stream(items)
    BY DEF a, InOrder
  <2>4. QED
    BY <1>1, <1>3, <2>2, <2>3 DEF a, InOrder
<1>6. n \in Nat /\ n \in 0..Len(items') /\ SubSeq(items', 1, n) = SubSeq(items, 1, n)
       /\ \A i \in 1..n : items[i] = items'[i]
  BY <1>1, <1>2
<1>7. Agree(items, items', n)
  BY <1>6 DEF Agree
<1>8. ~Interrupted(items', n + 1)
  BY <1>6, <1>7, InterruptedPrefix DEF Stands
<1>9. Stands(n)'
  BY <1>1, <1>6, <1>8 DEF Stands, Off
<1>10. Room' /\ OnlyDropsTheGone'
  BY <1>1 DEF Room, OnlyDropsTheGone
<1>11. QED
  BY <1>4, <1>5, <1>6, <1>7, <1>9, <1>10

\* The scan stays behind item n when nothing that depends on changes.
LEMMA SameStand ==
  ASSUME NEW n, Stands(n), UNCHANGED items, Len(consumed') + bp' = Len(consumed) + bp
  PROVE  Stands(n)'
BY Zenon DEF Stands

\* The steps that move no byte.
LEMMA FrameStays ==
  ASSUME NEW n, Frame(n),
         HangUp \/ Poll \/ Dropped \/ Aborts \/ (\E say : gdbstub_interactive(say))
           \/ UNCHANGED vars
  PROVE  Frame(n)' /\ UNCHANGED <<items, ran>>
<1> USE DEF Frame
<1>1. UNCHANGED <<clientbuf, bp, consumed, wire, items, ran, whole>>
  BY DEF HangUp, Poll, Dropped, Aborts, gdbstub_interactive, vars, stub
<1>2. FrameTypeOK'
  BY <1>1 DEF FrameTypeOK, HangUp, Poll, Dropped, Aborts, gdbstub_interactive, vars, stub
<1>3. InOrder'
  BY <1>1 DEF InOrder
<1>4. Stands(n)'
  BY <1>1, SameStand
<1>5. Room' /\ OnlyDropsTheGone'
  BY <1>1 DEF FrameTypeOK, Room, OnlyDropsTheGone, HangUp, Poll, Dropped, Aborts,
     gdbstub_interactive, vars, stub
<1>6. QED
  BY <1>1, <1>2, <1>3, <1>4, <1>5

\* recv() moves bytes from the wire to the end of clientbuf.
LEMMA FrameRecv ==
  ASSUME NEW n, Frame(n), Recv
  PROVE  Frame(n)' /\ UNCHANGED <<items, replies, ran, execute>> /\ stage' = "scan" /\ ~execute
<1> USE DEF Frame
<1>1. /\ clientbuf \in Seq(Symbol) /\ wire \in Seq(Symbol) /\ consumed \in Seq(Symbol)
      /\ bp = 0 /\ ~execute /\ stage = "recv"
  BY DEF FrameTypeOK, Room, Recv
<1>2. /\ stage' = "scan" /\ processed_any' = FALSE /\ bp' = 0
      /\ UNCHANGED <<execute, replies, consumed, ran, hungup, items, whole>>
  BY DEF Recv, StartScan
<1>3. PICK l \in 0..Len(wire) : /\ clientbuf' = clientbuf \o SubSeq(wire, 1, l)
                                /\ wire' = SubSeq(wire, l + 1, Len(wire))
                                /\ l <= PKT_BUF_MAX - Len(clientbuf)
  <2>1. CASE \E l \in 1..Len(wire) : Received(l)
    <3>1. PICK l \in 1..Len(wire) : Received(l)
      BY <2>1
    <3>2. l \in 0..Len(wire)
      BY <1>1
    <3>3. QED
      BY <3>1, <3>2, Zenon DEF Received
  <2>2. CASE wire = <<>> /\ UNCHANGED <<clientbuf, wire>>
    <3>1. SubSeq(wire, 1, 0) = <<>> /\ SubSeq(wire, 0 + 1, Len(wire)) = wire
           /\ 0 \in 0..Len(wire)
      BY <1>1, SubSeqFull
    <3>2. clientbuf \o <<>> = clientbuf
      BY <1>1
    <3>3. 0 <= PKT_BUF_MAX - Len(clientbuf)
      BY <1>1, PacketAssumption DEF Room
    <3>4. QED
      BY <2>2, <3>1, <3>2, <3>3, Zenon
  <2>3. QED
    BY <2>1, <2>2 DEF Recv
<1>4. clientbuf' \in Seq(Symbol) /\ wire' \in Seq(Symbol) /\ Len(clientbuf') <= PKT_BUF_MAX
  BY <1>1, <1>3, PacketAssumption
<1>5. FrameTypeOK'
  <2>1. bp' \in 0..Len(clientbuf')
    BY <1>2, <1>4
  <2>2. QED
    BY <1>2, <1>4, <2>1 DEF FrameTypeOK
<1>6. InOrder'
  <2> DEFINE a == SubSeq(wire, 1, l)
             b == SubSeq(wire, l + 1, Len(wire))
  <2>1. a \in Seq(Symbol) /\ b \in Seq(Symbol) /\ a \o b = wire
    BY <1>1, SplitAt
  <2> HIDE DEF a, b
  <2>2. consumed \in Seq(Symbol) /\ clientbuf \in Seq(Symbol)
         /\ a \in Seq(Symbol) /\ b \in Seq(Symbol)
    BY <1>1, <2>1
  <2>3. (consumed \o clientbuf) \o a = consumed \o (clientbuf \o a)
    <3>1. consumed \in Seq(Symbol) /\ clientbuf \in Seq(Symbol) /\ a \in Seq(Symbol)
      BY <2>2
    <3> HIDE DEF Frame
    <3>2. QED
      BY <3>1, ConcatAssociative
  <2>4. consumed \o clientbuf \in Seq(Symbol)
    BY <2>2
  <2>5. ((consumed \o clientbuf) \o a) \o b = (consumed \o clientbuf) \o (a \o b)
    BY <2>2, <2>4
  <2>6. QED
    BY <1>2, <1>3, <2>1, <2>3, <2>5 DEF a, b, InOrder
<1>7. Stands(n)'
  BY <1>1, <1>2, SameStand
<1>8. Room' /\ OnlyDropsTheGone'
  BY <1>1, <1>2, <1>4 DEF Room, OnlyDropsTheGone
<1>9. QED
  BY <1>1, <1>2, <1>5, <1>6, <1>7, <1>8

\* memmove: what was passed over is removed, and there is room again.
LEMMA FrameCompact ==
  ASSUME NEW n, Frame(n), Compact
  PROVE  Frame(n)' /\ UNCHANGED <<items, replies>>
<1> USE DEF Frame
<1>1. /\ clientbuf \in Seq(Symbol) /\ consumed \in Seq(Symbol) /\ wire \in Seq(Symbol)
      /\ bp \in 0..Len(clientbuf) /\ execute \in BOOLEAN /\ processed_any \in BOOLEAN
  BY DEF FrameTypeOK
<1>2. /\ stage = "scan" /\ (Rest = <<>> \/ execute)
      /\ clientbuf' = Rest /\ consumed' = consumed \o SubSeq(clientbuf, 1, bp) /\ bp' = 0
      /\ stage' = IF execute THEN "running" ELSE IF processed_any THEN "recv" ELSE "poll"
      /\ ran' = IF execute THEN ran + 1 ELSE ran
      /\ UNCHANGED <<processed_any, execute, replies, wire, hungup, items, whole>>
  BY DEF Compact, ScanDone, Leftover
<1> DEFINE a == SubSeq(clientbuf, 1, bp)
<1>3. a \in Seq(Symbol) /\ Rest \in Seq(Symbol) /\ a \o Rest = clientbuf /\ Len(a) = bp
       /\ Len(Rest) = Len(clientbuf) - bp
  BY <1>1, SplitAt DEF Rest
<1> HIDE DEF a
<1>4. consumed' = consumed \o a
  BY <1>2 DEF a
<1>5. consumed' \in Seq(Symbol) /\ Len(consumed') = Len(consumed) + bp
  <2>1. consumed \in Seq(Symbol) /\ a \in Seq(Symbol) /\ Len(a) = bp
    BY <1>1, <1>3
  <2>2. QED
    BY <1>4, <2>1, ConcatProperties
<1>6. FrameTypeOK'
  BY <1>2, <1>3, <1>5 DEF FrameTypeOK
<1>7. InOrder'
  <2>1. consumed \in Seq(Symbol) /\ a \in Seq(Symbol) /\ Rest \in Seq(Symbol)
    BY <1>1, <1>3
  <2>2. (consumed \o a) \o Rest = consumed \o (a \o Rest)
    BY <2>1
  <2>3. QED
    BY <1>2, <1>3, <1>4, <2>2 DEF InOrder
<1>8. Stands(n)'
  BY <1>1, <1>2, <1>5, SameStand
<1>9. Len(clientbuf') < PKT_BUF_MAX
  <2>1. CASE Rest = <<>>
    BY <1>2, <2>1, PacketAssumption
  <2>2. CASE execute
    BY <1>1, <1>2, <1>3, <2>2, PacketAssumption DEF Room
  <2>3. QED
    BY <1>2, <2>1, <2>2
<1>10. Room'
  BY <1>1, <1>2, <1>9, PacketAssumption DEF Room
<1>11. OnlyDropsTheGone'
  BY <1>1, <1>2 DEF OnlyDropsTheGone, FrameTypeOK
<1>12. QED
  BY <1>2, <1>6, <1>7, <1>8, <1>10, <1>11

\* A sign is one item, and ends no interrupt.
LEMMA FrameSign ==
  ASSUME NEW n, Frame(n), SkipSign
  PROVE  /\ Frame(n + 1)' /\ n + 1 \in 1..Len(items) /\ items[n + 1] \in Signs
         /\ UNCHANGED <<items, replies, ran, execute, stage>>
<1> USE DEF Frame
<1>1. /\ stage = "scan" /\ ~execute /\ bp' = bp + 1 /\ processed_any' = TRUE
      /\ UNCHANGED <<stage, clientbuf, execute, replies, consumed, ran, wire, hungup,
                     items, whole>>
  BY DEF SkipSign, Scanning
<1>2. /\ items \in Seq(Items) /\ bp \in 0..Len(clientbuf)
      /\ consumed \in Seq(Symbol) /\ clientbuf \in Seq(Symbol)
  BY DEF FrameTypeOK
<1> DEFINE p == Len(consumed) + bp
<1>3. /\ Rest \in Seq(Symbol) /\ Len(Rest) = Len(clientbuf) - bp
      /\ \A j \in 1..Len(Rest) :
           Rest[j] = Stream(items)[p + j] /\ p + j <= Len(Stream(items))
  BY RestIs
<1>4. 1 \in 1..Len(Rest) /\ Rest[1] \in Signs
  BY <1>3 DEF SkipSign, AtSign
<1>5. Stream(items)[p + 1] \in Signs /\ p + 1 <= Len(Stream(items))
  BY <1>3, <1>4
<1>6. n \in 0..Len(items) /\ Stands(n)
  OBVIOUS
<1>7. p = Off(items, n) /\ p \in Nat
  BY <1>2, <1>6 DEF Stands
<1> HIDE DEF p
<1>8. n < Len(items)
  <2>1. Off(items, Len(items)) = Len(Stream(items)) /\ Len(items) \in Nat
    BY <1>2, StreamType
  <2>2. n # Len(items)
    BY <1>5, <1>7, <2>1
  <2>3. QED
    BY <2>1, <2>2
<1> DEFINE m == n + 1
<1>9. m \in n + 1..Len(items) /\ m \in 1..Len(items) /\ m \in 0..Len(items) /\ n \in Nat
       /\ \A k \in n + 1..m - 1 : FALSE
  BY <1>8
<1>10. items[m] \in Items /\ items[m] \in Signs /\ Off(items, m) = p + 1
  <2>1. /\ items[n + 1] \in Items
        /\ Off(items, n + 1) = Off(items, n) + Len(Encode(items[n + 1]))
        /\ \A j \in 1..Len(Encode(items[n + 1])) :
             Stream(items)[Off(items, n) + j] = Encode(items[n + 1])[j]
    BY <1>2, <1>8, StreamAt
  <2>2. Len(Encode(items[n + 1])) >= 1 /\ 1 \in 1..Len(Encode(items[n + 1]))
    BY <2>1, EncodeType
  <2>3. Encode(items[n + 1])[1] \in Signs
    BY <1>5, <1>7, <2>1, <2>2
  <2>4. items[n + 1] \in Single
    BY <2>1, <2>3, EncodeType DEF Signs
  <2>5. Len(Encode(items[n + 1])) = 1 /\ Encode(items[n + 1])[1] = items[n + 1]
    BY <2>1, <2>4, EncodeType
  <2>6. QED
    BY <1>7, <2>1, <2>3, <2>5
<1> HIDE DEF m
<1>12. ~Interrupted(items, m + 1)
  <2> SUFFICES ASSUME NEW j \in 1..(m + 1) - 1, items[j] = "^C",
                      \A k \in j..(m + 1) - 1 : items[k] \in Single
               PROVE  FALSE
    BY DEF Interrupted
  <2>1. items[m] # "^C"
    BY <1>10 DEF Signs
  <2>2. j \in 1..(n + 1) - 1 /\ \A k \in j..(n + 1) - 1 : k \in j..(m + 1) - 1
    BY <1>9, <2>1 DEF m
  <2>3. Interrupted(items, n + 1)
    BY <2>2, Zenon DEF Interrupted
  <2>4. QED
    BY <1>6, <2>3 DEF Stands
<1>15. Stands(m)'
  <2>1. Len(consumed') + bp' = Off(items', m)
    BY <1>1, <1>2, <1>10 DEF p
  <2>2. QED
    BY <1>1, <1>12, <2>1 DEF Stands
<1>16. FrameTypeOK'
  <2>1. bp' \in 0..Len(clientbuf')
    BY <1>1, <1>2, <1>3, <1>4
  <2>2. QED
    BY <1>1, <2>1 DEF FrameTypeOK
<1>17. InOrder'
  BY <1>1 DEF InOrder
<1>18. m \in 0..Len(items')
  BY <1>1, <1>9
<1>19. Room' /\ OnlyDropsTheGone'
  BY <1>1, <1>2 DEF Room, OnlyDropsTheGone
<1>20. QED
  BY <1>1, <1>9, <1>10, <1>15, <1>16, <1>17, <1>18, <1>19 DEF m

\* gdb_cmd() passes over a packet: the items up to the next that is no single byte.
LEMMA FrameCommand ==
  ASSUME NEW n, Frame(n), NEW say, NEW go \in BOOLEAN, gdb_cmd(say, go)
  PROVE  /\ UNCHANGED <<stage, items, ran>> /\ stage = "scan" /\ ~execute
         /\ \E m \in n + 1..Len(items) :
              /\ Frame(m)'
              /\ items[m] \in Items \ Single
              /\ \A k \in n + 1..m - 1 : items[k] \in Single
              /\ ~Checks => \/ Interrupted(items, m) \/ items[m] = "damaged"
                            \/ items[m] = "unsummed" /\ Unreadable
              /\ Checks => ~Interrupted(items, m)
              /\ Headless => items[m] = "headless"
              /\ \A cmd : IsCommand(cmd) => items[m] = cmd /\ cmd \in Commands
<1> USE DEF Frame
<1>1. /\ stage = "scan" /\ ~execute /\ execute' = go /\ AtPacket
      /\ processed_any' = TRUE /\ bp' = PacketEnd
      /\ UNCHANGED <<stage, clientbuf, consumed, ran, wire, hungup, items, whole>>
  BY DEF gdb_cmd, AtPacket, Scanning
<1>2. PICK m \in n + 1..Len(items) :
              /\ items[m] \in Items \ Single
              /\ \A k \in n + 1..m - 1 : items[k] \in Single
              /\ Off(items, m) = Len(consumed) + PacketEnd
              /\ PacketEnd \in 1..Len(clientbuf)
              /\ ~Checks => \/ Interrupted(items, m) \/ items[m] = "damaged"
                            \/ items[m] = "unsummed" /\ Unreadable
              /\ Checks => ~Interrupted(items, m)
              /\ Headless => items[m] = "headless"
              /\ \A cmd : IsCommand(cmd) => items[m] = cmd /\ cmd \in Commands
  BY <1>1, CommandAt
<1>3. items \in Seq(Items)
  BY DEF FrameTypeOK
<1>4. ~Interrupted(items, m + 1)
  <2> SUFFICES ASSUME NEW j \in 1..(m + 1) - 1,
                      \A k \in j..(m + 1) - 1 : items[k] \in Single
               PROVE  FALSE
    BY DEF Interrupted
  <2>1. m \in j..(m + 1) - 1
    OBVIOUS
  <2>2. QED
    BY <1>2, <2>1
<1>5. Frame(m)'
  <2>1. FrameTypeOK'
    <3>1. bp' \in 0..Len(clientbuf')
      BY <1>1, <1>2
    <3>2. QED
      BY <1>1, <3>1 DEF FrameTypeOK
  <2>2. InOrder'
    BY <1>1 DEF InOrder
  <2>3. Stands(m)'
    BY <1>1, <1>2, <1>4 DEF Stands
  <2>4. m \in 0..Len(items')
    BY <1>1, <1>2, <1>3
  <2>5. Room' /\ OnlyDropsTheGone'
    BY <1>1, <1>2 DEF Room, OnlyDropsTheGone
  <2>6. QED
    BY <2>1, <2>2, <2>3, <2>4, <2>5
<1>6. QED
  BY <1>1, <1>2, <1>5

\* What the scan has passed over are the first n items.
LEMMA Passed ==
  ASSUME NEW n, Frame(n)
  PROVE  consumed \o SubSeq(clientbuf, 1, bp) = Stream(SubSeq(items, 1, n))
<1>1. n \in 0..Len(items)
  BY DEF Frame
<1>2. /\ clientbuf \in Seq(Symbol) /\ consumed \in Seq(Symbol) /\ wire \in Seq(Symbol)
      /\ bp \in 0..Len(clientbuf) /\ items \in Seq(Items)
  BY DEF Frame, FrameTypeOK
<1> DEFINE a == SubSeq(clientbuf, 1, bp)
           b == SubSeq(clientbuf, bp + 1, Len(clientbuf))
           c == consumed \o a
           d == b \o wire
<1>3. a \in Seq(Symbol) /\ b \in Seq(Symbol) /\ a \o b = clientbuf /\ Len(a) = bp
  BY <1>2, SplitAt
<1> HIDE DEF a, b
<1>4. c \in Seq(Symbol) /\ d \in Seq(Symbol) /\ Len(c) = Len(consumed) + bp
  <2>1. consumed \in Seq(Symbol) /\ a \in Seq(Symbol) /\ b \in Seq(Symbol)
         /\ wire \in Seq(Symbol) /\ Len(a) = bp
    BY <1>2, <1>3
  <2>2. c \in Seq(Symbol) /\ d \in Seq(Symbol)
    BY <2>1
  <2>3. Len(c) = Len(consumed) + Len(a)
    BY <2>1, ConcatProperties
  <2>4. QED
    BY <2>1, <2>2, <2>3
<1>5. Stream(items) = c \o d
  <2>1. consumed \in Seq(Symbol) /\ a \in Seq(Symbol) /\ b \in Seq(Symbol)
         /\ wire \in Seq(Symbol)
    BY <1>2, <1>3
  <2>2. consumed \o (a \o b) = (consumed \o a) \o b
    BY <2>1
  <2>3. ((consumed \o a) \o b) \o wire = (consumed \o a) \o (b \o wire)
    <3>1. consumed \o a \in Seq(Symbol)
      BY <2>1
    <3>2. QED
      BY <2>1, <3>1
  <2>4. QED
    BY <1>3, <2>2, <2>3 DEF Frame, InOrder
<1> HIDE DEF c, d
<1>6. SubSeq(c \o d, 1, Len(c)) = c
  BY <1>4
<1>7. Stream(SubSeq(items, 1, n)) = SubSeq(Stream(items), 1, Off(items, n))
  BY <1>1, <1>2, StreamType
<1>8. Off(items, n) = Len(c)
  BY <1>1, <1>4 DEF Frame, Stands
<1>9. c = Stream(SubSeq(items, 1, n))
  BY <1>5, <1>6, <1>7, <1>8
<1>10. QED
  BY <1>9 DEF c, a

-----------------------------------------------------------------------------
(* And the replies.                                                        *)

\* Nothing answered yet.
LEMMA InitInv == Init => PacketInv
<1> SUFFICES ASSUME Init PROVE PacketInv
  OBVIOUS
<1>1. Frame(0) /\ Outcomes(SubSeq(items, 1, 0)) = <<>>
  BY FrameStarts
<1>2. replies = <<>> /\ ran = 0 /\ stage = "running"
  BY DEF Init
<1>3. Replied(0)
  BY <1>1, <1>2 DEF Replied
<1>4. OneRunPerResume
  <2>1. {i \in DOMAIN <<>> : <<>>[i] = "stop"} = {}
    OBVIOUS
  <2>2. StopReplies(<<>>) = 0
    BY <2>1, FS_EmptySet, Zenon DEF StopReplies
  <2>3. QED
    BY <1>2, <2>2 DEF OneRunPerResume
<1>5. replies \in Seq(Reply) /\ ran \in Nat /\ 0 \in Nat
  BY <1>2
<1>6. QED
  BY <1>1, <1>3, <1>4, <1>5, Zenon DEF PacketInv

\* What was answered stays the answer when the client sends more.
LEMMA SendKeeps ==
  ASSUME PacketInv, NEW it \in Items, Send(it)
  PROVE  PacketInv'
<1>1. PICK n \in Nat : Frame(n) /\ Replied(n)
  BY DEF PacketInv
<1>2. Frame(n)' /\ Agree(items, items', n) /\ SubSeq(items', 1, n) = SubSeq(items, 1, n)
  BY <1>1, FrameSend
<1>3. UNCHANGED <<replies, ran, stage, execute>>
  BY DEF Send, stub
<1>4. \A i \in 1..n : Outcome(items', i) \in Seq(Reply)
  <2>1. \A i \in 1..n : Outcome(items, i) = Outcome(items', i)
    BY <1>2, OutcomePrefix
  <2>2. QED
    BY <1>1, <2>1 DEF Replied
<1>5. Replied(n)'
  BY <1>1, <1>2, <1>3, <1>4 DEF Replied
<1>6. OneRunPerResume' /\ replies' \in Seq(Reply) /\ ran' \in Nat
  BY <1>3 DEF PacketInv, OneRunPerResume
<1>7. QED
  BY <1>2, <1>5, <1>6 DEF PacketInv

\* The steps that answer nothing and pass over nothing.
LEMMA QuietKeeps ==
  ASSUME PacketInv,
         HangUp \/ Poll \/ Dropped \/ Aborts \/ gdbstub_interactive(<<>>) \/ Recv \/ Compact
           \/ UNCHANGED vars
  PROVE  PacketInv'
<1>1. PICK n \in Nat : Frame(n) /\ Replied(n)
  BY DEF PacketInv
<1>2. Frame(n)' /\ UNCHANGED items
  <2>1. CASE Recv
    BY <1>1, <2>1, FrameRecv
  <2>2. CASE Compact
    BY <1>1, <2>2, FrameCompact
  <2>3. CASE HangUp \/ Poll \/ Dropped \/ Aborts \/ gdbstub_interactive(<<>>) \/ UNCHANGED vars
    BY <1>1, <2>3, FrameStays
  <2>4. QED
    BY <2>1, <2>2, <2>3
<1>3. replies \in Seq(Reply) /\ ran \in Nat /\ OneRunPerResume
  BY DEF PacketInv
<1>4. replies' = replies
  <2>1. replies \o <<>> = replies
    BY <1>3
  <2>2. QED
    BY <2>1 DEF HangUp, Poll, Dropped, Aborts, gdbstub_interactive, Recv, StartScan, Compact, vars, stub
<1>5. Replied(n)'
  BY <1>1, <1>2, <1>4 DEF Replied
<1>6. ran' \in Nat /\ OneRunPerResume'
  <2>1. /\ stage \in {"poll", "recv"} => ~execute
        /\ Aborts => ~execute
    BY <1>1 DEF Frame, Room, Aborts, AtPacket, Scanning
  <2>2. execute \in BOOLEAN
    BY <1>1 DEF Frame, FrameTypeOK
  <2>3. CASE Compact
    BY <1>3, <1>4, <2>2, <2>3 DEF Compact, OneRunPerResume
  <2>4. CASE Recv
    BY <1>3, <1>4, <2>1, <2>4 DEF Recv, StartScan, OneRunPerResume
  <2>5. CASE HangUp \/ Poll \/ Dropped \/ Aborts \/ gdbstub_interactive(<<>>) \/ UNCHANGED vars
    BY <1>3, <1>4, <2>1, <2>5 DEF HangUp, Poll, Dropped, Aborts, gdbstub_interactive, vars, stub,
       OneRunPerResume
  <2>6. QED
    BY <2>3, <2>4, <2>5
<1>7. QED
  BY <1>2, <1>3, <1>4, <1>5, <1>6 DEF PacketInv

\* A sign is not answered.
LEMMA SkipSignKeeps ==
  ASSUME PacketInv, SkipSign
  PROVE  PacketInv'
<1>1. PICK n \in Nat : Frame(n) /\ Replied(n)
  BY DEF PacketInv
<1>2. /\ Frame(n + 1)' /\ n + 1 \in 1..Len(items) /\ items[n + 1] \in Signs
      /\ UNCHANGED <<items, replies, ran, execute, stage>>
  BY <1>1, FrameSign
<1> DEFINE m == n + 1
<1>3. /\ items \in Seq(Items) /\ replies \in Seq(Reply) /\ n \in 0..Len(items)
      /\ m \in n + 1..Len(items) /\ \A k \in n + 1..m - 1 : FALSE
  BY <1>1, <1>2 DEF PacketInv, Frame, FrameTypeOK
<1> HIDE DEF m
<1>4. Outcome(items, m) = <<>>
  BY <1>2, Zenon DEF Outcome, Single, m
<1>5. /\ Outcomes(SubSeq(items, 1, m)) = replies \o <<>>
      /\ \A i \in 1..m : Outcome(items, i) \in Seq(Reply)
  <2>1. <<>> \in Seq(Reply)
    OBVIOUS
  <2>2. replies = Outcomes(SubSeq(items, 1, n)) /\ \A i \in 1..n : Outcome(items, i) \in Seq(Reply)
    BY <1>1 DEF Replied
  <2>3. Outcome(items, m) \in Seq(Reply) /\ Outcomes(SubSeq(items, 1, n)) \in Seq(Reply)
    BY <1>3, <1>4, <2>1, <2>2
  <2>4. /\ Outcomes(SubSeq(items, 1, m)) = Outcomes(SubSeq(items, 1, n)) \o Outcome(items, m)
        /\ \A i \in 1..m : Outcome(items, i) \in Seq(Reply)
    BY <1>3, <2>2, <2>3, OutcomesUpTo
  <2>5. QED
    BY <1>4, <2>2, <2>4
<1>6. replies \o <<>> = replies
  BY <1>3
<1>7. Replied(m)'
  BY <1>2, <1>5, <1>6 DEF Replied
<1>8. OneRunPerResume' /\ ran' \in Nat /\ replies' \in Seq(Reply)
  BY <1>2 DEF PacketInv, OneRunPerResume
<1>9. m \in Nat /\ Frame(m)'
  BY <1>1, <1>2 DEF m
<1>10. QED
  BY <1>7, <1>8, <1>9 DEF PacketInv

\* A packet is answered with its outcome, and a stop reply sets execute.
LEMMA CommandKeeps ==
  ASSUME PacketInv, Refused \/ Weird \/ Dispatch
  PROVE  PacketInv'
<1>1. PICK n \in Nat : Frame(n) /\ Replied(n)
  BY DEF PacketInv
<1>2. PICK x \in Reply, go \in BOOLEAN :
        /\ gdb_cmd(<<x>>, go) /\ (go <=> x = "stop")
        /\ \/ x = "NAK" /\ ~Checks /\ ~Unreadable
           \/ x = "empty" /\ Headless
           \/ x = "answer" /\ IsCommand("q")
           \/ x = "stop" /\ IsCommand("s")
           \/ x = "empty" /\ IsCommand("u")
  <2>1. {"NAK", "empty", "answer", "stop"} \subseteq Reply
    BY DEF Reply
  <2>2. CASE Refused
    BY <2>1, <2>2 DEF Refused
  <2>3. CASE Weird
    BY <2>1, <2>3 DEF Weird
  <2>4. CASE IsCommand("q") /\ gdb_cmd(<<"answer">>, FALSE)
    BY <2>1, <2>4
  <2>5. CASE IsCommand("s") /\ gdb_cmd(<<"stop">>, TRUE)
    BY <2>1, <2>5
  <2>6. CASE IsCommand("u") /\ gdb_cmd(<<"empty">>, FALSE)
    BY <2>1, <2>6
  <2>7. QED
    BY <2>2, <2>3, <2>4, <2>5, <2>6 DEF Dispatch
<1>3. /\ UNCHANGED <<stage, items, ran>> /\ stage = "scan" /\ ~execute
      /\ \E m \in n + 1..Len(items) :
           /\ Frame(m)'
           /\ items[m] \in Items \ Single
           /\ \A k \in n + 1..m - 1 : items[k] \in Single
           /\ ~Checks => \/ Interrupted(items, m) \/ items[m] = "damaged"
                         \/ items[m] = "unsummed" /\ Unreadable
           /\ Checks => ~Interrupted(items, m)
           /\ Headless => items[m] = "headless"
           /\ \A cmd : IsCommand(cmd) => items[m] = cmd /\ cmd \in Commands
  BY <1>1, <1>2, FrameCommand
<1>4. PICK m \in n + 1..Len(items) :
           /\ Frame(m)'
           /\ items[m] \in Items \ Single
           /\ \A k \in n + 1..m - 1 : items[k] \in Single
           /\ ~Checks => \/ Interrupted(items, m) \/ items[m] = "damaged"
                         \/ items[m] = "unsummed" /\ Unreadable
           /\ Checks => ~Interrupted(items, m)
           /\ Headless => items[m] = "headless"
           /\ \A cmd : IsCommand(cmd) => items[m] = cmd /\ cmd \in Commands
  BY <1>3
<1>5. Outcome(items, m) = <<x>>
  <2> DEFINE y == items[m]
             o == CASE y = "damaged"           -> <<"NAK">>
                    [] y = "unsummed"          -> <<>>
                    [] y \in {"u", "headless"} -> <<"empty">>
                    [] y = "q"                 -> <<"answer">>
                    [] y = "s"                 -> <<"stop">>
  <2>1. Outcome(items, m) = IF Interrupted(items, m) THEN <<"NAK">> ELSE o
    BY <1>4, Zenon DEF Outcome
  <2>2. y = "damaged" => o = <<"NAK">>
    OBVIOUS
  <2>3. y = "headless" \/ y = "u" => o = <<"empty">>
    OBVIOUS
  <2>4. (y = "q" => o = <<"answer">>) /\ (y = "s" => o = <<"stop">>)
    OBVIOUS
  <2> HIDE DEF o
  <2>5. CASE x = "NAK" /\ ~Checks /\ ~Unreadable
    BY <1>4, <2>1, <2>2, <2>5, Zenon
  <2>6. CASE x = "empty" /\ Headless
    BY <1>4, <2>1, <2>3, <2>6, Zenon DEF Headless
  <2>7. CASE x = "answer" /\ IsCommand("q")
    BY <1>4, <2>1, <2>4, <2>7, Zenon DEF IsCommand
  <2>8. CASE x = "stop" /\ IsCommand("s")
    BY <1>4, <2>1, <2>4, <2>8, Zenon DEF IsCommand
  <2>9. CASE x = "empty" /\ IsCommand("u")
    BY <1>4, <2>1, <2>3, <2>9, Zenon DEF IsCommand
  <2>10. QED
    BY <1>2, <2>5, <2>6, <2>7, <2>8, <2>9
<1>6. replies' = replies \o <<x>> /\ execute' = go
  BY <1>2 DEF gdb_cmd
<1>7. items \in Seq(Items) /\ replies \in Seq(Reply) /\ ran \in Nat /\ n \in 0..Len(items)
  BY <1>1 DEF PacketInv, Frame, FrameTypeOK
<1>8. /\ Outcomes(SubSeq(items, 1, m)) = replies \o <<x>>
      /\ \A i \in 1..m : Outcome(items, i) \in Seq(Reply)
  <2>1. <<x>> \in Seq(Reply)
    OBVIOUS
  <2>2. replies = Outcomes(SubSeq(items, 1, n)) /\ \A i \in 1..n : Outcome(items, i) \in Seq(Reply)
    BY <1>1 DEF Replied
  <2>3. Outcome(items, m) \in Seq(Reply) /\ Outcomes(SubSeq(items, 1, n)) \in Seq(Reply)
    BY <1>5, <1>7, <2>1, <2>2
  <2>4. /\ Outcomes(SubSeq(items, 1, m)) = Outcomes(SubSeq(items, 1, n)) \o Outcome(items, m)
        /\ \A i \in 1..m : Outcome(items, i) \in Seq(Reply)
    BY <1>4, <1>7, <2>2, <2>3, OutcomesUpTo
  <2>5. QED
    BY <1>5, <2>2, <2>4
<1>9. Replied(m)'
  BY <1>3, <1>6, <1>8 DEF Replied
<1>10. OneRunPerResume'
  <2>1. StopReplies(replies') = StopReplies(replies) + IF x = "stop" THEN 1 ELSE 0
    BY <1>6, <1>7, StopsAppend
  <2>2. StopReplies(replies) = ran
    BY <1>3, <1>7 DEF PacketInv, OneRunPerResume
  <2>3. QED
    BY <1>2, <1>3, <1>6, <1>7, <2>1, <2>2 DEF OneRunPerResume
<1>11. replies' \in Seq(Reply) /\ ran' \in Nat /\ m \in Nat
  BY <1>3, <1>6, <1>7
<1>12. QED
  BY <1>4, <1>9, <1>10, <1>11 DEF PacketInv

-----------------------------------------------------------------------------
(* The theorems.                                                           *)

\* The invariant holds throughout: whatever the client sends and however the
\* network cuts it, the scan of gdbstub_interactive() stands between two items.
THEOREM PacketInvariant == Spec => []PacketInv
<1>1. Init => PacketInv
  BY InitInv
<1>2. PacketInv /\ [Next]_vars => PacketInv'
  <2> SUFFICES ASSUME PacketInv, [Next]_vars PROVE PacketInv'
    OBVIOUS
  <2>1. CASE SkipSign
    BY <2>1, SkipSignKeeps
  <2>2. CASE Refused \/ Weird \/ Dispatch
    BY <2>2, CommandKeeps
  <2>3. CASE \E item \in Items : Send(item)
    BY <2>3, SendKeeps
  <2>4. CASE \/ HangUp \/ Poll \/ Dropped \/ Aborts \/ gdbstub_interactive(<<>>)
             \/ Recv \/ Compact
    BY <2>4, QuietKeeps
  <2>5. CASE UNCHANGED vars \/ Spin \/ Exited
    <3>1. UNCHANGED vars
      BY <2>5 DEF Spin, Exited
    <3>2. QED
      BY <3>1, QuietKeeps
  <2>6. QED
    BY <2>1, <2>2, <2>3, <2>4, <2>5 DEF Next, Stub
<1>3. QED
  BY <1>1, <1>2, PTL DEF Spec

\* The scan and the memmove lose, repeat and reorder nothing, and every packet
\* gets its own reply, for any number of packets and any size of clientbuf.
THEOREM HandledOnce == Spec => []HandledOnceInOrder
<1>1. PacketInv => HandledOnceInOrder
  <2> SUFFICES ASSUME PacketInv PROVE HandledOnceInOrder
    OBVIOUS
  <2>1. PICK n \in Nat : Frame(n) /\ Replied(n)
    BY DEF PacketInv
  <2>2. consumed \o SubSeq(clientbuf, 1, bp) = Stream(SubSeq(items, 1, n))
    BY <2>1, Passed
  <2>3. n \in 0..Len(items) /\ consumed \o clientbuf \o wire = Stream(items)
    BY <2>1 DEF Frame, InOrder
  <2>4. QED
    BY <2>1, <2>2, <2>3, Zenon DEF HandledOnceInOrder, Replied
<1>2. QED
  BY <1>1, PacketInvariant, PTL

\* A resume command runs the program once, before what is behind it in clientbuf
\* is looked at.
THEOREM OneRun == Spec => []OneRunPerResume
<1>1. PacketInv => OneRunPerResume
  BY DEF PacketInv
<1>2. QED
  BY <1>1, PacketInvariant, PTL

\* gdbstub_interactive() never takes a full buffer for a client that dropped, for
\* every size of clientbuf.
THEOREM NoFalseDrop == Spec => []OnlyDropsTheGone
<1>1. PacketInv => OnlyDropsTheGone
  BY DEF PacketInv, Frame
<1>2. QED
  BY <1>1, PacketInvariant, PTL
=============================================================================
