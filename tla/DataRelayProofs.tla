------------------------------ MODULE DataRelayProofs ------------------------------
(***************************************************************************)
(* Datagrams: what the receiver decodes is what its sender encoded, for    *)
(* every id, payload and packet, provided the id's length fits its one     *)
(* byte and the datagram fits the receiver's buffer (the code checks       *)
(* neither: ids are UUIDs, and a longer message arrives cut).              *)
(*                                                                         *)
(* The relay, for any servers, data publishers, subscribers and calls: a   *)
(* loop that sends to a server has its receiver there; a data publisher    *)
(* whose relay is established is found by those who ask for it on the      *)
(* target; and what they hear is what it said.                             *)
(***************************************************************************)
EXTENDS DataRelay, TLAPS

-----------------------------------------------------------------------------
(* Datagrams *)

\* A datagram that fits the receiver's buffer arrives whole.
LEMMA ArrivesWhole ==
  ASSUME NEW bytes, Len(bytes) <= Buffer, Len(bytes) \in Nat, Buffer \in Nat
  PROVE  Received(bytes) = bytes
BY DEF Received

\* A sequence is the function it looks like: equal length and equal elements.
LEMMA SameSequence ==
  ASSUME NEW S, NEW s \in Seq(S), NEW t \in Seq(S), Len(s) = Len(t),
         \A i \in 1 .. Len(s) : s[i] = t[i]
  PROVE  s = t
OBVIOUS

\* A length that fits a byte.
LEMMA OneByte ==
  ASSUME NEW n \in Nat, n < 256
  PROVE  n \in Bytes /\ n % 256 = n
BY DEF Bytes

\* Where the elements of a concatenation come from.
LEMMA Concatenation ==
  ASSUME NEW S, NEW s \in Seq(S), NEW t \in Seq(S)
  PROVE  /\ s \o t \in Seq(S) /\ Len(s \o t) = Len(s) + Len(t)
         /\ \A i \in 1 .. Len(s) : (s \o t)[i] = s[i]
         /\ \A i \in 1 .. Len(t) : (s \o t)[Len(s) + i] = t[i]
OBVIOUS

\* What SubSeq takes.
LEMMA Slice ==
  ASSUME NEW S, NEW s \in Seq(S), NEW i \in Nat \ {0}, NEW k \in Nat,
         i + k - 1 <= Len(s)
  PROVE  /\ SubSeq(s, i, i + k - 1) \in Seq(S) /\ Len(SubSeq(s, i, i + k - 1)) = k
         /\ \A j \in 1 .. k : SubSeq(s, i, i + k - 1)[j] = s[i + j - 1]
OBVIOUS

\* A slice that holds the elements of t is t.
LEMMA SliceIs ==
  ASSUME NEW S, NEW s \in Seq(S), NEW t \in Seq(S), NEW i \in Nat \ {0},
         i + Len(t) - 1 <= Len(s), \A j \in 1 .. Len(t) : s[i + j - 1] = t[j]
  PROVE  SubSeq(s, i, i + Len(t) - 1) = t
<1>1. Len(t) \in Nat
  OBVIOUS
<1>2. /\ SubSeq(s, i, i + Len(t) - 1) \in Seq(S)
      /\ Len(SubSeq(s, i, i + Len(t) - 1)) = Len(t)
      /\ \A j \in 1 .. Len(t) : SubSeq(s, i, i + Len(t) - 1)[j] = s[i + j - 1]
  BY <1>1, Slice
<1>3. \A j \in 1 .. Len(t) : SubSeq(s, i, i + Len(t) - 1)[j] = t[j]
  BY <1>2
<1>4. QED
  BY <1>2, <1>3, SameSequence

\* Parts put one after the other are found at their places.
LEMMA Layout ==
  ASSUME NEW S, NEW s \in Seq(S), NEW t \in Seq(S), NEW u \in Seq(S)
  PROVE  /\ s \o t \o u \in Seq(S)
         /\ Len(s \o t \o u) = Len(s) + Len(t) + Len(u)
         /\ \A j \in 1 .. Len(s) : (s \o t \o u)[j] = s[j]
         /\ SubSeq(s \o t \o u, Len(s) + 1, Len(s) + Len(t)) = t
         /\ \A j \in 1 .. Len(t) : (s \o t \o u)[Len(s) + j] = t[j]
<1> DEFINE b1 == s \o t
           b == b1 \o u
<1>1. Len(s) \in Nat /\ Len(t) \in Nat /\ Len(u) \in Nat
  OBVIOUS
<1>2. /\ Len(b1) = Len(s) + Len(t)
      /\ \A i \in 1 .. Len(s) : b1[i] = s[i]
      /\ \A i \in 1 .. Len(t) : b1[Len(s) + i] = t[i]
  BY Concatenation
<1>2a. b1 \in Seq(S)
  BY Concatenation
<1> HIDE DEF b1
<1>3. /\ b \in Seq(S) /\ Len(b) = Len(b1) + Len(u)
      /\ \A i \in 1 .. Len(b1) : b[i] = b1[i]
  BY <1>2a, Concatenation
<1> HIDE DEF b
<1>4. \A j \in 1 .. Len(s) : b[j] = s[j]
  BY <1>1, <1>2, <1>3
<1>5. \A j \in 1 .. Len(t) : b[Len(s) + j] = t[j]
  <2>1. \A j \in 1 .. Len(t) : Len(s) + j \in 1 .. Len(b1)
    BY <1>1, <1>2
  <2>2. QED
    BY <1>2, <1>3, <2>1
<1>6. SubSeq(b, Len(s) + 1, Len(s) + Len(t)) = t
  <2>1. \A j \in 1 .. Len(t) : b[Len(s) + 1 + j - 1] = t[j]
    <3>1. \A j \in 1 .. Len(t) : Len(s) + 1 + j - 1 = Len(s) + j
      BY <1>1
    <3>2. QED
      BY <1>5, <3>1
  <2>2. Len(s) + 1 \in Nat \ {0} /\ Len(s) + 1 + Len(t) - 1 <= Len(b)
    BY <1>1, <1>2, <1>3
  <2>3. SubSeq(b, Len(s) + 1, Len(s) + 1 + Len(t) - 1) = t
    <3> DEFINE i == Len(s) + 1
    <3>1. i \in Nat \ {0} /\ i + Len(t) - 1 <= Len(b) /\ b \in Seq(S)
          /\ \A j \in 1 .. Len(t) : b[i + j - 1] = t[j]
      BY <1>3, <2>1, <2>2
    <3> HIDE DEF i
    <3>2. SubSeq(b, i, i + Len(t) - 1) = t
      BY <3>1, SliceIs
    <3>3. QED
      BY <3>2 DEF i
  <2>4. Len(s) + 1 + Len(t) - 1 = Len(s) + Len(t)
    BY <1>1
  <2>5. QED
    BY <2>3, <2>4
<1>7. Len(b) = Len(s) + Len(t) + Len(u)
  BY <1>1, <1>2, <1>3
<1>8. QED
  BY <1>3, <1>4, <1>5, <1>6, <1>7 DEF b, b1

\* Concatenation is associative.
LEMMA Associative ==
  ASSUME NEW S, NEW s \in Seq(S), NEW t \in Seq(S), NEW u \in Seq(S)
  PROVE  (s \o t) \o u = s \o (t \o u)
OBVIOUS

\* The empty sequence adds nothing.
LEMMA Nothing ==
  ASSUME NEW S, NEW s \in Seq(S)
  PROVE  << >> \in Seq(S) /\ Len(<< >>) = 0 /\ s \o << >> = s /\ << >> \o s = s
OBVIOUS

\* Two sequences of bytes, one after the other.
LEMMA Joined ==
  ASSUME NEW s \in Seq(Bytes), NEW t \in Seq(Bytes)
  PROVE  s \o t \in Seq(Bytes) /\ Len(s \o t) = Len(s) + Len(t) /\ Len(s) \in Nat
BY Concatenation

\* Three of them are found where they were put.
LEMMA InTheMiddle ==
  ASSUME NEW s \in Seq(Bytes), NEW t \in Seq(Bytes), NEW u \in Seq(Bytes)
  PROVE  SubSeq(s \o t \o u, Len(s) + 1, Len(s) + Len(t)) = t
BY Layout

\* The first of two is found at the beginning.
LEMMA InFront ==
  ASSUME NEW s \in Seq(Bytes), NEW t \in Seq(Bytes)
  PROVE  SubSeq(s \o t, 1, Len(s)) = s
<1>1. << >> \in Seq(Bytes) /\ Len(<< >>) = 0 /\ << >> \o s = s
  BY Nothing
<1>2. SubSeq(<< >> \o s \o t, Len(<< >>) + 1, Len(<< >>) + Len(s)) = s
  BY <1>1, InTheMiddle
<1>3. Len(s) \in Nat
  OBVIOUS
<1>4. QED
  BY <1>1, <1>2, <1>3

\* The second of two is found at the end.
LEMMA AtTheEnd ==
  ASSUME NEW s \in Seq(Bytes), NEW t \in Seq(Bytes)
  PROVE  SubSeq(s \o t, Len(s) + 1, Len(s) + Len(t)) = t
<1> DEFINE b == s \o t
<1>1. b \in Seq(Bytes) /\ << >> \in Seq(Bytes)
  BY Joined, Nothing
<1>2. SubSeq(b \o << >>, Len(s) + 1, Len(s) + Len(t)) = t
  BY <1>1, InTheMiddle
<1> HIDE DEF b
<1>3. b \o << >> = b
  BY <1>1, Nothing
<1>4. QED
  BY <1>2, <1>3 DEF b

\* A single byte between two sequences.
LEMMA OneBetween ==
  ASSUME NEW s \in Seq(Bytes), NEW x \in Bytes, NEW u \in Seq(Bytes)
  PROVE  (s \o <<x>> \o u)[Len(s) + 1] = x
<1>1. <<x>> \in Seq(Bytes) /\ Len(<<x>>) = 1 /\ <<x>>[1] = x
  OBVIOUS
<1>2. \A j \in 1 .. Len(<<x>>) : (s \o <<x>> \o u)[Len(s) + j] = <<x>>[j]
  BY <1>1, Layout
<1>3. QED
  BY <1>1, <1>2

\* Two neighbours are found together.
LEMMA Together ==
  ASSUME NEW s \in Seq(Bytes), NEW t \in Seq(Bytes), NEW u \in Seq(Bytes)
  PROVE  (s \o t) \o u = s \o (t \o u)
BY Associative

-----------------------------------------------------------------------------
\* What MarshalMessage writes is where UnmarshalMessage looks for it.
LEMMA MessageBytes ==
  ASSUME NEW n \in Bytes, NEW id \in Seq(Bytes), NEW flag \in Bytes,
         NEW data \in Seq(Bytes), Len(id) = n,
         NEW b, b = <<n>> \o id \o <<flag>> \o data
  PROVE  /\ Len(b) = n + 2 + Len(data)
         /\ b[1] = n /\ b[n + 2] = flag
         /\ SubSeq(b, 2, n + 1) = id
         /\ SubSeq(b, n + 3, n + 2 + Len(data)) = data
<1> DEFINE x == <<n>>
           y == <<flag>>
           b1 == x \o id
           b2 == b1 \o y
           rest == y \o data
<1>1. n \in Nat /\ Len(data) \in Nat
  BY DEF Bytes
<1>2. x \in Seq(Bytes) /\ Len(x) = 1 /\ y \in Seq(Bytes) /\ Len(y) = 1
  OBVIOUS
<1>3. b = << >> \o x \o (id \o rest)
  <2>1. rest \in Seq(Bytes) /\ b1 \in Seq(Bytes)
    BY <1>2, Joined
  <2>2. b = b1 \o rest
    BY <1>2, <2>1, Together
  <2>3. b1 \o rest = x \o (id \o rest)
    BY <1>2, <2>1, Together
  <2>4. << >> \o x = x
    BY <1>2, Nothing
  <2>5. QED
    BY <2>2, <2>3, <2>4
<1>4. rest \in Seq(Bytes) /\ id \o rest \in Seq(Bytes) /\ b = x \o id \o rest
  <2>1. rest \in Seq(Bytes) /\ b1 \in Seq(Bytes)
    BY <1>2, Joined
  <2>2. b = b1 \o rest
    BY <1>2, <2>1, Together
  <2>3. QED
    BY <2>1, <2>2, Joined
<1>5. b[1] = n
  <2>1. << >> \in Seq(Bytes) /\ Len(<< >>) + 1 = 1
    OBVIOUS
  <2>2. (<< >> \o x \o (id \o rest))[Len(<< >>) + 1] = n
    BY <1>4, <2>1, OneBetween
  <2>3. QED
    BY <1>3, <2>1, <2>2
<1>6. SubSeq(b, 2, n + 1) = id
  <2> HIDE DEF x, rest
  <2>1. SubSeq(x \o id \o rest, Len(x) + 1, Len(x) + Len(id)) = id
    BY <1>2, <1>4, InTheMiddle
  <2>2. Len(x) + 1 = 2 /\ Len(x) + Len(id) = n + 1
    BY <1>1, <1>2
  <2>3. QED
    BY <1>4, <2>1, <2>2
<1>7. b1 \in Seq(Bytes) /\ Len(b1) = n + 1
  <2> HIDE DEF x
  <2>1. b1 \in Seq(Bytes) /\ Len(b1) = Len(x) + Len(id)
    BY <1>2, Joined
  <2>2. QED
    BY <1>1, <1>2, <2>1
<1> HIDE DEF b1
<1>8. b[n + 2] = flag
  <2>1. (b1 \o y \o data)[Len(b1) + 1] = flag
    BY <1>7, OneBetween
  <2>2. Len(b1) + 1 = n + 2
    BY <1>1, <1>7
  <2>3. QED
    BY <2>1, <2>2 DEF b1
<1> HIDE DEF y
<1>9. b2 \in Seq(Bytes) /\ Len(b2) = n + 2
  <2>1. b2 \in Seq(Bytes) /\ Len(b2) = Len(b1) + Len(y)
    BY <1>2, <1>7, Joined
  <2>2. QED
    BY <1>1, <1>2, <1>7, <2>1
<1> HIDE DEF b2
<1>10. b = b2 \o data
  BY DEF b1, b2, y
<1>11. Len(b) = n + 2 + Len(data)
  BY <1>9, <1>10, Joined
<1>12. SubSeq(b, n + 3, n + 2 + Len(data)) = data
  <2>1. SubSeq(b2 \o data, Len(b2) + 1, Len(b2) + Len(data)) = data
    BY <1>9, AtTheEnd
  <2>2. Len(b2) + 1 = n + 3
    BY <1>1, <1>9
  <2>3. QED
    BY <1>9, <1>10, <2>1, <2>2
<1>13. QED
  BY <1>5, <1>6, <1>8, <1>11, <1>12

\* Where the parts of a message are in its datagram.
LEMMA MessageLayout ==
  ASSUME NEW id \in Seq(Bytes), NEW data \in Seq(Bytes), NEW isString \in BOOLEAN,
         Len(id) < 256
  PROVE  LET b == MarshalMessage([id |-> id, isString |-> isString, data |-> data])
         IN /\ b \in Seq(Bytes) /\ Len(b) = Len(id) + 2 + Len(data)
            /\ b[1] = Len(id) /\ b[Len(id) + 2] = Flag(isString)
            /\ SubSeq(b, 2, Len(id) + 1) = id
            /\ SubSeq(b, Len(id) + 3, Len(id) + 2 + Len(data)) = data
<1> DEFINE n == Len(id)
           k == Len(data)
           flag == Flag(isString)
           b == MarshalMessage([id |-> id, isString |-> isString, data |-> data])
<1>2. n \in Nat /\ k \in Nat
  OBVIOUS
<1>3. n \in Bytes /\ n % 256 = n
  BY <1>2, OneByte
<1>4. flag \in Bytes
  BY DEF Flag, Bytes
<1>5. b = <<n>> \o id \o <<flag>> \o data
  BY <1>3 DEF MarshalMessage, IdLength
<1> HIDE DEF n, k, flag, b
<1>6. b \in Seq(Bytes)
  <2>1. <<n>> \in Seq(Bytes) /\ <<flag>> \in Seq(Bytes)
    BY <1>3, <1>4
  <2>2. <<n>> \o id \in Seq(Bytes)
    BY <2>1, Joined
  <2>3. <<n>> \o id \o <<flag>> \in Seq(Bytes)
    BY <2>1, <2>2, Joined
  <2> QED BY <1>5, <2>3, Joined
<1>7. /\ Len(b) = n + 2 + k
      /\ b[1] = n /\ b[n + 2] = flag
      /\ SubSeq(b, 2, n + 1) = id
      /\ SubSeq(b, n + 3, n + 2 + k) = data
  BY <1>3, <1>4, <1>5, MessageBytes DEF n, k
<1> QED BY <1>6, <1>7 DEF flag, n, k, b

\* MessageData (relay/data.rs): unmarshal gives back the id, the flag and the data
\* that marshal was given.
THEOREM MessageRoundTrip ==
  ASSUME Buffer \in Nat, NEW m \in MessageData, Len(m.id) < 256,
         Len(m.id) + 2 + Len(m.data) <= Buffer
  PROVE  /\ DecodesMessage(Received(MarshalMessage(m)))
         /\ UnmarshalMessage(Received(MarshalMessage(m))) = m
<1> DEFINE n == Len(m.id)
           k == Len(m.data)
           flag == Flag(m.isString)
           b == MarshalMessage(m)
<1>1. /\ m = [id |-> m.id, isString |-> m.isString, data |-> m.data]
      /\ m.isString \in BOOLEAN /\ m.id \in Seq(Bytes) /\ m.data \in Seq(Bytes)
      /\ Len(m.id) < 256
  BY DEF MessageData
<1>2. n + 2 + k <= Buffer
  OBVIOUS
<1>3. (flag # 0) = m.isString
  BY <1>1 DEF Flag
<1> HIDE DEF n, k, flag, b
<1>4. /\ n \in Nat /\ k \in Nat
      /\ Len(b) = n + 2 + k
      /\ b[1] = n /\ b[n + 2] = flag
      /\ SubSeq(b, 2, n + 1) = m.id
      /\ SubSeq(b, n + 3, n + 2 + k) = m.data
  BY <1>1, MessageLayout DEF n, k, b, flag
<1>5. Len(b) \in Nat /\ Len(b) <= Buffer
  BY <1>2, <1>4
<1>6. Received(b) = b
  BY <1>5, ArrivesWhole
<1>7. DecodesMessage(b)
  BY <1>4 DEF DecodesMessage
<1>8. UnmarshalMessage(b) = m
  <2>1. UnmarshalMessage(b) = [id |-> m.id, isString |-> flag # 0, data |-> m.data]
    BY <1>4 DEF UnmarshalMessage
  <2>2. QED
    BY <1>1, <1>3, <2>1
<1>9. QED
  BY <1>6, <1>7, <1>8 DEF b

\* The beginning of a sequence has its elements.
LEMMA Beginning ==
  ASSUME NEW s \in Seq(Bytes), NEW k \in Nat, k <= Len(s)
  PROVE  /\ SubSeq(s, 1, k) \in Seq(Bytes) /\ Len(SubSeq(s, 1, k)) = k
         /\ \A j \in 1 .. k : SubSeq(s, 1, k)[j] = s[j]
<1>1. 1 + k - 1 = k /\ \A j \in 1 .. k : 1 + j - 1 = j
  OBVIOUS
<1>2. /\ SubSeq(s, 1, 1 + k - 1) \in Seq(Bytes) /\ Len(SubSeq(s, 1, 1 + k - 1)) = k
      /\ \A j \in 1 .. k : SubSeq(s, 1, 1 + k - 1)[j] = s[1 + j - 1]
  BY <1>1, Slice
<1> QED BY <1>1, <1>2

\* A slice of the beginning of a sequence is a slice of the sequence.
LEMMA SliceOfBeginning ==
  ASSUME NEW s \in Seq(Bytes), NEW k \in Nat, k <= Len(s),
         NEW i \in Nat \ {0}, NEW n \in Nat, i + n - 1 <= k
  PROVE  SubSeq(SubSeq(s, 1, k), i, i + n - 1) = SubSeq(s, i, i + n - 1)
<1> DEFINE c == SubSeq(s, 1, k)
           x == SubSeq(c, i, i + n - 1)
           y == SubSeq(s, i, i + n - 1)
<1>1. c \in Seq(Bytes) /\ Len(c) = k /\ \A j \in 1 .. k : c[j] = s[j]
  BY Beginning
<1>2. Len(s) \in Nat
  OBVIOUS
<1>3. i + n - 1 <= Len(s)
  BY <1>2
<1> HIDE DEF c
<1>4. x \in Seq(Bytes) /\ Len(x) = n /\ \A j \in 1 .. n : x[j] = c[i + j - 1]
  BY <1>1, Slice
<1>5. y \in Seq(Bytes) /\ Len(y) = n /\ \A j \in 1 .. n : y[j] = s[i + j - 1]
  BY <1>3, Slice
<1>6. \A j \in 1 .. n : i + j - 1 \in 1 .. k
  OBVIOUS
<1> HIDE DEF x, y
<1>7. \A j \in 1 .. n : x[j] = y[j]
  BY <1>1, <1>4, <1>5, <1>6
<1>8. x = y
  BY <1>4, <1>5, <1>7, SameSequence
<1> QED BY <1>8 DEF x, y, c

\* A datagram that is longer than the receiver's buffer and still decodes is of the id
\* it was sent for, and its data is the beginning of what was sent.
THEOREM MessageCut ==
  ASSUME Buffer \in Nat, NEW m \in MessageData, Len(m.id) < 256,
         Len(m.id) + 2 + Len(m.data) > Buffer,
         DecodesMessage(Received(MarshalMessage(m)))
  PROVE  LET r == UnmarshalMessage(Received(MarshalMessage(m)))
         IN r.id = m.id /\ r.data \in Seq(Bytes) /\ r.data = SubSeq(m.data, 1, Len(r.data))
<1> DEFINE n == Len(m.id)
           k == Len(m.data)
           b == MarshalMessage(m)
           c == SubSeq(b, 1, Buffer)
           cut == Buffer - n - 2
<1>1. /\ m.data \in Seq(Bytes) /\ m.id \in Seq(Bytes) /\ m.isString \in BOOLEAN
      /\ m = [id |-> m.id, isString |-> m.isString, data |-> m.data] /\ Len(m.id) < 256
  BY DEF MessageData
<1>2a. n + 2 + k > Buffer
  OBVIOUS
<1> HIDE DEF n, k, b, c, cut
<1>7. /\ n \in Nat /\ k \in Nat
      /\ b \in Seq(Bytes) /\ Len(b) = n + 2 + k
      /\ b[1] = n
      /\ SubSeq(b, 2, n + 1) = m.id
      /\ SubSeq(b, n + 3, n + 2 + k) = m.data
  BY <1>1, MessageLayout DEF n, k, b
<1>2. n \in Nat /\ k \in Nat /\ n + 2 + k > Buffer
  BY <1>2a, <1>7
<1>6. b \in Seq(Bytes)
  BY <1>7
<1>8. Len(b) > Buffer /\ Buffer \in Nat /\ Received(b) = c
  BY <1>2, <1>7 DEF Received, c
<1>9. c \in Seq(Bytes) /\ Len(c) = Buffer /\ \A j \in 1 .. Buffer : c[j] = b[j]
  BY <1>6, <1>8, Beginning DEF c
<1>10. DecodesMessage(c)
  BY <1>8 DEF b
<1>11. Len(c) > 0 /\ Len(c) >= c[1] + 2
  BY <1>10 DEF DecodesMessage
<1>12. c[1] = n /\ Buffer >= n + 2
  BY <1>7, <1>8, <1>9, <1>11
<1>13. cut \in Nat /\ cut <= k
  BY <1>2, <1>8, <1>12 DEF cut
<1>14. SubSeq(c, 2, n + 1) = m.id
  <2>1. 2 + n - 1 = n + 1 /\ n + 1 <= Buffer /\ Buffer <= Len(b)
    BY <1>2, <1>7, <1>8, <1>12
  <2>2. SubSeq(SubSeq(b, 1, Buffer), 2, 2 + n - 1) = SubSeq(b, 2, 2 + n - 1)
    BY <1>2, <1>6, <1>8, <2>1, SliceOfBeginning
  <2> QED BY <1>7, <2>1, <2>2 DEF c
<1>15. SubSeq(c, n + 3, Buffer) = SubSeq(m.data, 1, cut)
  <2> DEFINE i == n + 3
  <2>1. i \in Nat \ {0} /\ i + cut - 1 = Buffer /\ i + k - 1 = n + 2 + k
        /\ Buffer <= Len(b) /\ i + k - 1 <= Len(b)
    BY <1>2, <1>7, <1>8 DEF cut
  <2>2. SubSeq(SubSeq(b, 1, Buffer), i, i + cut - 1) = SubSeq(b, i, i + cut - 1)
    <3> HIDE DEF i
    <3> QED BY <1>6, <1>8, <1>13, <2>1, SliceOfBeginning
  <2> DEFINE x == SubSeq(b, i, i + cut - 1)
             y == SubSeq(m.data, 1, cut)
  <2>3. x \in Seq(Bytes) /\ Len(x) = cut /\ \A j \in 1 .. cut : x[j] = b[i + j - 1]
    <3> HIDE DEF i
    <3> QED BY <1>6, <1>8, <1>13, <2>1, Slice
  <2>4. y \in Seq(Bytes) /\ Len(y) = cut /\ \A j \in 1 .. cut : y[j] = m.data[j]
    <3> QED BY <1>1, <1>13, Beginning DEF k
  <2>5. \A j \in 1 .. k : m.data[j] = b[i + j - 1]
    <3> HIDE DEF i
    <3>1. \A j \in 1 .. k : SubSeq(b, i, i + k - 1)[j] = b[i + j - 1]
      BY <1>2, <1>6, <2>1, Slice
    <3>2. SubSeq(b, i, i + k - 1) = m.data
      BY <1>7, <2>1 DEF i
    <3> QED BY <3>1, <3>2
  <2>6. \A j \in 1 .. cut : j \in 1 .. k
    BY <1>2, <1>13
  <2> HIDE DEF x, y
  <2>7. \A j \in 1 .. cut : x[j] = y[j]
    BY <2>3, <2>4, <2>5, <2>6
  <2>8. x = y
    BY <2>3, <2>4, <2>7, SameSequence
  <2> QED BY <2>1, <2>2, <2>8 DEF x, y, c
<1>16. SubSeq(m.data, 1, cut) \in Seq(Bytes) /\ Len(SubSeq(m.data, 1, cut)) = cut
  <2> QED BY <1>1, <1>13, Beginning DEF k
<1>17. UnmarshalMessage(c).id = m.id
       /\ UnmarshalMessage(c).data = SubSeq(m.data, 1, cut)
  BY <1>9, <1>12, <1>14, <1>15 DEF UnmarshalMessage
<1> QED BY <1>8, <1>16, <1>17 DEF b

\* The bytes of a PacketData.
Wire(packet, l, ssrc, track) == packet \o l \o ssrc \o track \o <<Len(track)>>

\* The parts are where UnmarshalPacket looks for them.
Parsed(packet, l, ssrc, track) ==
  LET b == Wire(packet, l, ssrc, track)
      k == Len(packet)
      n == Len(track)
  IN /\ Len(b) = k + n + 7 /\ b[k + n + 7] = n
     /\ SubSeq(b, 1, k) = packet
     /\ SubSeq(b, k + 1, k + 2) = l
     /\ SubSeq(b, k + 3, k + 6) = ssrc
     /\ SubSeq(b, k + 7, k + n + 6) = track

\* What MarshalPacket writes is where UnmarshalPacket looks for it.
LEMMA PacketBytes ==
  ASSUME NEW packet \in Seq(Bytes), NEW l \in Seq(Bytes), NEW ssrc \in Seq(Bytes),
         NEW track \in Seq(Bytes),
         Len(track) \in Bytes, Len(l) = 2, Len(ssrc) = 4
  PROVE  Parsed(packet, l, ssrc, track)
<1> DEFINE k == Len(packet)
           n == Len(track)
           b == Wire(packet, l, ssrc, track)
           x == <<n>>
           b1 == packet \o l
           b2 == b1 \o ssrc
           b3 == b2 \o track
           end == track \o x
           tail == ssrc \o end
           more == l \o tail
<1>0. b = packet \o l \o ssrc \o track \o <<n>>
  BY DEF Wire
<1> HIDE DEF b
<1>1. n \in Nat /\ k \in Nat /\ Len(packet) = k /\ Len(track) = n /\ n \in Bytes
  BY DEF Bytes
<1> HIDE DEF k, n
<1>2. x \in Seq(Bytes) /\ Len(x) = 1
  BY <1>1
<1>3. b1 \in Seq(Bytes) /\ Len(b1) = k + 2
  <2>1. b1 \in Seq(Bytes) /\ Len(b1) = Len(packet) + Len(l)
    BY Joined
  <2>2. QED
    BY <1>1, <2>1
<1>4. b2 \in Seq(Bytes) /\ Len(b2) = k + 6
  <2> HIDE DEF b1
  <2>1. b2 \in Seq(Bytes) /\ Len(b2) = Len(b1) + Len(ssrc)
    BY <1>3, Joined
  <2>2. QED
    BY <1>1, <1>3, <2>1
<1>5. b3 \in Seq(Bytes) /\ Len(b3) = k + n + 6
  <2> HIDE DEF b2
  <2>1. b3 \in Seq(Bytes) /\ Len(b3) = Len(b2) + Len(track)
    BY <1>4, Joined
  <2>2. QED
    BY <1>1, <1>4, <2>1
<1>6. end \in Seq(Bytes)
  <2> HIDE DEF x
  <2>1. QED
    BY <1>2, Joined
<1>7. tail \in Seq(Bytes)
  <2> HIDE DEF end
  <2>1. QED
    BY <1>6, Joined
<1>8. more \in Seq(Bytes)
  <2> HIDE DEF tail
  <2>1. QED
    BY <1>7, Joined
<1>9. b = b2 \o end
  <2> HIDE DEF b2, x
  <2>1. b = b2 \o track \o x
    BY <1>0 DEF b1, b2, x, n
  <2>2. QED
    BY <1>2, <1>4, <2>1, Together
<1>10. b = b1 \o tail
  <2> HIDE DEF b1, end
  <2>1. b = b1 \o ssrc \o end
    BY <1>9
  <2>2. QED
    BY <1>3, <1>6, <2>1, Together
<1>11. b = packet \o more
  <2> HIDE DEF tail
  <2>1. b = packet \o l \o tail
    BY <1>10
  <2>2. QED
    BY <1>7, <2>1, Together
<1>12. Len(b) = k + n + 7 /\ b[k + n + 7] = n
  <2> HIDE DEF b3
  <2>1. b = b3 \o <<n>> /\ b3 \o x \in Seq(Bytes)
    BY <1>0, <1>2, <1>5, Joined DEF b1, b2, b3, n
  <2>2. (b3 \o <<n>> \o << >>)[Len(b3) + 1] = n
    BY <1>1, <1>5, Nothing, OneBetween
  <2>3. (b3 \o x) \o << >> = b3 \o x
    BY <2>1, Nothing
  <2>4. Len(b3 \o x) = Len(b3) + Len(x)
    BY <1>2, <1>5, Joined
  <2>5. Len(b3) + 1 = k + n + 7
    BY <1>1, <1>5
  <2>6. QED
    BY <1>2, <2>1, <2>2, <2>3, <2>4, <2>5
<1>13. SubSeq(b, 1, k) = packet
  <2> HIDE DEF more
  <2>1. QED
    BY <1>1, <1>8, <1>11, InFront
<1>14. SubSeq(b, k + 1, k + 2) = l
  <2> HIDE DEF tail
  <2>1. b = packet \o l \o tail
    BY <1>10
  <2>2. SubSeq(packet \o l \o tail, Len(packet) + 1, Len(packet) + Len(l)) = l
    BY <1>7, InTheMiddle
  <2>3. QED
    BY <1>1, <2>1, <2>2
<1>15. SubSeq(b, k + 3, k + 6) = ssrc
  <2> HIDE DEF b1, end
  <2>1. b = b1 \o ssrc \o end
    BY <1>9 DEF b1
  <2>2. SubSeq(b1 \o ssrc \o end, Len(b1) + 1, Len(b1) + Len(ssrc)) = ssrc
    BY <1>3, <1>6, InTheMiddle
  <2>3. Len(b1) + 1 = k + 3 /\ Len(b1) + Len(ssrc) = k + 6
    BY <1>1, <1>3
  <2>4. QED
    BY <2>1, <2>2, <2>3
<1>16. SubSeq(b, k + 7, k + n + 6) = track
  <2> HIDE DEF b2, x
  <2>1. b = b2 \o track \o x
    BY <1>0 DEF b1, b2, x, n
  <2>2. SubSeq(b2 \o track \o x, Len(b2) + 1, Len(b2) + Len(track)) = track
    BY <1>2, <1>4, InTheMiddle
  <2>3. Len(b2) + 1 = k + 7 /\ Len(b2) + Len(track) = k + n + 6
    BY <1>1, <1>4
  <2>4. QED
    BY <2>1, <2>2, <2>3
<1>17. QED
  BY <1>12, <1>13, <1>14, <1>15, <1>16 DEF b, k, n, Parsed

\* PacketData (relay/data.rs): unmarshal, which works from the end of the datagram,
\* gives back the packet, the layer, the ssrc and the track that marshal was given.
THEOREM PacketRoundTrip ==
  ASSUME Buffer \in Nat, NEW p \in PacketData, Len(p.track) < 256,
         Len(p.packet) + Len(p.track) + SsrcSize + 3 <= Buffer
  PROVE  /\ DecodesPacket(Received(MarshalPacket(p)))
         /\ UnmarshalPacket(Received(MarshalPacket(p))) = p
<1> DEFINE n == Len(p.track)
           k == Len(p.packet)
           l == MarshalLayer(p.layer)
           b == MarshalPacket(p)
<1>1. /\ p = [packet |-> p.packet, layer |-> p.layer, ssrc |-> p.ssrc, track |-> p.track]
      /\ p.packet \in Seq(Bytes) /\ p.track \in Seq(Bytes)
      /\ p.ssrc \in Seq(Bytes) /\ Len(p.ssrc) = 4 /\ p.layer \in Layer
  BY DEF PacketData, Ssrc, SsrcSize
<1>2. n \in Nat /\ k \in Nat
  BY <1>1
<1>2a. n < 256 /\ k + n + 7 <= Buffer
  <2>1. n < 256 /\ k + n + SsrcSize + 3 <= Buffer
    OBVIOUS
  <2>2. k + n + SsrcSize + 3 = k + n + 7
    BY <1>2 DEF SsrcSize
  <2>3. QED
    BY <2>1, <2>2
<1>3. l \in Seq(Bytes) /\ Len(l) = 2 /\ UnmarshalLayer(l) = p.layer
  BY <1>1 DEF Layer, MarshalLayer, UnmarshalLayer
<1>4. n \in Bytes /\ n % 256 = n
  BY <1>2, OneByte
<1>5. b = Wire(p.packet, l, p.ssrc, p.track)
  BY <1>4 DEF MarshalPacket, IdLength, Wire
<1> HIDE DEF n, k, l, b
<1>6. /\ Len(b) = k + n + 7 /\ b[k + n + 7] = n
      /\ SubSeq(b, 1, k) = p.packet
      /\ SubSeq(b, k + 1, k + 2) = l
      /\ SubSeq(b, k + 3, k + 6) = p.ssrc
      /\ SubSeq(b, k + 7, k + n + 6) = p.track
  <2> DEFINE packet == p.packet
             ssrc == p.ssrc
             track == p.track
  <2>1. /\ packet \in Seq(Bytes) /\ ssrc \in Seq(Bytes) /\ track \in Seq(Bytes)
        /\ Len(ssrc) = 4 /\ Len(track) = n /\ Len(packet) = k
    BY <1>1 DEF n, k
  <2>2. b = Wire(packet, l, ssrc, track)
    BY <1>5
  <2>3. l \in Seq(Bytes) /\ Len(l) = 2 /\ Len(track) \in Bytes
    BY <1>3, <1>4, <2>1
  <2> HIDE DEF packet, ssrc, track
  <2>4. Parsed(packet, l, ssrc, track)
    BY <2>1, <2>3, PacketBytes
  <2>5. QED
    BY <2>1, <2>2, <2>4 DEF Parsed, packet, ssrc, track
<1>7. Len(b) \in Nat /\ Len(b) <= Buffer
  BY <1>2, <1>2a, <1>6
<1>8. Received(b) = b
  BY <1>7, ArrivesWhole
<1>9. LayerStart(b) = k
  BY <1>2, <1>6 DEF LayerStart, SsrcSize
<1>10. DecodesPacket(b)
  BY <1>2, <1>6, <1>9 DEF DecodesPacket
<1>11. UnmarshalPacket(b) = p
  <2>1. k + 2 + 4 = k + 6 /\ k + 6 + 1 = k + 7 /\ Len(b) - 1 = k + n + 6
    BY <1>2, <1>6
  <2>2. UnmarshalPacket(b) =
          [packet |-> p.packet, layer |-> UnmarshalLayer(l), ssrc |-> p.ssrc,
           track |-> p.track]
    BY <1>6, <1>9, <2>1 DEF UnmarshalPacket, SsrcSize
  <2>3. QED
    BY <1>1, <1>3, <2>2
<1>12. QED
  BY <1>8, <1>10, <1>11 DEF b

-----------------------------------------------------------------------------
(* Senders and receivers *)


\* What a sender loop to s needs there.
There(d, s) == d \in entries[s] /\ udp[s] # "none" /\ d \in relayed[s]

Jobs == [state : {"idle", "sent", "answered"}, to : Servers \cup {None}, port : BOOLEAN]

\* The variables of the relay, of the router's lists and of the relay server.
RelayTypes ==
  /\ job \in [DataPublishers -> Jobs]
  /\ loops \in [DataPublishers -> [Servers -> Nat]]
  /\ relayed \in [Servers -> SUBSET DataPublishers]
  /\ entries \in [Servers -> SUBSET DataPublishers]
  /\ server \in [Servers -> {"up", "stopped"}]
  /\ udp \in [Servers -> {"none", "running", "dead"}]
  /\ serving \in [Servers -> DataPublishers \cup {None}]

\* A request is for a server, and no port is known before its answer.
Requests ==
  \A d \in DataPublishers :
    /\ job[d].state # "idle" => job[d].to \in Servers
    /\ job[d].state = "sent" => ~job[d].port

\* A port is only returned where everything is in place.
PortIsThere ==
  \A d \in DataPublishers :
    job[d].state = "answered" /\ job[d].port => There(d, job[d].to)

\* What has an entry is in the router's list.
EntriesAreRelayed == \A s \in Servers : entries[s] \subseteq relayed[s]

\* A server works on one request, the sender waits for it, and a server that stopped
\* works on none.
ServesItsRequest ==
  \A s \in Servers :
    serving[s] # None => /\ server[s] = "up"
                         /\ job[serving[s]].state = "sent" /\ job[serving[s]].to = s

RInv ==
  /\ RelayTypes /\ Requests /\ PortIsThere /\ EntriesAreRelayed /\ ServesItsRequest
  /\ SenderHasReceiver

\* The initial state satisfies it.
LEMMA InitRelay == Init => RInv
BY DEF Init, RInv, RelayTypes, Requests, PortIsThere, EntriesAreRelayed, ServesItsRequest,
       SenderHasReceiver, Jobs, Idle

\* What is there stays there.
LEMMA ThereStays ==
  ASSUME RelayTypes,
         NEW d \in DataPublishers, NEW s \in Servers, There(d, s),
         \A t \in Servers : /\ entries[t] \subseteq entries'[t]
                            /\ relayed[t] \subseteq relayed'[t]
                            /\ udp[t] # "none" => udp'[t] # "none"
  PROVE  There(d, s)'
BY DEF There, RelayTypes

\* relay_to starts.
LEMMA RelayToKeeps ==
  ASSUME RInv, NEW d \in DataPublishers, NEW s \in Servers, RelayTo(d, s)
  PROVE  RInv'
<1>1. /\ job' = [job EXCEPT ![d] = [state |-> "sent", to |-> s, port |-> FALSE]]
      /\ job[d].state = "idle"
      /\ UNCHANGED <<loops, relayed, entries, server, udp, serving>>
  BY DEF RelayTo, routers, target
<1>2. RelayTypes'
  BY <1>1 DEF RInv, RelayTypes, Jobs
<1>3. Requests' /\ PortIsThere'
  BY <1>1 DEF RInv, RelayTypes, Requests, PortIsThere, There
<1>4. ServesItsRequest'
  BY <1>1 DEF RInv, RelayTypes, ServesItsRequest
<1>5. EntriesAreRelayed' /\ SenderHasReceiver'
  BY <1>1 DEF RInv, EntriesAreRelayed, SenderHasReceiver
<1> QED BY <1>2, <1>3, <1>4, <1>5 DEF RInv

\* It returns: a loop is started only to a port.
LEMMA RelayReturnsKeeps ==
  ASSUME RInv, NEW d \in DataPublishers, RelayReturns(d)
  PROVE  RInv'
<1>1. /\ job' = [job EXCEPT ![d] = Idle] /\ job[d].state = "answered"
      /\ loops' = IF job[d].port THEN [loops EXCEPT ![d][job[d].to] = @ + 1] ELSE loops
      /\ UNCHANGED <<relayed, entries, server, udp, serving>>
  BY DEF RelayReturns, GotPort, routers, target
<1>2. job[d].to \in Servers /\ job[d].port \in BOOLEAN
  BY <1>1 DEF RInv, RelayTypes, Requests, Jobs
<1>3. RelayTypes'
  BY <1>1, <1>2 DEF RInv, RelayTypes, Jobs, Idle
<1>4. Requests' /\ PortIsThere'
  BY <1>1 DEF RInv, RelayTypes, Requests, PortIsThere, There, Idle
<1>5. ServesItsRequest'
  BY <1>1 DEF RInv, RelayTypes, ServesItsRequest
<1>6. EntriesAreRelayed'
  BY <1>1 DEF RInv, EntriesAreRelayed
<1>7. SenderHasReceiver'
  <2>1. CASE ~job[d].port
    BY <1>1, <2>1 DEF RInv, SenderHasReceiver
  <2>2. CASE job[d].port
    <3>1. There(d, job[d].to)
      BY <1>1, <2>2 DEF RInv, PortIsThere
    <3>2. loops' = [loops EXCEPT ![d][job[d].to] = @ + 1]
      BY <1>1, <2>2
    <3>3. \A e \in DataPublishers, s \in Servers :
            e # d \/ s # job[d].to => loops'[e][s] = loops[e][s]
      BY <1>2, <3>2 DEF RInv, RelayTypes
    <3> QED BY <1>1, <3>1, <3>3 DEF RInv, SenderHasReceiver, There
  <2> QED BY <1>2, <2>1, <2>2
<1> QED BY <1>3, <1>4, <1>5, <1>6, <1>7 DEF RInv

\* A request is answered, without a port or with one that is there, by a server that
\* works on no other request of the same data publisher.
LEMMA AnswerKeeps ==
  ASSUME RInv, NEW d \in DataPublishers, NEW port \in BOOLEAN,
         job[d].state = "sent",
         job' = [job EXCEPT ![d].state = "answered", ![d].port = port],
         port => There(d, job[d].to),
         \A s \in Servers : serving[s] # d \/ serving[s] = None,
         UNCHANGED <<loops, relayed, entries, server, udp, serving>>
  PROVE  RInv'
<1>1. job[d].to \in Servers /\ job[d] \in Jobs
  BY DEF RInv, RelayTypes, Requests
<1>2. job'[d] = [state |-> "answered", to |-> job[d].to, port |-> port]
  BY <1>1 DEF RInv, RelayTypes, Jobs
<1>3. \A e \in DataPublishers : e # d => job'[e] = job[e]
  BY DEF RInv, RelayTypes
<1>4. RelayTypes'
  BY <1>1, <1>2 DEF RInv, RelayTypes, Jobs
<1>5. Requests'
  <2>1. job'[d].state = "answered" /\ job'[d].to = job[d].to
    BY <1>2
  <2> QED BY <1>1, <1>3, <2>1 DEF RInv, Requests
<1>8. PortIsThere'
  <2> SUFFICES ASSUME NEW e \in DataPublishers, job'[e].state = "answered", job'[e].port
               PROVE  There(e, job[e].to)' /\ job'[e].to = job[e].to
    BY DEF PortIsThere
  <2>1. CASE e = d
    <3>1. port /\ job'[e].to = job[e].to
      BY <1>2, <2>1
    <3>2. There(e, job[e].to)
      BY <2>1, <3>1
    <3> QED BY <3>1, <3>2 DEF There
  <2>2. CASE e # d
    BY <1>3, <2>2 DEF RInv, PortIsThere, There
  <2> QED BY <2>1, <2>2
<1>6. ServesItsRequest'
  BY <1>3 DEF RInv, RelayTypes, ServesItsRequest
<1>7. EntriesAreRelayed' /\ SenderHasReceiver'
  BY DEF RInv, EntriesAreRelayed, SenderHasReceiver
<1> QED BY <1>4, <1>5, <1>6, <1>7, <1>8 DEF RInv

\* An answer that changes nothing about the port leaves the one there is: none.
LEMMA PlainAnswer ==
  ASSUME RInv, NEW d \in DataPublishers, job[d].state = "sent", job' = Answer(d)
  PROVE  job' = [job EXCEPT ![d].state = "answered", ![d].port = FALSE]
<1>1. job[d].port = FALSE /\ job[d] \in Jobs
  BY DEF RInv, RelayTypes, Requests, Jobs
<1> QED BY <1>1 DEF Answer, RInv, RelayTypes, Jobs

\* A request for a router the worker has forgotten.
LEMMA RouterUnknownKeeps ==
  ASSUME RInv, NEW d \in DataPublishers, NEW s \in Servers, RouterUnknown(d, s)
  PROVE  RInv'
<1>1. /\ job[d].state = "sent" /\ job[d].to = s /\ serving[s] = None /\ job' = Answer(d)
      /\ UNCHANGED <<loops, relayed, entries, server, udp, serving>>
  BY DEF RouterUnknown, Requested, routers, target
<1>2. \A t \in Servers : serving[t] # d \/ serving[t] = None
  BY <1>1 DEF RInv, ServesItsRequest
<1> QED BY <1>1, <1>2, PlainAnswer, AnswerKeeps

\* A request to a server that has stopped.
LEMMA RefuseKeeps ==
  ASSUME RInv, NEW d \in DataPublishers, Refuse(d)
  PROVE  RInv'
<1>1. /\ job[d].state = "sent" /\ server[job[d].to] = "stopped" /\ job' = Answer(d)
      /\ UNCHANGED <<loops, relayed, entries, server, udp, serving>>
  BY DEF Refuse, routers, target
<1>2. \A t \in Servers : serving[t] # d \/ serving[t] = None
  BY <1>1 DEF RInv, ServesItsRequest
<1> QED BY <1>1, <1>2, PlainAnswer, AnswerKeeps

\* A request for what is relayed already.
LEMMA ServeAgainKeeps ==
  ASSUME RInv, NEW d \in DataPublishers, NEW s \in Servers, ServeAgain(d, s)
  PROVE  RInv'
<1>1. /\ job[d].state = "sent" /\ job[d].to = s /\ serving[s] = None
      /\ d \in entries[s]
      /\ job' = [job EXCEPT ![d].state = "answered", ![d].port = (udp[s] # "none")]
      /\ UNCHANGED <<loops, relayed, entries, server, udp, serving>>
  BY DEF ServeAgain, Requested, AnswerPort, routers, target
<1>2. \A t \in Servers : serving[t] # d \/ serving[t] = None
  BY <1>1 DEF RInv, ServesItsRequest
<1>3. udp[s] # "none" => There(d, s)
  BY <1>1 DEF RInv, EntriesAreRelayed, There
<1>4. (udp[s] # "none") \in BOOLEAN
  OBVIOUS
<1> QED BY <1>1, <1>2, <1>3, <1>4, AnswerKeeps

\* The relay server waits for its router.
LEMMA BeginServingKeeps ==
  ASSUME RInv, NEW d \in DataPublishers, NEW s \in Servers, BeginServing(d, s)
  PROVE  RInv'
<1>1. /\ job[d].state = "sent" /\ job[d].to = s /\ server[s] = "up"
      /\ serving' = [serving EXCEPT ![s] = d]
      /\ UNCHANGED <<job, loops, relayed, entries, server, udp>>
  BY DEF BeginServing, New, Requested, sender, routers
<1>2. RelayTypes' /\ ServesItsRequest'
  BY <1>1 DEF RInv, RelayTypes, ServesItsRequest
<1>3. Requests' /\ PortIsThere' /\ EntriesAreRelayed' /\ SenderHasReceiver'
  BY <1>1 DEF RInv, Requests, PortIsThere, There, EntriesAreRelayed, SenderHasReceiver
<1> QED BY <1>2, <1>3 DEF RInv

\* A new data publisher is entered, listed, and answered with the port if there is one.
LEMMA ServeNewKeeps ==
  ASSUME RInv, NEW d \in DataPublishers, NEW s \in Servers, NEW udpStarts \in BOOLEAN,
         ServeNew(d, s, udpStarts)
  PROVE  RInv'
<1>1. /\ New(d, s) \/ serving[s] = d
      /\ relayed' = [relayed EXCEPT ![s] = @ \cup {d}]
      /\ entries' = [entries EXCEPT ![s] = @ \cup {d}]
      /\ udp' = IF entries[s] = {} /\ udpStarts THEN [udp EXCEPT ![s] = "running"] ELSE udp
      /\ job' = [job EXCEPT ![d].state = "answered", ![d].port = (udp'[s] # "none")]
      /\ serving' = [serving EXCEPT ![s] = None]
      /\ UNCHANGED <<loops, server>>
  BY DEF ServeNew, Added, AnswerPort
<1>2. job[d].state = "sent" /\ job[d].to = s /\ job[d] \in Jobs
  BY <1>1, DataRelayAssumption DEF RInv, RelayTypes, ServesItsRequest, New, Requested
<1>3. job'[d] = [state |-> "answered", to |-> s, port |-> (udp'[s] # "none")]
  BY <1>1, <1>2 DEF RInv, RelayTypes, Jobs
<1>4. \A e \in DataPublishers : e # d => job'[e] = job[e]
  BY <1>1 DEF RInv, RelayTypes
<1>5. \A t \in Servers : /\ entries[t] \subseteq entries'[t]
                         /\ relayed[t] \subseteq relayed'[t]
                         /\ udp[t] # "none" => udp'[t] # "none"
  BY <1>1 DEF RInv, RelayTypes
<1>6. d \in entries'[s] /\ d \in relayed'[s]
  BY <1>1 DEF RInv, RelayTypes
<1>7. RelayTypes'
  <2>1. job' \in [DataPublishers -> Jobs]
    BY <1>1, <1>2, <1>3, <1>4 DEF RInv, RelayTypes, Jobs
  <2>2. udp' \in [Servers -> {"none", "running", "dead"}]
    BY <1>1 DEF RInv, RelayTypes
  <2> QED BY <1>1, <2>1, <2>2 DEF RInv, RelayTypes
<1>8. Requests'
  BY <1>3, <1>4 DEF RInv, Requests
<1>9. PortIsThere'
  <2> SUFFICES ASSUME NEW e \in DataPublishers, job'[e].state = "answered", job'[e].port
               PROVE  There(e, job[e].to)' /\ job'[e].to = job[e].to
    BY DEF PortIsThere
  <2>1. CASE e = d
    <3>1. udp'[s] # "none"
      <4> SUFFICES ASSUME udp'[s] = "none" PROVE FALSE
        OBVIOUS
      <4>1. job'[d] = [state |-> "answered", to |-> s, port |-> FALSE]
        BY <1>3
      <4> QED BY <2>1, <4>1
    <3> QED BY <1>2, <1>3, <1>6, <2>1, <3>1 DEF There
  <2>2. CASE e # d
    <3>1. job[e].to \in Servers /\ There(e, job[e].to) /\ job'[e].to = job[e].to
      BY <1>4, <2>2 DEF RInv, PortIsThere, Requests
    <3>2. There(e, job[e].to)'
      BY <1>4, <1>5, <2>2, <3>1, ThereStays DEF RInv, There
    <3> QED BY <3>1, <3>2
  <2> QED BY <2>1, <2>2
<1>10. EntriesAreRelayed'
  BY <1>1 DEF RInv, RelayTypes, EntriesAreRelayed
<1>11. ServesItsRequest'
  BY <1>1, <1>2, <1>4 DEF RInv, RelayTypes, ServesItsRequest
<1>12. SenderHasReceiver'
  BY <1>1, <1>5 DEF RInv, SenderHasReceiver
<1> QED BY <1>7, <1>8, <1>9, <1>10, <1>11, <1>12 DEF RInv

\* A relay server stops.
LEMMA StopServerKeeps ==
  ASSUME RInv, NEW s \in Servers, StopServer(s)
  PROVE  RInv'
<1>1. /\ serving[s] = None /\ server' = [server EXCEPT ![s] = "stopped"]
      /\ UNCHANGED <<job, loops, relayed, entries, serving, udp>>
  BY DEF StopServer, sender, routers
<1> QED BY <1>1 DEF RInv, RelayTypes, Requests, PortIsThere, There, EntriesAreRelayed,
                    ServesItsRequest, SenderHasReceiver

\* A UDP server dies: it was started all the same.
LEMMA UdpFailsKeeps ==
  ASSUME RInv, NEW s \in Servers, UdpFails(s)
  PROVE  RInv'
<1>1. /\ udp' = [udp EXCEPT ![s] = "dead"]
      /\ UNCHANGED <<job, loops, relayed, entries, server, serving>>
  BY DEF UdpFails, sender, routers
<1>2. \A t \in Servers : udp[t] # "none" => udp'[t] # "none"
  BY <1>1 DEF RInv, RelayTypes
<1>3. RelayTypes' /\ Requests' /\ EntriesAreRelayed' /\ ServesItsRequest'
  BY <1>1 DEF RInv, RelayTypes, Requests, EntriesAreRelayed, ServesItsRequest
<1>4. PortIsThere' /\ SenderHasReceiver'
  BY <1>1, <1>2 DEF RInv, Requests, PortIsThere, There, SenderHasReceiver
<1> QED BY <1>3, <1>4 DEF RInv

\* The loops of a data publisher end.
LEMMA SendersEndKeeps ==
  ASSUME RInv, NEW d \in DataPublishers, SendersEnd(d)
  PROVE  RInv'
<1>1. /\ loops' = [loops EXCEPT ![d] = [s \in Servers |-> 0]]
      /\ UNCHANGED <<job, relayed, entries, server, serving, udp>>
  BY DEF SendersEnd, routers, target
<1>2. RelayTypes' /\ SenderHasReceiver'
  BY <1>1 DEF RInv, RelayTypes, SenderHasReceiver
<1>3. Requests' /\ PortIsThere' /\ EntriesAreRelayed' /\ ServesItsRequest'
  BY <1>1 DEF RInv, Requests, PortIsThere, There, EntriesAreRelayed, ServesItsRequest
<1> QED BY <1>2, <1>3 DEF RInv

relayVars == <<job, loops, relayed, entries, server, udp, serving>>

\* The other steps are of other variables.
LEMMA OthersKeep == RInv /\ UNCHANGED relayVars => RInv'
BY DEF relayVars, RInv, RelayTypes, Requests, PortIsThere, There, EntriesAreRelayed,
       ServesItsRequest, SenderHasReceiver

\* Every step keeps the invariant.
LEMMA StepRelay ==
  ASSUME RInv, [Next]_vars
  PROVE  RInv'
<1>1. ASSUME NEW d \in DataPublishers,
             OnDataChannel(d) \/ Announce(d) \/ CloseChannel(d) \/ DropHandle(d)
      PROVE  RInv'
  BY <1>1, OthersKeep DEF OnDataChannel, Announce, CloseChannel, DropHandle, relayVars,
     sender, routers, routersButQueue, target
<1>2. ASSUME NEW d \in DataPublishers, RelayGoesOn(d)
      PROVE  RInv'
  BY <1>2, RelayReturnsKeeps, RefuseKeeps, RouterUnknownKeeps, ServeAgainKeeps,
     BeginServingKeeps, ServeNewKeeps DEF RelayGoesOn, Serve
<1>3. ASSUME NEW d \in DataPublishers, SendersEnd(d)
      PROVE  RInv'
  BY <1>3, SendersEndKeeps
<1>4. ASSUME NEW d \in DataPublishers, NEW s \in Servers, RelayTo(d, s) \/ Relay(d, s)
      PROVE  RInv'
  <2>1. Relay(d, s) => UNCHANGED relayVars
    BY DEF Relay, relayVars, sender, routers, target
  <2> QED BY <1>4, <2>1, RelayToKeeps, OthersKeep
<1>5. ASSUME NEW s \in Servers, RouterHandles(s) \/ CloseRouter(s) \/ WorkerForgets(s)
      PROVE  RInv'
  BY <1>5, OthersKeep DEF RouterHandles, LockForPublished, HandleDataPublished,
     HandleDataRemoved, HandleGetDataPublisher, HandleGetRelayedDataPublisher, HandleClosed,
     CloseRouter, WorkerForgets, relayVars, sender, routersButQueue, target
<1>6. ASSUME NEW s \in Servers, StopServer(s) \/ UdpFails(s)
      PROVE  RInv'
  BY <1>6, StopServerKeeps, UdpFailsKeeps
<1>7. ASSUME NEW q \in Subscribers,
             SubscriberGoesOn(q) \/ CloseSubscriber(q) \/ Lags(q) \/ Hear(q)
      PROVE  RInv'
  BY <1>7, OthersKeep DEF SubscriberGoesOn, AskRelayed, Subscribe, LoopEnds,
     CloseSubscriber, Lags, Hear, relayVars, sender, routers, routersButQueue, target
<1>8. ASSUME NEW q \in Subscribers, NEW w \in Wants[q], Ask(q, w[1], w[2])
      PROVE  RInv'
  BY <1>8, OthersKeep DEF Ask, relayVars, sender, routersButQueue, target
<1>9. CASE UNCHANGED vars
  BY <1>9, OthersKeep DEF vars, relayVars, sender, routers, target
<1> QED BY <1>1, <1>2, <1>3, <1>4, <1>5, <1>6, <1>7, <1>8, <1>9 DEF Next

\* A loop that sends the messages of a data publisher to a server has its entry, a UDP
\* server that was started and the router's list there, for any number of servers,
\* data publishers, calls and faults.
THEOREM SendersHaveReceivers == Spec => []SenderHasReceiver
<1>1. RInv => SenderHasReceiver
  BY DEF RInv
<1> QED BY <1>1, InitRelay, StepRelay, PTL DEF Spec

-----------------------------------------------------------------------------
(* HeardIsSaid *)

States ==
  {"none", "asked", "missed", "asked relayed", "found", "failed", "panicked", "loop", "ended"}
Origins == {"none", "local", "relayed"}
SubscriberType ==
  [state : States, at : Servers \cup {None}, of : DataPublishers \cup {None},
   from : Origins, sure : BOOLEAN, told : BOOLEAN, heard : Seq(Bytes)]

\* Nobody has heard anything before its call, which names a server and a data publisher.
NotYet ==
  \A q \in Subscribers :
    IF sub[q].state = "none" THEN sub[q].heard = << >> /\ ~sub[q].sure
    ELSE sub[q].of \in DataPublishers /\ sub[q].at \in Servers

HInv == sub \in [Subscribers -> SubscriberType] /\ NotYet /\ HeardIsSaid

\* What is true of what one subscriber has heard.
Said(d, data) ==
  \/ data = << >> \/ data \in Payloads[d]
  \/ \E long \in Payloads[d] : ~Fits(d, long) /\ data = SubSeq(long, 1, Len(data))

\* The initial state satisfies it.
LEMMA InitHeard == Init => HInv
<1> SUFFICES ASSUME Init PROVE HInv
  OBVIOUS
<1>1. << >> \in Seq(Bytes)
  OBVIOUS
<1>2. \A q \in Subscribers :
        sub[q] = [state |-> "none", at |-> None, of |-> None, from |-> None,
                  sure |-> FALSE, told |-> FALSE, heard |-> << >>]
  BY DEF Init
<1>3. \A q \in Subscribers : sub[q] \in SubscriberType
  <2> DEFINE silent == << >>
  <2>1. silent \in Seq(Bytes)
    BY <1>1
  <2> HIDE DEF silent
  <2>2. [state |-> "none", at |-> None, of |-> None, from |-> "none",
         sure |-> FALSE, told |-> FALSE, heard |-> silent] \in SubscriberType
    BY <2>1 DEF SubscriberType, States, Origins
  <2> QED BY <1>2, <2>2 DEF None, silent
<1>4. sub \in [Subscribers -> SubscriberType]
  <2>1. sub = [q \in Subscribers |-> sub[q]]
    BY DEF Init
  <2> QED BY <1>3, <2>1
<1> QED BY <1>2, <1>4 DEF HInv, NotYet, HeardIsSaid

\* What a data publisher says on its channel reaches the UDP server as a message of its
\* own id, whole or as much of it as the server reads.
LEMMA DatagramIsSaid ==
  ASSUME NEW d \in DataPublishers, NEW data \in Payloads[d],
         DecodesMessage(Datagram(d, data))
  PROVE  LET message == UnmarshalMessage(Datagram(d, data))
         IN message.id = IdOf[d] /\ message.data \in Seq(Bytes) /\ Said(d, message.data)
<1> DEFINE m == [id |-> IdOf[d], isString |-> TRUE, data |-> data]
           r == UnmarshalMessage(Received(MarshalMessage(m)))
<1>1. /\ IdOf[d] \in Seq(Bytes) /\ data \in Seq(Bytes) /\ Len(IdOf[d]) < 256 /\ Buffer \in Nat
  BY DataRelayAssumption
<1>2. m \in MessageData /\ m.id = IdOf[d] /\ m.data = data
  BY <1>1 DEF MessageData
<1>3. Datagram(d, data) = Received(MarshalMessage(m))
  BY DEF Datagram
<1> HIDE DEF m
<1>4. CASE Fits(d, data)
  <2>1. Len(m.id) < 256 /\ Len(m.id) + 2 + Len(m.data) <= Buffer
    BY <1>1, <1>2, <1>4 DEF Fits
  <2>2. r = m
    BY <1>1, <1>2, <2>1, MessageRoundTrip
  <2> QED BY <1>1, <1>2, <1>3, <2>2 DEF Said
<1>5. CASE ~Fits(d, data)
  <2>1. Len(m.id) < 256 /\ Len(m.id) + 2 + Len(m.data) > Buffer
    BY <1>1, <1>2, <1>5 DEF Fits
  <2>2. DecodesMessage(Received(MarshalMessage(m)))
    BY <1>3
  <2>3. r.id = m.id /\ r.data \in Seq(Bytes) /\ r.data = SubSeq(m.data, 1, Len(r.data))
    BY <1>1, <1>2, <2>1, <2>2, MessageCut
  <2> HIDE DEF r
  <2>4. Said(d, r.data)
    BY <1>2, <1>5, <2>3 DEF Said
  <2> QED BY <1>2, <1>3, <2>3, <2>4 DEF r
<1> QED BY <1>4, <1>5

\* Only what they hear changes for the subscribers.
Hearing ==
  \A q \in Subscribers :
    /\ sub'[q].state = sub[q].state /\ sub'[q].of = sub[q].of
    /\ sub'[q].at = sub[q].at /\ sub'[q].sure = sub[q].sure

\* A datagram of d, at the UDP server of s.
LEMMA RelayHeard ==
  ASSUME RInv, HInv, NEW d \in DataPublishers, NEW s \in Servers, Relay(d, s)
  PROVE  HInv' /\ Hearing
<1>1. PICK data \in Payloads[d] :
        LET bytes == Datagram(d, data)
            message == UnmarshalMessage(bytes)
        IN /\ DecodesMessage(bytes)
           /\ \E open \in SUBSET Hearers(s, message.id) :
                sub' = [q \in Subscribers |->
                          IF q \in open THEN [sub[q] EXCEPT !.heard = message.data]
                          ELSE sub[q]]
  BY DEF Relay
<1> DEFINE message == UnmarshalMessage(Datagram(d, data))
<1>2. PICK open \in SUBSET Hearers(s, message.id) :
        sub' = [q \in Subscribers |->
                  IF q \in open THEN [sub[q] EXCEPT !.heard = message.data] ELSE sub[q]]
  BY <1>1
<1>3. message.id = IdOf[d] /\ message.data \in Seq(Bytes) /\ Said(d, message.data)
  BY <1>1, DatagramIsSaid
<1> HIDE DEF message
<1>4. \A q \in Subscribers :
        /\ sub[q] \in SubscriberType
        /\ q \in open => sub[q].of = d /\ sub[q].state = "loop"
  <2>1. \A q \in open : /\ q \in Subscribers /\ sub[q].state = "loop"
                        /\ sub[q].of \in entries[s] /\ IdOf[sub[q].of] = IdOf[d]
    BY <1>2, <1>3 DEF Hearers
  <2>2. \A e \in entries[s] : e \in DataPublishers
    BY DEF RInv, RelayTypes
  <2> QED BY <2>1, <2>2, DataRelayAssumption DEF HInv
<1>5. \A q \in Subscribers :
        /\ sub'[q].state = sub[q].state /\ sub'[q].of = sub[q].of
        /\ sub'[q].at = sub[q].at /\ sub'[q].sure = sub[q].sure
        /\ sub'[q] \in SubscriberType
        /\ sub'[q].heard = IF q \in open THEN message.data ELSE sub[q].heard
  BY <1>2, <1>3, <1>4 DEF SubscriberType
<1>6. sub' \in [Subscribers -> SubscriberType]
  BY <1>2, <1>5
<1>7. NotYet'
  BY <1>4, <1>5 DEF HInv, NotYet, SubscriberType, States
<1>8. HeardIsSaid'
  <2> SUFFICES ASSUME NEW q \in Subscribers
               PROVE  Said(sub'[q].of, sub'[q].heard)
    BY DEF HeardIsSaid, Said, Fits
  <2>1. CASE q \in open
    BY <1>3, <1>4, <1>5, <2>1
  <2>2. CASE q \notin open
    BY <1>5, <2>2 DEF HInv, HeardIsSaid, Said
  <2> QED BY <2>1, <2>2
<1> QED BY <1>5, <1>6, <1>7, <1>8 DEF HInv, Hearing

\* A message on the subscriber's own router.
LEMMA HearHeard ==
  ASSUME HInv, NEW q \in Subscribers, Hear(q)
  PROVE  HInv' /\ Hearing
<1>1. PICK data \in Payloads[sub[q].of] : sub' = [sub EXCEPT ![q].heard = data]
  BY DEF Hear
<1>2. sub[q].state = "loop" /\ sub[q] \in SubscriberType /\ sub[q].of \in DataPublishers
  <2>1. sub[q].state = "loop"
    BY DEF Hear
  <2> QED BY <2>1 DEF HInv, NotYet
<1>3. data \in Seq(Bytes)
  BY <1>2, DataRelayAssumption
<1>4. \A x \in Subscribers :
        /\ sub'[x] \in SubscriberType
        /\ sub'[x].state = sub[x].state /\ sub'[x].of = sub[x].of
        /\ sub'[x].at = sub[x].at /\ sub'[x].sure = sub[x].sure
        /\ sub'[x].heard = IF x = q THEN data ELSE sub[x].heard
  BY <1>1, <1>2, <1>3 DEF HInv, SubscriberType
<1>5. sub' \in [Subscribers -> SubscriberType]
  BY <1>1, <1>4 DEF HInv
<1>6. NotYet'
  BY <1>2, <1>4 DEF HInv, NotYet
<1>7. HeardIsSaid'
  <2> SUFFICES ASSUME NEW x \in Subscribers
               PROVE  Said(sub'[x].of, sub'[x].heard)
    BY DEF HeardIsSaid, Said, Fits
  <2> QED BY <1>2, <1>4 DEF HInv, HeardIsSaid, Said
<1> QED BY <1>4, <1>5, <1>6, <1>7 DEF HInv, Hearing

-----------------------------------------------------------------------------
(* EstablishedIsFound *)

Events ==
  ({"published", "removed"} \X DataPublishers) \cup ({"get", "get relayed"} \X Subscribers)
    \cup {<<"closed">>}

\* A router is asked by calls that have begun, at that router.
OfCall(calling, event, s) ==
  event[1] \in {"get", "get relayed"} =>
    event[2] \in Subscribers /\ calling[event[2]].state # "none" /\ calling[event[2]].at = s

QInv ==
  /\ queue \in [Servers -> Seq(Events)]
  /\ \A s \in Servers : \A i \in 1 .. Len(queue[s]) : OfCall(sub, queue[s][i], s)
  /\ locked \in [Servers -> BOOLEAN]
  /\ \A s \in Servers : locked[s] => queue[s] # << >>

\* Who asked for a data publisher whose relay was established finds it in the list.
Listed ==
  \A q \in Subscribers : sub[q].sure => sub[q].of \in relayed[sub[q].at]

CInv == HInv /\ QInv /\ Listed /\ EstablishedIsFound

\* The initial state satisfies it.
LEMMA InitCalls == Init => CInv
<1> SUFFICES ASSUME Init PROVE CInv
  OBVIOUS
<1>1. \A q \in Subscribers : ~sub[q].sure
  BY DEF Init
<1>2. \A s \in Servers : queue[s] = << >>
  BY DEF Init
<1>3. << >> \in Seq(Events) /\ Len(<< >>) = 0
  OBVIOUS
<1>4. queue \in [Servers -> Seq(Events)]
  <2>1. queue = [s \in Servers |-> queue[s]]
    BY DEF Init
  <2> QED BY <1>2, <1>3, <2>1
<1>5. \A s \in Servers : \A i \in 1 .. Len(queue[s]) : FALSE
  BY <1>2, <1>3
<1>6. locked \in [Servers -> BOOLEAN] /\ \A s \in Servers : ~locked[s]
  BY DEF Init
<1> QED BY <1>1, <1>4, <1>5, <1>6, InitHeard DEF CInv, QInv, Listed, EstablishedIsFound

\* A call goes on, or does not: nothing is heard, it stays where it is and for whom, and
\* fails only where there is nothing.
Stays ==
  /\ sub' \in [Subscribers -> SubscriberType]
  /\ \A q \in Subscribers :
       /\ sub'[q].heard = sub[q].heard /\ sub'[q].of = sub[q].of
       /\ sub'[q].at = sub[q].at /\ sub'[q].sure = sub[q].sure
       /\ sub'[q].state = "none" <=> sub[q].state = "none"
       /\ sub'[q].state = "failed" =>
            sub[q].state = "failed" \/ sub[q].of \notin relayed[sub[q].at]
  /\ relayed' = relayed

\* What the calls rest on, then, stays.
LEMMA CallsStay ==
  ASSUME HInv, Listed, EstablishedIsFound, Stays
  PROVE  HInv' /\ Listed' /\ EstablishedIsFound'
<1>1. NotYet'
  BY DEF HInv, NotYet, Stays, SubscriberType
<1>2. HeardIsSaid'
  <2> SUFFICES ASSUME NEW q \in Subscribers
               PROVE  Said(sub'[q].of, sub'[q].heard)
    BY DEF HeardIsSaid, Said, Fits
  <2> QED BY DEF HInv, HeardIsSaid, Said, Stays
<1>3. Listed'
  BY DEF Listed, Stays
<1>4. EstablishedIsFound'
  BY DEF EstablishedIsFound, Listed, Stays
<1> QED BY <1>1, <1>2, <1>3, <1>4 DEF HInv, Stays

\* Begun calls stay at their server.
Begun ==
  \A q \in Subscribers :
    sub[q].state # "none" => sub'[q].state # "none" /\ sub'[q].at = sub[q].at

\* The elements of a sequence with one more, and with one less.
LEMMA OneMore ==
  ASSUME NEW S, NEW q \in Seq(S), NEW x \in S
  PROVE  /\ Append(q, x) \in Seq(S) /\ Append(q, x) # << >>
         /\ \A i \in 1 .. Len(Append(q, x)) :
              Append(q, x)[i] = x \/ \E j \in 1 .. Len(q) : Append(q, x)[i] = q[j]
OBVIOUS

\* With one less.
LEMMA OneLess ==
  ASSUME NEW S, NEW q \in Seq(S), q # << >>
  PROVE  /\ Tail(q) \in Seq(S) /\ Len(q) \in Nat /\ Len(q) > 0 /\ Head(q) = q[1]
         /\ \A i \in 1 .. Len(Tail(q)) : \E j \in 1 .. Len(q) : Tail(q)[i] = q[j]
OBVIOUS

\* An event is sent.
LEMMA SendKeeps ==
  ASSUME QInv, NEW s \in Servers, NEW event \in Events, Send(s, event),
         OfCall(sub', event, s), Begun, locked' = locked
  PROVE  QInv'
<1>1. CASE router[s] = "open"
  <2> DEFINE more == Append(queue[s], event)
  <2>1. queue[s] \in Seq(Events) /\ queue' = [queue EXCEPT ![s] = more]
    BY <1>1 DEF QInv, Send
  <2>2. /\ more \in Seq(Events) /\ more # << >>
        /\ \A i \in 1 .. Len(more) :
             more[i] = event \/ \E j \in 1 .. Len(queue[s]) : more[i] = queue[s][j]
    BY <2>1, OneMore
  <2> HIDE DEF more
  <2>3. queue' \in [Servers -> Seq(Events)]
    BY <2>1, <2>2 DEF QInv
  <2>4. \A t \in Servers : queue'[t] = IF t = s THEN more ELSE queue[t]
    BY <2>1 DEF QInv
  <2>5. ASSUME NEW t \in Servers, NEW i \in 1 .. Len(queue'[t])
        PROVE  OfCall(sub', queue'[t][i], t)
    <3>1. CASE t = s
      <4>1. queue'[t][i] = event \/ \E j \in 1 .. Len(queue[s]) : queue'[t][i] = queue[s][j]
        BY <2>2, <2>4, <2>5, <3>1
      <4>2. CASE queue'[t][i] = event
        BY <3>1, <4>2
      <4>3. ASSUME NEW j \in 1 .. Len(queue[s]), queue'[t][i] = queue[s][j]
            PROVE  OfCall(sub', queue'[t][i], t)
        <5>1. OfCall(sub, queue[s][j], s)
          BY <4>3 DEF QInv
        <5> QED BY <3>1, <4>3, <5>1 DEF OfCall, Begun
      <4> QED BY <4>1, <4>2, <4>3
    <3>2. CASE t # s
      <4>1. OfCall(sub, queue[t][i], t)
        BY <2>4, <2>5, <3>2 DEF QInv
      <4> QED BY <2>4, <3>2, <4>1 DEF OfCall, Begun
    <3> QED BY <3>1, <3>2
  <2> QED BY <2>2, <2>3, <2>4, <2>5 DEF QInv
<1>2. CASE router[s] # "open"
  BY <1>2 DEF QInv, Send, OfCall, Begun
<1> QED BY <1>1, <1>2

\* The queues are left alone.
LEMMA QueueSame ==
  ASSUME QInv, Begun, queue' = queue, locked' = locked
  PROVE  QInv'
BY DEF QInv, OfCall, Begun

\* The event at the head has been handled, and the router is not locked for it any more.
LEMMA HandledKeeps ==
  ASSUME QInv, NEW s \in Servers, queue[s] # << >>, Handled(s), Begun,
         locked' = [locked EXCEPT ![s] = FALSE]
  PROVE  QInv'
<1> DEFINE less == Tail(queue[s])
<1>1. queue[s] \in Seq(Events) /\ queue' = [queue EXCEPT ![s] = less]
  BY DEF QInv, Handled
<1>2. /\ less \in Seq(Events)
      /\ \A i \in 1 .. Len(less) : \E j \in 1 .. Len(queue[s]) : less[i] = queue[s][j]
  BY <1>1, OneLess
<1> HIDE DEF less
<1>3. queue' \in [Servers -> Seq(Events)] /\ locked' \in [Servers -> BOOLEAN]
  BY <1>1, <1>2 DEF QInv
<1>4. \A t \in Servers : queue'[t] = IF t = s THEN less ELSE queue[t]
  BY <1>1 DEF QInv
<1>5. ASSUME NEW t \in Servers, NEW i \in 1 .. Len(queue'[t])
      PROVE  OfCall(sub', queue'[t][i], t)
  <2>1. \E j \in 1 .. Len(queue[t]) : queue'[t][i] = queue[t][j]
    <3>1. CASE t = s
      BY <1>2, <1>4, <1>5, <3>1
    <3>2. CASE t # s
      BY <1>4, <1>5, <3>2
    <3> QED BY <3>1, <3>2
  <2>2. PICK j \in 1 .. Len(queue[t]) : queue'[t][i] = queue[t][j]
    BY <2>1
  <2>3. OfCall(sub, queue[t][j], t)
    BY <2>2 DEF QInv
  <2> QED BY <2>2, <2>3 DEF OfCall, Begun
<1>6. \A t \in Servers : locked'[t] => queue'[t] # << >>
  BY <1>4 DEF QInv
<1> QED BY <1>3, <1>5, <1>6 DEF QInv

\* The event at the head of the queue, when there is one.
LEMMA AtHead ==
  ASSUME QInv, NEW s \in Servers, queue[s] # << >>
  PROVE  /\ Head(queue[s]) \in Events /\ OfCall(sub, Head(queue[s]), s)
         /\ ~locked[s] => locked = [locked EXCEPT ![s] = FALSE]
<1>1. queue[s] \in Seq(Events)
  BY DEF QInv
<1>2. 1 \in 1 .. Len(queue[s]) /\ Head(queue[s]) = queue[s][1]
  BY <1>1, OneLess
<1>3. Head(queue[s]) \in Events
  BY <1>1, <1>2
<1> QED BY <1>2, <1>3 DEF QInv

\* A step by which a call moves on, or none does, and which handles no event.
LEMMA StayingKeeps ==
  ASSUME CInv, Stays, QInv'
  PROVE  CInv'
BY CallsStay DEF CInv

\* Calls that stay have begun where they had.
LEMMA StaysBegun ==
  ASSUME Stays
  PROVE  Begun
BY DEF Stays, Begun

\* No call moves.
LEMMA NoneMoves ==
  ASSUME CInv, sub' = sub, relayed' = relayed
  PROVE  Stays
BY DEF CInv, HInv, Stays

\* One call moves on to a state.
MovedTo(q, state) ==
  /\ sub' \in [Subscribers -> SubscriberType]
  /\ \A x \in Subscribers : x # q => sub'[x] = sub[x]
  /\ sub'[q].heard = sub[q].heard /\ sub'[q].of = sub[q].of
  /\ sub'[q].at = sub[q].at /\ sub'[q].sure = sub[q].sure
  /\ sub'[q].state = state

\* All that changes is where it stands, where its publisher is and what it was told.
LEMMA OneMoved ==
  ASSUME CInv, NEW q \in Subscribers, NEW state \in States, NEW from \in Origins,
         \/ sub' = [sub EXCEPT ![q].state = state]
         \/ sub' = [sub EXCEPT ![q].state = state, ![q].from = from]
         \/ sub' = [sub EXCEPT ![q].told = TRUE] /\ state = sub[q].state
  PROVE  MovedTo(q, state)
<1>1. sub \in [Subscribers -> SubscriberType]
  BY DEF CInv, HInv
<1>2. \A x \in Subscribers : x # q => sub'[x] = sub[x]
  BY <1>1
<1>3. /\ sub'[q] \in SubscriberType
      /\ sub'[q].heard = sub[q].heard /\ sub'[q].of = sub[q].of
      /\ sub'[q].at = sub[q].at /\ sub'[q].sure = sub[q].sure
      /\ sub'[q].state = state
  <2> DEFINE c == sub[q]
  <2>1. c \in SubscriberType
    BY <1>1
  <2>2. \/ sub'[q] = [c EXCEPT !.state = state]
        \/ sub'[q] = [c EXCEPT !.state = state, !.from = from]
        \/ sub'[q] = [c EXCEPT !.told = TRUE] /\ state = c.state
    BY <1>1
  <2> HIDE DEF c
  <2>3. CASE sub'[q] = [c EXCEPT !.state = state]
    BY <2>1, <2>3 DEF SubscriberType, c
  <2>4. CASE sub'[q] = [c EXCEPT !.state = state, !.from = from]
    BY <2>1, <2>4 DEF SubscriberType, c
  <2>5. CASE sub'[q] = [c EXCEPT !.told = TRUE] /\ state = c.state
    BY <2>1, <2>5 DEF SubscriberType, c
  <2> QED BY <2>2, <2>3, <2>4, <2>5
<1>4. sub' \in [Subscribers -> SubscriberType]
  BY <1>1, <1>2, <1>3
<1> QED BY <1>2, <1>3, <1>4 DEF MovedTo

\* A call that moves on, and fails only where there is nothing, leaves the others alone.
LEMMA OneMoves ==
  ASSUME CInv, NEW q \in Subscribers, NEW state, MovedTo(q, state), relayed' = relayed,
         sub[q].state # "none", state # "none",
         state = "failed" => sub[q].of \notin relayed[sub[q].at]
  PROVE  Stays
BY DEF MovedTo, Stays

\* The router's loop: events of data publishers.
LEMMA PublishedCalls ==
  ASSUME CInv, NEW s \in Servers,
         LockForPublished(s) \/ HandleDataPublished(s) \/ HandleDataRemoved(s)
  PROVE  CInv'
<1>1. Stays /\ Begun
  BY NoneMoves, StaysBegun DEF LockForPublished, HandleDataPublished, HandleDataRemoved
<1>2. queue[s] # << >>
  BY DEF LockForPublished, HandleDataPublished, HandleDataRemoved, At, CInv, QInv
<1>3. QInv'
  <2>1. CASE LockForPublished(s)
    BY <1>1, <1>2, <2>1 DEF LockForPublished, CInv, QInv, OfCall, Begun
  <2>2. CASE HandleDataPublished(s)
    BY <1>1, <1>2, <2>2, HandledKeeps DEF HandleDataPublished, Unlocked, CInv
  <2>3. CASE HandleDataRemoved(s)
    <3>1. ~locked[s] /\ locked' = locked /\ Handled(s)
      BY <2>3 DEF HandleDataRemoved, At
    <3>2. locked' = [locked EXCEPT ![s] = FALSE]
      BY <1>2, <3>1, AtHead DEF CInv
    <3> QED BY <1>1, <1>2, <3>1, <3>2, HandledKeeps DEF CInv
  <2> QED BY <2>1, <2>2, <2>3
<1> QED BY <1>1, <1>3, StayingKeeps

\* The router's loop: the questions of data_subscribe.
LEMMA AnsweredCalls ==
  ASSUME CInv, NEW s \in Servers,
         HandleGetDataPublisher(s) \/ HandleGetRelayedDataPublisher(s)
  PROVE  CInv'
<1> DEFINE q == Subject(s)
<1>1. /\ queue[s] # << >> /\ Head(queue[s])[1] \in {"get", "get relayed"}
      /\ ~locked[s] /\ Handled(s) /\ locked' = locked /\ relayed' = relayed
  BY DEF HandleGetDataPublisher, HandleGetRelayedDataPublisher, At, routersButQueue
<1>2. q \in Subscribers /\ sub[q].state # "none" /\ sub[q].at = s
  BY <1>1, AtHead DEF CInv, OfCall, Subject
<1> HIDE DEF q
<1>3. \E state \in {"found", "missed", "failed"} :
        MovedTo(q, state) /\ (state = "failed" => sub[q].of \notin relayed[s])
  <2>1. {"found", "missed", "failed"} \subseteq States /\ {"local", "relayed"} \subseteq Origins
    BY DEF States, Origins
  <2>2. CASE HandleGetDataPublisher(s)
    <3>1. sub' = IF sub[q].of \in listed[s]
                 THEN [sub EXCEPT ![q].state = "found", ![q].from = "local"]
                 ELSE [sub EXCEPT ![q].state = "missed"]
      BY <2>2 DEF HandleGetDataPublisher, q
    <3> QED BY <1>2, <2>1, <3>1, OneMoved
  <2>3. CASE HandleGetRelayedDataPublisher(s)
    <3>1. sub' = IF sub[q].of \in relayed[s]
                 THEN [sub EXCEPT ![q].state = "found", ![q].from = "relayed"]
                 ELSE [sub EXCEPT ![q].state = "failed"]
      BY <2>3 DEF HandleGetRelayedDataPublisher, q
    <3> QED BY <1>2, <2>1, <3>1, OneMoved
  <2> QED BY <2>2, <2>3
<1>6. Stays /\ Begun
  BY <1>1, <1>2, <1>3, OneMoves, StaysBegun
<1>7. locked' = [locked EXCEPT ![s] = FALSE]
  BY <1>1, AtHead DEF CInv
<1>8. QInv'
  BY <1>1, <1>6, <1>7, HandledKeeps DEF CInv
<1> QED BY <1>6, <1>8, StayingKeeps

\* A message is heard.
LEMMA HearingKeeps ==
  ASSUME CInv, HInv', Hearing, queue' = queue, locked' = locked, relayed' = relayed
  PROVE  CInv'
<1>1. QInv'
  BY QueueSame DEF CInv, Hearing, Begun
<1>2. Listed' /\ EstablishedIsFound'
  BY DEF CInv, Hearing, Listed, EstablishedIsFound
<1> QED BY <1>1, <1>2 DEF CInv

\* A data publisher or the router itself sends the router an event.
LEMMA SentCalls ==
  ASSUME CInv, NEW s \in Servers, NEW event \in Events, Send(s, event),
         event[1] \notin {"get", "get relayed"}, sub' = sub, routersButQueue' = routersButQueue
  PROVE  CInv'
<1>1. locked' = locked /\ relayed' = relayed
  BY DEF routersButQueue
<1>2. Stays /\ Begun
  BY <1>1, NoneMoves, StaysBegun
<1>3. OfCall(sub', event, s)
  BY DEF OfCall
<1>4. QInv'
  BY <1>1, <1>2, <1>3, SendKeeps DEF CInv
<1> QED BY <1>2, <1>4, StayingKeeps

\* A call is made: what is established is in the list of its server.
LEMMA AskCalls ==
  ASSUME RInv, CInv, NEW q \in Subscribers, NEW w \in Wants[q], Ask(q, w[1], w[2])
  PROVE  CInv'
<1> DEFINE s == w[1]
           d == w[2]
           answer == IF router[s] = "open" THEN "asked" ELSE "panicked"
           sure == loops[d][s] > 0
           event == <<"get", q>>
<1>1. w \in Servers \X DataPublishers
  BY DataRelayAssumption
<1>2. s \in Servers /\ d \in DataPublishers /\ answer \in {"asked", "panicked"}
  BY <1>1
<1>3. /\ sub[q].state = "none" /\ Send(s, event)
      /\ sub' = [sub EXCEPT ![q].at = s, ![q].of = d, ![q].sure = sure, ![q].state = answer]
      /\ locked' = locked /\ relayed' = relayed
  BY DEF Ask, routersButQueue
<1>4. sure \in BOOLEAN /\ (sure => d \in relayed[s])
  BY <1>2 DEF RInv, SenderHasReceiver
<1>5. event \in Events /\ event[1] = "get" /\ event[2] = q
  BY DEF Events
<1> HIDE DEF s, d, answer, sure, event
<1>6. sub \in [Subscribers -> SubscriberType] /\ answer \in States /\ answer # "none"
  BY <1>2 DEF CInv, HInv, States
<1>7. \A x \in Subscribers : x # q => sub'[x] = sub[x]
  BY <1>3, <1>6
<1>8. /\ sub'[q] \in SubscriberType /\ sub'[q].heard = sub[q].heard /\ sub'[q].of = d
      /\ sub'[q].at = s /\ sub'[q].sure = sure /\ sub'[q].state = answer
  BY <1>2, <1>3, <1>4, <1>6 DEF SubscriberType
<1>9. sub' \in [Subscribers -> SubscriberType]
  BY <1>3, <1>6, <1>7, <1>8
<1>10. NotYet'
  BY <1>2, <1>6, <1>7, <1>8 DEF CInv, HInv, NotYet
<1>11. HeardIsSaid'
  <2> SUFFICES ASSUME NEW x \in Subscribers
               PROVE  Said(sub'[x].of, sub'[x].heard)
    BY DEF HeardIsSaid, Said, Fits
  <2>1. CASE x = q
    BY <1>3, <1>8, <2>1 DEF CInv, HInv, NotYet, Said
  <2>2. CASE x # q
    BY <1>7, <2>2 DEF CInv, HInv, HeardIsSaid, Said
  <2> QED BY <2>1, <2>2
<1>12. Listed'
  BY <1>3, <1>4, <1>7, <1>8 DEF CInv, Listed
<1>13. EstablishedIsFound'
  BY <1>2, <1>7, <1>8 DEF CInv, EstablishedIsFound
<1>14. Begun /\ OfCall(sub', event, s)
  BY <1>3, <1>5, <1>6, <1>7, <1>8 DEF Begun, OfCall
<1>15. QInv'
  BY <1>2, <1>3, <1>5, <1>14, SendKeeps DEF CInv
<1> QED BY <1>9, <1>10, <1>11, <1>12, <1>13, <1>15 DEF CInv, HInv

\* A call asks for what may be relayed.
LEMMA AskRelayedCalls ==
  ASSUME CInv, NEW q \in Subscribers, AskRelayed(q)
  PROVE  CInv'
<1> DEFINE s == sub[q].at
           answer == IF router[s] = "open" THEN "asked relayed" ELSE "panicked"
           event == <<"get relayed", q>>
<1>1. /\ sub[q].state = "missed" /\ sub' = [sub EXCEPT ![q].state = answer]
      /\ Send(s, event) /\ locked' = locked /\ relayed' = relayed
  BY DEF AskRelayed, routersButQueue
<1>2. s \in Servers
  BY <1>1 DEF CInv, HInv, NotYet
<1>3. event \in Events /\ event[2] = q
  BY DEF Events
<1>4. answer \in States /\ answer # "none" /\ answer # "failed"
  BY DEF States
<1> HIDE DEF s, answer, event
<1>5. MovedTo(q, answer)
  <2>1. "none" \in Origins
    BY DEF Origins
  <2> QED BY <1>1, <1>4, <2>1, OneMoved
<1>6. Stays /\ Begun
  BY <1>1, <1>4, <1>5, OneMoves, StaysBegun
<1>7. OfCall(sub', event, s)
  BY <1>3, <1>4, <1>5 DEF OfCall, MovedTo, s
<1>8. QInv'
  BY <1>1, <1>2, <1>3, <1>6, <1>7, SendKeeps DEF CInv
<1> QED BY <1>6, <1>8, StayingKeeps

\* The DataSubscriber starts, is closed, or ends.
LEMMA SubscriberCalls ==
  ASSUME CInv, NEW q \in Subscribers,
         Subscribe(q) \/ CloseSubscriber(q) \/ LoopEnds(q) \/ Lags(q)
  PROVE  CInv'
<1>1. /\ sub[q].state \in {"found", "loop"}
      /\ \E state \in {"loop", "ended"} :
           \/ sub' = [sub EXCEPT ![q].state = state]
           \/ sub' = [sub EXCEPT ![q].told = TRUE] /\ state = sub[q].state
      /\ queue' = queue /\ locked' = locked /\ relayed' = relayed
  BY DEF Subscribe, CloseSubscriber, LoopEnds, Lags, routers
<1>2. PICK state \in {"loop", "ended"} :
        \/ sub' = [sub EXCEPT ![q].state = state]
        \/ sub' = [sub EXCEPT ![q].told = TRUE] /\ state = sub[q].state
  BY <1>1
<1>3. state \in States /\ "none" \in Origins
  BY DEF States, Origins
<1>4. MovedTo(q, state)
  BY <1>2, <1>3, OneMoved
<1>5. Stays /\ Begun
  BY <1>1, <1>2, <1>4, OneMoves, StaysBegun
<1>6. QInv'
  BY <1>1, <1>5, QueueSame DEF CInv
<1> QED BY <1>5, <1>6, StayingKeeps

\* The router's loop ends: those who wait for it panic.
LEMMA ClosedCalls ==
  ASSUME CInv, NEW s \in Servers, HandleClosed(s)
  PROVE  CInv'
<1>1. /\ queue' = [queue EXCEPT ![s] = << >>] /\ locked' = locked /\ relayed' = relayed
      /\ ~locked[s]
      /\ sub' = [q \in Subscribers |->
                   IF sub[q].at = s /\ Waiting(q) THEN [sub[q] EXCEPT !.state = "panicked"]
                   ELSE sub[q]]
  BY DEF HandleClosed, At
<1>2. \A q \in Subscribers : sub[q] \in SubscriberType
  BY DEF CInv, HInv
<1>3. "panicked" \in States
  BY DEF States
<1>4. \A q \in Subscribers :
        /\ sub'[q] \in SubscriberType
        /\ sub'[q].heard = sub[q].heard /\ sub'[q].of = sub[q].of
        /\ sub'[q].at = sub[q].at /\ sub'[q].sure = sub[q].sure
        /\ \/ sub'[q].state = sub[q].state
           \/ sub'[q].state = "panicked" /\ sub[q].state \in {"asked", "asked relayed"}
  BY <1>1, <1>2, <1>3 DEF SubscriberType, Waiting
<1>5. sub' \in [Subscribers -> SubscriberType]
  BY <1>1, <1>4
<1>6. Stays /\ Begun
  BY <1>1, <1>4, <1>5, StaysBegun DEF Stays
<1>7. QInv'
  <2>1. << >> \in Seq(Events) /\ Len(<< >>) = 0
    OBVIOUS
  <2> DEFINE none == << >>
  <2>2. /\ none \in Seq(Events) /\ \A i \in 1 .. Len(none) : FALSE
        /\ queue' = [queue EXCEPT ![s] = none]
    BY <1>1, <2>1
  <2> HIDE DEF none
  <2>3. queue' \in [Servers -> Seq(Events)]
    BY <2>2 DEF CInv, QInv
  <2>4. \A t \in Servers : queue'[t] = IF t = s THEN none ELSE queue[t]
    BY <2>2 DEF CInv, QInv
  <2>5. ASSUME NEW t \in Servers, NEW i \in 1 .. Len(queue'[t])
        PROVE  OfCall(sub', queue'[t][i], t)
    <3>1. t # s /\ queue'[t] = queue[t]
      BY <2>2, <2>4, <2>5
    <3>2. OfCall(sub, queue[t][i], t)
      BY <2>5, <3>1 DEF CInv, QInv
    <3> QED BY <1>6, <3>1, <3>2 DEF OfCall, Begun
  <2>6. \A t \in Servers : locked'[t] => queue'[t] # << >>
    BY <1>1, <2>4 DEF CInv, QInv
  <2> QED BY <1>1, <2>3, <2>5, <2>6 DEF CInv, QInv
<1> QED BY <1>6, <1>7, StayingKeeps

\* The relay server adds a data publisher to the router's list.
LEMMA ServeNewCalls ==
  ASSUME RInv, CInv, NEW d \in DataPublishers, NEW s \in Servers, NEW udpStarts \in BOOLEAN,
         ServeNew(d, s, udpStarts)
  PROVE  CInv'
<1>1. /\ relayed' = [relayed EXCEPT ![s] = @ \cup {d}]
      /\ sub' = sub /\ queue' = queue /\ locked' = locked
  BY DEF ServeNew, Added
<1>2. \A t \in Servers : relayed[t] \subseteq relayed'[t]
  BY <1>1 DEF RInv, RelayTypes
<1>3. HInv' /\ EstablishedIsFound'
  BY <1>1 DEF CInv, HInv, NotYet, HeardIsSaid, EstablishedIsFound
<1>4. \A q \in Subscribers : sub[q].sure => sub[q].at \in Servers
  BY DEF CInv, HInv, NotYet
<1>5. Listed'
  BY <1>1, <1>2, <1>4 DEF CInv, Listed
<1>6. QInv'
  BY <1>1, QueueSame DEF CInv, Begun
<1> QED BY <1>3, <1>5, <1>6 DEF CInv

\* The other steps are of other variables.
LEMMA OtherCalls ==
  ASSUME CInv, sub' = sub, queue' = queue, locked' = locked, relayed' = relayed
  PROVE  CInv'
<1>1. Stays /\ Begun
  BY NoneMoves, StaysBegun
<1>2. QInv'
  BY <1>1, QueueSame DEF CInv
<1> QED BY <1>1, <1>2, StayingKeeps

\* Every step keeps the invariant.
LEMMA StepCalls ==
  ASSUME RInv, CInv, [Next]_vars
  PROVE  CInv'
<1>1. ASSUME NEW d \in DataPublishers, OnDataChannel(d) \/ DropHandle(d) \/ SendersEnd(d)
      PROVE  CInv'
  BY <1>1, OtherCalls DEF OnDataChannel, DropHandle, SendersEnd, routers
<1>2. ASSUME NEW d \in DataPublishers, Announce(d) \/ CloseChannel(d)
      PROVE  CInv'
  <2>1. Home[d] \in Servers
    BY DataRelayAssumption
  <2>2. <<"published", d>> \in Events /\ <<"removed", d>> \in Events
    BY DEF Events
  <2>3. CASE Announce(d)
    BY <2>1, <2>2, <2>3, SentCalls DEF Announce
  <2>4. CASE CloseChannel(d)
    BY <2>1, <2>2, <2>4, SentCalls DEF CloseChannel
  <2> QED BY <1>2, <2>3, <2>4
<1>3. ASSUME NEW d \in DataPublishers, RelayGoesOn(d)
      PROVE  CInv'
  <2>1. CASE RelayReturns(d) \/ Refuse(d)
    BY <2>1, OtherCalls DEF RelayReturns, Refuse, routers
  <2>2. ASSUME NEW s \in Servers,
               RouterUnknown(d, s) \/ ServeAgain(d, s) \/ BeginServing(d, s)
        PROVE  CInv'
    BY <2>2, OtherCalls DEF RouterUnknown, ServeAgain, BeginServing, routers
  <2> QED BY <1>3, <2>1, <2>2, ServeNewCalls DEF RelayGoesOn, Serve
<1>4. ASSUME NEW d \in DataPublishers, NEW s \in Servers, RelayTo(d, s)
      PROVE  CInv'
  BY <1>4, OtherCalls DEF RelayTo, routers
<1>5. ASSUME NEW d \in DataPublishers, NEW s \in Servers, Relay(d, s)
      PROVE  CInv'
  <2>1. HInv' /\ Hearing
    BY <1>5, RelayHeard DEF CInv
  <2> QED BY <1>5, <2>1, HearingKeeps DEF Relay, routers
<1>6. ASSUME NEW s \in Servers, RouterHandles(s)
      PROVE  CInv'
  BY <1>6, PublishedCalls, AnsweredCalls, ClosedCalls DEF RouterHandles
<1>7. ASSUME NEW s \in Servers, CloseRouter(s)
      PROVE  CInv'
  <2>1. <<"closed">> \in Events /\ <<"closed">>[1] \notin {"get", "get relayed"}
    BY DEF Events
  <2> QED BY <1>7, <2>1, SentCalls DEF CloseRouter
<1>8. ASSUME NEW s \in Servers, WorkerForgets(s) \/ StopServer(s) \/ UdpFails(s)
      PROVE  CInv'
  BY <1>8, OtherCalls DEF WorkerForgets, StopServer, UdpFails, routers
<1>9. ASSUME NEW q \in Subscribers,
             SubscriberGoesOn(q) \/ CloseSubscriber(q) \/ Lags(q)
      PROVE  CInv'
  BY <1>9, AskRelayedCalls, SubscriberCalls DEF SubscriberGoesOn
<1>10. ASSUME NEW q \in Subscribers, Hear(q)
       PROVE  CInv'
  <2>1. HInv' /\ Hearing
    BY <1>10, HearHeard DEF CInv
  <2> QED BY <1>10, <2>1, HearingKeeps DEF Hear, routers
<1>11. ASSUME NEW q \in Subscribers, NEW w \in Wants[q], Ask(q, w[1], w[2])
       PROVE  CInv'
  BY <1>11, AskCalls
<1>12. CASE UNCHANGED vars
  BY <1>12, OtherCalls DEF vars, routers
<1> QED BY <1>1, <1>2, <1>3, <1>4, <1>5, <1>6, <1>7, <1>8, <1>9, <1>10, <1>11, <1>12 DEF Next

\* For any ids that differ and fit their length byte, any payloads and any buffer: what a
\* subscriber hears, directly or through another server, is what the data publisher it
\* asked for said, or as much of it as the UDP server reads.
THEOREM WhatIsHeardWasSaid == Spec => []HeardIsSaid
<1>1. RInv /\ CInv => HeardIsSaid
  BY DEF CInv, HInv
<1> QED BY <1>1, InitRelay, InitCalls, StepRelay, StepCalls, PTL DEF Spec

\* data_subscribe on a target server finds every data publisher whose relay_to has
\* returned there before it is called.
THEOREM EstablishedRelaysAreFound == Spec => []EstablishedIsFound
<1>1. RInv /\ CInv => EstablishedIsFound
  BY DEF CInv
<1> QED BY <1>1, InitRelay, InitCalls, StepRelay, StepCalls, PTL DEF Spec

-----------------------------------------------------------------------------
(* TypeOK *)

\* A call of relay_to that is under way may yet bring a loop.
Coming(d, s) == IF job[d].state # "idle" /\ job[d].to = s THEN 1 ELSE 0

SourceTypes ==
  /\ stage \in [DataPublishers -> {"none", "given", "announced"}]
  /\ closed \subseteq DataPublishers /\ early \subseteq closed /\ held \subseteq DataPublishers

\* A loop is the work of one call.
Bounded ==
  /\ calls \in 0 .. MaxCalls /\ faults \in 0 .. MaxFaults
  /\ \A d \in DataPublishers, s \in Servers : loops[d][s] + Coming(d, s) <= calls

\* A router waits for the DataPublisher of the event it is at.
AtPublished == \A s \in Servers : locked[s] => Head(queue[s])[1] = "published"
RouterTypes ==
  /\ router \in [Servers -> {"open", "closed", "forgotten"}]
  /\ listed \in [Servers -> SUBSET DataPublishers]
  /\ AtPublished

TInv == SourceTypes /\ Bounded /\ RouterTypes

LEMMA InitTypes == Init => TInv
<1> SUFFICES ASSUME Init PROVE TInv
  OBVIOUS
<1>1. \A d \in DataPublishers, s \in Servers : loops[d][s] = 0 /\ Coming(d, s) = 0
  BY DEF Init, Idle, Coming
<1> QED BY <1>1, DataRelayAssumption DEF Init, TInv, SourceTypes, Bounded, RouterTypes, AtPublished

\* A step of the data publisher's task, or of the application.
LEMMA StepSource ==
  ASSUME SourceTypes, [Next]_vars
  PROVE  SourceTypes'
<1>1. ASSUME NEW d \in DataPublishers,
             OnDataChannel(d) \/ Announce(d) \/ CloseChannel(d) \/ DropHandle(d)
      PROVE  SourceTypes'
  BY <1>1 DEF OnDataChannel, Announce, CloseChannel, DropHandle, SourceTypes
<1>2. UNCHANGED source => SourceTypes'
  BY DEF source, SourceTypes
<1>3. ASSUME NEW d \in DataPublishers, RelayGoesOn(d) \/ SendersEnd(d)
      PROVE  UNCHANGED source
  BY <1>3 DEF RelayGoesOn, RelayReturns, Refuse, Serve, RouterUnknown, ServeAgain, BeginServing,
     ServeNew, SendersEnd
<1>4. ASSUME NEW d \in DataPublishers, NEW s \in Servers, RelayTo(d, s) \/ Relay(d, s)
      PROVE  UNCHANGED source
  BY <1>4 DEF RelayTo, Relay
<1>5. ASSUME NEW s \in Servers,
             \/ RouterHandles(s) \/ CloseRouter(s) \/ WorkerForgets(s)
             \/ StopServer(s) \/ UdpFails(s)
      PROVE  UNCHANGED source
  BY <1>5 DEF RouterHandles, LockForPublished, HandleDataPublished, HandleDataRemoved,
     HandleGetDataPublisher, HandleGetRelayedDataPublisher, HandleClosed, CloseRouter,
     WorkerForgets, StopServer, UdpFails
<1>6. ASSUME NEW q \in Subscribers,
             SubscriberGoesOn(q) \/ CloseSubscriber(q) \/ Lags(q) \/ Hear(q)
      PROVE  UNCHANGED source
  BY <1>6 DEF SubscriberGoesOn, AskRelayed, Subscribe, LoopEnds, CloseSubscriber, Lags, Hear
<1>7. ASSUME NEW q \in Subscribers, NEW w \in Wants[q], Ask(q, w[1], w[2])
      PROVE  UNCHANGED source
  BY <1>7 DEF Ask
<1>8. UNCHANGED vars => UNCHANGED source
  BY DEF vars
<1> QED BY <1>1, <1>2, <1>3, <1>4, <1>5, <1>6, <1>7, <1>8 DEF Next

\* The steps that start no call and no loop; one more fault is within the bound.
LEMMA BoundsKeep ==
  ASSUME RInv, Bounded, faults' = faults \/ Fault, calls' = calls, loops' = loops,
         \A d \in DataPublishers :
           /\ job'[d].state # "idle" <=> job[d].state # "idle"
           /\ job'[d].to = job[d].to
  PROVE  Bounded'
<1>1. \A d \in DataPublishers, s \in Servers : Coming(d, s)' = Coming(d, s)
  BY DEF Coming
<1> QED BY <1>1, DataRelayAssumption DEF Bounded, Fault

\* An answer is not yet the end of the call.
LEMMA AnswerBounds ==
  ASSUME RInv, Bounded, faults' = faults \/ Fault, calls' = calls, loops' = loops,
         NEW d \in DataPublishers, NEW port, job[d].state # "idle",
         job' = Answer(d) \/ job' = [job EXCEPT ![d].state = "answered", ![d].port = port]
  PROVE  Bounded'
<1>1. job \in [DataPublishers -> Jobs]
  BY DEF RInv, RelayTypes
<1>2. \A e \in DataPublishers \ {d} : job'[e] = job[e]
  BY <1>1 DEF Answer
<1>3. job'[d].state = "answered" /\ job'[d].to = job[d].to
  BY <1>1 DEF Answer, Jobs
<1> QED BY <1>2, <1>3, BoundsKeep

LEMMA StepBounds ==
  ASSUME RInv, Bounded, [Next]_vars
  PROVE  Bounded'
<1>1. job \in [DataPublishers -> Jobs] /\ loops \in [DataPublishers -> [Servers -> Nat]]
  BY DEF RInv, RelayTypes
<1>2. calls \in Nat /\ calls <= MaxCalls /\ MaxCalls \in Nat /\ MaxFaults \in Nat
  BY DataRelayAssumption DEF Bounded
<1>3. \A d \in DataPublishers, s \in Servers :
        loops[d][s] \in Nat /\ Coming(d, s) \in {0, 1} /\ loops[d][s] + Coming(d, s) <= calls
  BY <1>1 DEF Coming, Bounded
<1>4. ASSUME UNCHANGED sender, faults' = faults \/ Fault
      PROVE  Bounded'
  BY <1>4, BoundsKeep DEF sender
<1>5. ASSUME NEW d \in DataPublishers, NEW s \in Servers, RelayTo(d, s)
      PROVE  Bounded'
  <2>1. /\ job[d].state = "idle" /\ calls < MaxCalls /\ calls' = calls + 1
        /\ job' = [job EXCEPT ![d] = [state |-> "sent", to |-> s, port |-> FALSE]]
        /\ UNCHANGED <<loops, faults>>
    BY <1>5 DEF RelayTo
  <2>2. ASSUME NEW e \in DataPublishers, NEW t \in Servers
        PROVE  loops'[e][t] + Coming(e, t)' <= calls'
    <3>1. Coming(e, t)' \in {0, 1} /\ (e # d => Coming(e, t)' = Coming(e, t))
      BY <1>1, <2>1 DEF Coming
    <3>2. e = d => Coming(e, t) = 0
      BY <2>1 DEF Coming
    <3> QED BY <1>2, <1>3, <2>1, <3>1, <3>2
  <2>3. calls' \in 0 .. MaxCalls /\ faults' \in 0 .. MaxFaults
    BY <1>2, <2>1 DEF Bounded
  <2> QED BY <2>2, <2>3 DEF Bounded
<1>6. ASSUME NEW d \in DataPublishers, RelayReturns(d)
      PROVE  Bounded'
  <2>1. /\ job' = [job EXCEPT ![d] = Idle] /\ job[d].state = "answered"
        /\ loops' = IF job[d].port THEN [loops EXCEPT ![d][job[d].to] = @ + 1] ELSE loops
        /\ UNCHANGED <<calls, faults>>
    BY <1>6 DEF RelayReturns, GotPort
  <2>2. job[d].to \in Servers
    BY <2>1 DEF RInv, Requests
  <2>3. ASSUME NEW e \in DataPublishers, NEW t \in Servers
        PROVE  loops'[e][t] + Coming(e, t)' <= calls'
    <3>1. CASE e = d /\ t = job[d].to
      <4>1. Coming(e, t) = 1 /\ Coming(e, t)' = 0
        BY <1>1, <2>1, <3>1 DEF Coming, Idle
      <4>2. loops'[e][t] \in {loops[e][t], loops[e][t] + 1}
        BY <1>1, <2>1, <2>2, <3>1
      <4> QED BY <1>2, <1>3, <2>1, <4>1, <4>2
    <3>2. CASE e # d \/ t # job[d].to
      <4>1. loops'[e][t] = loops[e][t]
        BY <1>1, <2>1, <2>2, <3>2
      <4>2. Coming(e, t)' = Coming(e, t) \/ Coming(e, t)' = 0
        BY <1>1, <2>1 DEF Coming, Idle
      <4> QED BY <1>2, <1>3, <2>1, <4>1, <4>2
    <3> QED BY <3>1, <3>2
  <2> QED BY <2>1, <2>3 DEF Bounded
<1>7. ASSUME NEW d \in DataPublishers, SendersEnd(d)
      PROVE  Bounded'
  <2>1. loops' = [loops EXCEPT ![d] = [s \in Servers |-> 0]] /\ UNCHANGED <<job, calls, faults>>
    BY <1>7 DEF SendersEnd
  <2>2. ASSUME NEW e \in DataPublishers, NEW t \in Servers
        PROVE  loops'[e][t] + Coming(e, t)' <= calls'
    <3>1. loops'[e][t] \in {0, loops[e][t]} /\ Coming(e, t)' = Coming(e, t)
      BY <1>1, <2>1 DEF Coming
    <3> QED BY <1>2, <1>3, <2>1, <3>1
  <2> QED BY <2>1, <2>2 DEF Bounded
<1>8. ASSUME NEW d \in DataPublishers, RelayGoesOn(d)
      PROVE  Bounded'
  <2>1. CASE Refuse(d)
    BY <2>1, AnswerBounds DEF Refuse
  <2>2. ASSUME NEW s \in Servers, RouterUnknown(d, s) \/ ServeAgain(d, s)
        PROVE  Bounded'
    BY <2>2, AnswerBounds DEF RouterUnknown, ServeAgain, Requested, AnswerPort
  <2>3. ASSUME NEW s \in Servers, BeginServing(d, s)
        PROVE  Bounded'
    BY <1>4, <2>3 DEF BeginServing
  <2>4. ASSUME NEW s \in Servers, NEW udpStarts \in BOOLEAN, ServeNew(d, s, udpStarts)
        PROVE  Bounded'
    <3>1. job[d].state = "sent"
      BY <2>4, DataRelayAssumption DEF ServeNew, New, Requested, RInv, ServesItsRequest
    <3>2. faults' = faults \/ Fault
      BY <2>4 DEF ServeNew
    <3>3. /\ job' = [job EXCEPT ![d].state = "answered", ![d].port = (udp'[s] # "none")]
          /\ UNCHANGED <<loops, calls>>
      BY <2>4 DEF ServeNew, AnswerPort
    <3> QED BY <3>1, <3>2, <3>3, AnswerBounds
  <2> QED BY <1>6, <1>8, <2>1, <2>2, <2>3, <2>4 DEF RelayGoesOn, Serve
<1>9. ASSUME NEW d \in DataPublishers,
             OnDataChannel(d) \/ Announce(d) \/ CloseChannel(d) \/ DropHandle(d)
      PROVE  Bounded'
  BY <1>4, <1>9 DEF OnDataChannel, Announce, CloseChannel, DropHandle
<1>10. ASSUME NEW s \in Servers,
              \/ RouterHandles(s) \/ CloseRouter(s) \/ WorkerForgets(s)
              \/ StopServer(s) \/ UdpFails(s)
       PROVE  Bounded'
  BY <1>4, <1>10 DEF RouterHandles, LockForPublished, HandleDataPublished, HandleDataRemoved,
     HandleGetDataPublisher, HandleGetRelayedDataPublisher, HandleClosed, CloseRouter,
     WorkerForgets, StopServer, UdpFails
<1>11. ASSUME NEW q \in Subscribers,
              SubscriberGoesOn(q) \/ CloseSubscriber(q) \/ Lags(q) \/ Hear(q)
       PROVE  Bounded'
  BY <1>4, <1>11 DEF SubscriberGoesOn, AskRelayed, Subscribe, LoopEnds, CloseSubscriber, Lags, Hear
<1>12. ASSUME NEW q \in Subscribers, NEW w \in Wants[q], Ask(q, w[1], w[2])
       PROVE  Bounded'
  BY <1>4, <1>12 DEF Ask
<1>13. ASSUME NEW d \in DataPublishers, NEW s \in Servers, Relay(d, s)
       PROVE  Bounded'
  BY <1>4, <1>13 DEF Relay
<1>14. UNCHANGED vars => Bounded'
  BY <1>4 DEF vars
<1> QED BY <1>5, <1>7, <1>8, <1>9, <1>10, <1>11, <1>12, <1>13, <1>14 DEF Next

\* An event at the end of a queue does not change which is first, if there is one.
LEMMA SentStaysFirst ==
  ASSUME QInv, RouterTypes, NEW s \in Servers, NEW event \in Events, Send(s, event),
         UNCHANGED routersButQueue
  PROVE  RouterTypes'
<1>1. queue \in [Servers -> Seq(Events)]
  BY DEF QInv
<1>2. \A t \in Servers : queue'[t] = queue[t] \/ queue'[t] = Append(queue[t], event)
  BY <1>1 DEF Send
<1>3. \A t \in Servers : queue[t] \in Seq(Events) /\ queue[t] # << >> =>
        Head(Append(queue[t], event)) = Head(queue[t])
  OBVIOUS
<1>4. \A t \in Servers : locked'[t] => locked[t] /\ queue[t] \in Seq(Events) /\ queue[t] # << >>
  BY <1>1 DEF routersButQueue, QInv
<1>5. AtPublished'
  BY <1>2, <1>3, <1>4 DEF RouterTypes, AtPublished, routersButQueue
<1> QED BY <1>5 DEF RouterTypes, routersButQueue

LEMMA StepRouters ==
  ASSUME CInv, RouterTypes, [Next]_vars
  PROVE  RouterTypes'
<1>1. /\ QInv /\ queue \in [Servers -> Seq(Events)] /\ locked \in [Servers -> BOOLEAN]
      /\ \A s \in Servers : locked[s] => queue[s] # << >>
  BY DEF CInv, QInv
<1>2. UNCHANGED routers => RouterTypes'
  BY DEF routers, RouterTypes, AtPublished
<1>3. ASSUME NEW s \in Servers, RouterHandles(s)
      PROVE  RouterTypes'
  <2>1. CASE LockForPublished(s)
    BY <1>1, <2>1 DEF LockForPublished, At, RouterTypes, AtPublished
  <2>2. CASE HandleDataPublished(s)
    <3>1. queue[s] # << >> /\ Head(queue[s])[1] = "published"
      BY <1>1, <2>2 DEF HandleDataPublished, At, RouterTypes, AtPublished
    <3>2. Subject(s) \in DataPublishers
      <4>1. Head(queue[s]) \in Events
        BY <1>1, <3>1, AtHead
      <4> DEFINE event == Head(queue[s])
      <4> HIDE DEF event
      <4>2. event \in {"published", "removed"} \X DataPublishers => event[2] \in DataPublishers
        OBVIOUS
      <4>3. event \in {"get", "get relayed"} \X Subscribers => event[1] # "published"
        OBVIOUS
      <4>4. event = <<"closed">> => event[1] # "published"
        OBVIOUS
      <4>5. event \in Events /\ event[1] = "published" => event[2] \in DataPublishers
        BY <4>2, <4>3, <4>4 DEF Events
      <4> QED BY <3>1, <4>1, <4>5 DEF Subject, event
    <3>3. /\ listed' = [listed EXCEPT ![s] = @ \cup {Subject(s)}]
          /\ locked' = [locked EXCEPT ![s] = FALSE] /\ queue' = [queue EXCEPT ![s] = Tail(@)]
          /\ router' = router
      BY <2>2 DEF HandleDataPublished, Handled, Unlocked
    <3>4. AtPublished'
      BY <1>1, <3>3 DEF RouterTypes, AtPublished
    <3> QED BY <3>2, <3>3, <3>4 DEF RouterTypes
  <2>3. CASE HandleDataRemoved(s)
    <3>1. /\ listed' = [listed EXCEPT ![s] = @ \ {Subject(s)}] /\ ~locked[s]
          /\ queue' = [queue EXCEPT ![s] = Tail(@)] /\ UNCHANGED <<locked, router>>
      BY <2>3 DEF HandleDataRemoved, Handled, At
    <3>2. AtPublished'
      BY <1>1, <3>1 DEF RouterTypes, AtPublished
    <3> QED BY <3>1, <3>2 DEF RouterTypes
  <2>4. CASE HandleGetDataPublisher(s) \/ HandleGetRelayedDataPublisher(s)
    <3>1. /\ ~locked[s] /\ queue' = [queue EXCEPT ![s] = Tail(@)]
          /\ UNCHANGED <<locked, router, listed>>
      BY <2>4 DEF HandleGetDataPublisher, HandleGetRelayedDataPublisher, Handled, At,
         routersButQueue
    <3>2. AtPublished'
      BY <1>1, <3>1 DEF RouterTypes, AtPublished
    <3> QED BY <3>1, <3>2 DEF RouterTypes
  <2>5. CASE HandleClosed(s)
    <3>1. /\ ~locked[s] /\ queue' = [queue EXCEPT ![s] = << >>]
          /\ router' = [router EXCEPT ![s] = "closed"] /\ UNCHANGED <<locked, listed>>
      BY <2>5 DEF HandleClosed, At
    <3>2. AtPublished'
      BY <1>1, <3>1 DEF RouterTypes, AtPublished
    <3> QED BY <3>1, <3>2 DEF RouterTypes
  <2> QED BY <1>3, <2>1, <2>2, <2>3, <2>4, <2>5 DEF RouterHandles
<1>4. ASSUME NEW s \in Servers, WorkerForgets(s)
      PROVE  RouterTypes'
  BY <1>4 DEF WorkerForgets, RouterTypes, AtPublished
<1>5. ASSUME NEW d \in DataPublishers, Announce(d) \/ CloseChannel(d)
      PROVE  RouterTypes'
  <2>1. Home[d] \in Servers /\ <<"published", d>> \in Events /\ <<"removed", d>> \in Events
    BY DataRelayAssumption DEF Events
  <2> QED BY <1>1, <1>5, <2>1, SentStaysFirst DEF Announce, CloseChannel
<1>6. ASSUME NEW s \in Servers, CloseRouter(s)
      PROVE  RouterTypes'
  <2>1. <<"closed">> \in Events
    BY DEF Events
  <2> QED BY <1>1, <1>6, <2>1, SentStaysFirst DEF CloseRouter
<1>7. ASSUME NEW q \in Subscribers, NEW w \in Wants[q], Ask(q, w[1], w[2])
      PROVE  RouterTypes'
  <2>1. w \in Servers \X DataPublishers
    BY DataRelayAssumption
  <2>2. w[1] \in Servers /\ <<"get", q>> \in Events
    BY <2>1 DEF Events
  <2> QED BY <1>1, <1>7, <2>2, SentStaysFirst DEF Ask
<1>8. ASSUME NEW q \in Subscribers, AskRelayed(q)
      PROVE  RouterTypes'
  <2>1. <<"get relayed", q>> \in Events
    BY DEF Events
  <2>2. sub[q].at \in Servers
    BY <1>8 DEF AskRelayed, CInv, HInv, SubscriberType, NotYet
  <2> QED BY <1>1, <1>8, <2>1, <2>2, SentStaysFirst DEF AskRelayed
<1>9. ASSUME NEW d \in DataPublishers, OnDataChannel(d) \/ DropHandle(d) \/ SendersEnd(d)
      PROVE  RouterTypes'
  BY <1>2, <1>9 DEF OnDataChannel, DropHandle, SendersEnd
<1>10. ASSUME NEW d \in DataPublishers, RelayGoesOn(d)
       PROVE  RouterTypes'
  <2>1. CASE RelayReturns(d) \/ Refuse(d)
    BY <1>2, <2>1 DEF RelayReturns, Refuse
  <2>2. ASSUME NEW s \in Servers,
               RouterUnknown(d, s) \/ ServeAgain(d, s) \/ BeginServing(d, s)
        PROVE  RouterTypes'
    BY <1>2, <2>2 DEF RouterUnknown, ServeAgain, BeginServing
  <2>3. ASSUME NEW s \in Servers, NEW udpStarts \in BOOLEAN, ServeNew(d, s, udpStarts)
        PROVE  RouterTypes'
    BY <2>3 DEF ServeNew, RouterTypes, AtPublished
  <2> QED BY <1>10, <2>1, <2>2, <2>3 DEF RelayGoesOn, Serve
<1>11. ASSUME NEW d \in DataPublishers, NEW s \in Servers, RelayTo(d, s) \/ Relay(d, s)
       PROVE  RouterTypes'
  BY <1>2, <1>11 DEF RelayTo, Relay
<1>12. ASSUME NEW s \in Servers, StopServer(s) \/ UdpFails(s)
       PROVE  RouterTypes'
  BY <1>2, <1>12 DEF StopServer, UdpFails
<1>13. ASSUME NEW q \in Subscribers,
              Subscribe(q) \/ LoopEnds(q) \/ CloseSubscriber(q) \/ Lags(q) \/ Hear(q)
       PROVE  RouterTypes'
  BY <1>2, <1>13 DEF Subscribe, LoopEnds, CloseSubscriber, Lags, Hear
<1>14. UNCHANGED vars => RouterTypes'
  BY <1>2 DEF vars
<1> QED BY <1>3, <1>4, <1>5, <1>6, <1>7, <1>8, <1>9, <1>10, <1>11, <1>12, <1>13, <1>14
        DEF Next, SubscriberGoesOn

\* The variables have their types, no data publisher has more loops to a server than
\* relay_to was called, a router that holds its mutex is at a DataPublisher it was told
\* of, and a relay server that holds the worker's is at a request somebody waits for.
THEOREM TypeCorrect == Spec => []TypeOK
<1>1. RInv /\ CInv /\ TInv => TypeOK
  <2> SUFFICES ASSUME RInv, CInv, TInv PROVE TypeOK
    OBVIOUS
  <2>1. loops \in [DataPublishers -> [Servers -> 0 .. MaxCalls]]
    <3>1. loops \in [DataPublishers -> [Servers -> Nat]]
      BY DEF RInv, RelayTypes
    <3>2. \A d \in DataPublishers, s \in Servers : loops[d][s] \in 0 .. MaxCalls
      <4> SUFFICES ASSUME NEW d \in DataPublishers, NEW s \in Servers
                   PROVE  loops[d][s] \in 0 .. MaxCalls
        OBVIOUS
      <4>1. loops[d][s] \in Nat /\ Coming(d, s) \in {0, 1} /\ loops[d][s] + Coming(d, s) <= calls
        BY <3>1 DEF TInv, Bounded, Coming
      <4>2. calls \in Nat /\ calls <= MaxCalls /\ MaxCalls \in Nat
        BY DataRelayAssumption DEF TInv, Bounded
      <4> QED BY <4>1, <4>2
    <3> QED BY <3>1, <3>2
  <2>2. \A s \in Servers : locked[s] => queue[s] # << >> /\ Head(queue[s])[1] = "published"
    BY DEF CInv, QInv, TInv, RouterTypes, AtPublished
  <2>3. \A s \in Servers :
          serving[s] # None => job[serving[s]].state = "sent" /\ job[serving[s]].to = s
    BY DEF RInv, ServesItsRequest
  <2> QED BY <2>1, <2>2, <2>3 DEF TypeOK, RInv, RelayTypes, Jobs, CInv, QInv, TInv, SourceTypes,
             Bounded, RouterTypes
<1>2. RInv /\ CInv /\ TInv /\ [Next]_vars => TInv'
  BY StepSource, StepBounds, StepRouters DEF TInv
<1> QED BY <1>1, <1>2, InitRelay, InitCalls, InitTypes, StepRelay, StepCalls, PTL DEF Spec

=============================================================================
