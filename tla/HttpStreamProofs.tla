-------------------------- MODULE HttpStreamProofs --------------------------
(***************************************************************************)
(* For any messages, and any capacity the streams start from: the types of *)
(* HttpStream's state, that no stream is used past its capacity, that the  *)
(* receiver hangs up last, that no byte between the two processes is lost, *)
(* repeated or reordered, and that the receiver's packets are the messages *)
(* (the refinement of MessageChannel).                                     *)
(***************************************************************************)
EXTENDS HttpStream, SequenceFacts

Doubles(d, need) == d = [c \in Nat |-> IF c > need THEN c ELSE d[2 * c]]

(* Numbers that c reaches by doubling.                                     *)
Reach(c) == {x \in Nat : \A S \in SUBSET Nat :
                c \in S /\ (\A y \in S : 2 * y \in S) => x \in S}

(* The function StreamGrow doubles by exists: by the least number for      *)
(* which it would not.                                                     *)
LEMMA DoublesExists ==
    ASSUME NEW need \in Nat
    PROVE  \E d : Doubles(d, need)
  <1> DEFINE Up(c) == {x \in Reach(c) : x > need}
             Least(T) == CHOOSE x \in T : \A y \in T : x <= y
             d == [c \in Nat |-> IF c > need THEN c ELSE Least(Up(2 * c))]
  <1>1. ASSUME NEW c \in Nat
        PROVE  /\ c \in Reach(c)
               /\ \A y \in Reach(c) : 2 * y \in Reach(c)
               /\ \A y \in Reach(c) : y >= c
    <2>1. c \in Reach(c)
      BY DEF Reach
    <2>2. ASSUME NEW y \in Reach(c) PROVE 2 * y \in Reach(c)
      BY DEF Reach
    <2>3. ASSUME NEW y \in Reach(c) PROVE y >= c
      <3> DEFINE S == {z \in Nat : z >= c}
      <3>1. S \in SUBSET Nat /\ c \in S /\ \A z \in S : 2 * z \in S
        OBVIOUS
      <3> HIDE DEF S
      <3>2. y \in S
        BY <3>1 DEF Reach
      <3>3. QED
        BY <3>2 DEF S
    <2>4. QED
      BY <2>1, <2>2, <2>3
  <1>2. ASSUME NEW c \in Nat, ~(c > need) PROVE Up(c) = Up(2 * c)
    <2>1. ASSUME NEW x \in Reach(c), x # c PROVE x \in Reach(2 * c)
      <3>1. ASSUME NEW S \in SUBSET Nat, 2 * c \in S, \A y \in S : 2 * y \in S PROVE x \in S
        <4>1. x \in S \cup {c}
          <5>1. S \cup {c} \in SUBSET Nat /\ c \in S \cup {c} /\ \A y \in S \cup {c} : 2 * y \in S \cup {c}
            BY <3>1
          <5>2. QED
            BY <5>1 DEF Reach
        <4>2. QED
          BY <2>1, <4>1
      <3>2. x \in Nat
        BY DEF Reach
      <3>3. QED
        BY <3>1, <3>2 DEF Reach
    <2>2. ASSUME NEW x \in Reach(2 * c) PROVE x \in Reach(c)
      <3>1. ASSUME NEW S \in SUBSET Nat, c \in S, \A y \in S : 2 * y \in S PROVE x \in S
        BY <3>1 DEF Reach
      <3>2. x \in Nat
        BY DEF Reach
      <3>3. QED
        BY <3>1, <3>2 DEF Reach
    <2>3. QED
      BY <1>2, <2>1, <2>2
  <1>3. ASSUME NEW c \in Nat, c > need PROVE Least(Up(c)) = c
    <2>1. c \in Up(c) /\ \A y \in Up(c) : c <= y /\ y \in Nat
      BY <1>1, <1>3 DEF Reach
    <2> DEFINE T == Up(c)
    <2> HIDE DEF T, Up
    <2>2. c \in T /\ \A y \in T : c <= y /\ y \in Nat
      BY <2>1 DEF T
    <2>3. Least(T) \in T /\ \A y \in T : Least(T) <= y
      BY <2>2
    <2>4. Least(T) \in Nat /\ c <= Least(T) /\ Least(T) <= c
      BY <2>2, <2>3
    <2> HIDE DEF Least
    <2>5. Least(T) = c
      BY <2>4
    <2>6. QED
      BY <2>5 DEF T
  <1> HIDE DEF Up, Least
  <1>4. ASSUME NEW c \in Nat
        PROVE  d[c] = IF c > need THEN c ELSE d[2 * c]
    <2>1. CASE c > need
      BY <2>1
    <2>2. CASE ~(c > need)
      <3>1. d[c] = Least(Up(2 * c))
        BY <2>2
      <3>2. CASE 2 * c > need
        <4>1. 2 * c \in Nat /\ d[2 * c] = 2 * c
          BY <3>2
        <4>2. QED
          BY <1>3, <2>2, <3>1, <3>2, <4>1
      <3>3. CASE ~(2 * c > need)
        <4>1. 2 * c \in Nat /\ d[2 * c] = Least(Up(2 * (2 * c)))
          BY <3>3
        <4>2. QED
          BY <1>2, <2>2, <3>1, <3>3, <4>1
      <3>4. QED
        BY <3>2, <3>3
    <2>3. QED
      BY <2>1, <2>2
  <1>5. d = [c \in Nat |-> d[c]]
    OBVIOUS
  <1> HIDE DEF d
  <1>6. [c \in Nat |-> d[c]] = [c \in Nat |-> IF c > need THEN c ELSE d[2 * c]]
    BY <1>4
  <1>7. QED
    BY <1>5, <1>6 DEF Doubles

(* It ends above what is needed.                                           *)
LEMMA DoublesEnough ==
    ASSUME NEW need \in Nat, NEW d, Doubles(d, need), NEW c \in Nat \ {0}
    PROVE  d[c] \in Nat /\ d[c] > need
  <1>1. \A x \in Nat : d[x] = IF x > need THEN x ELSE d[2 * x]
    <2>1. \A x \in Nat : [y \in Nat |-> IF y > need THEN y ELSE d[2 * y]][x] = IF x > need THEN x ELSE d[2 * x]
      OBVIOUS
    <2>2. QED
      BY <2>1 DEF Doubles
  <1> DEFINE Bad == {x \in Nat \ {0} : ~(d[x] \in Nat /\ d[x] > need)}
             T == {need - x : x \in Bad}
  <1>2. \A x \in Bad : x <= need /\ 2 * x \in Bad
    BY <1>1
  <1>3. ASSUME Bad # {} PROVE FALSE
    <2>1. T \in SUBSET Nat /\ T # {}
      BY <1>2, <1>3
    <2>2. PICK z \in T : \A y \in T : z <= y
      <3> HIDE DEF T
      <3>1. QED
        BY <2>1, LeastNumber
    <2>3. PICK x \in Bad : z = need - x
      BY <2>2
    <2>4. 2 * x \in Bad /\ need - 2 * x \in T
      BY <1>2
    <2>5. x \in Nat /\ x > 0
      BY <2>3
    <2> HIDE DEF T, Bad
    <2>6. need - x <= need - 2 * x
      BY <2>2, <2>3, <2>4
    <2>7. QED
      BY <2>5, <2>6
  <1>4. QED
    BY <1>3

(* http_stream_append_data makes room for what it appends.                 *)
LEMMA StreamGrows ==
    ASSUME NEW Cap \in Nat, NEW need \in Nat
    PROVE  StreamGrow(Cap, need) \in Nat /\ StreamGrow(Cap, need) > need
  <1>1. CASE Cap > need
    BY <1>1 DEF StreamGrow
  <1>2. CASE ~(Cap > need)
    <2> DEFINE first == 2 * IF Cap = 0 THEN InitialCapacity ELSE Cap
               d == CHOOSE d : d = [c \in Nat |-> IF c > need THEN c ELSE d[2 * c]]
    <2>1. StreamGrow(Cap, need) = d[first]
      BY <1>2 DEF StreamGrow
    <2>2. first \in Nat \ {0}
      BY CapacityAssumption
    <2>3. \E e : e = [c \in Nat |-> IF c > need THEN c ELSE e[2 * c]]
      BY DoublesExists DEF Doubles
    <2>4. d = [c \in Nat |-> IF c > need THEN c ELSE d[2 * c]]
      BY <2>3
    <2> HIDE DEF d, first
    <2>5. Doubles(d, need)
      BY <2>4 DEF Doubles
    <2>6. QED
      BY <2>1, <2>2, <2>5, DoublesEnough
  <1>3. QED
    BY <1>1, <1>2

-----------------------------------------------------------------------------
(* The types.                                                              *)

(* The bytes that a sender writes.                                         *)
Plain == {b \in Byte : b.is # "A"}

(* The text of a message is such bytes.                                    *)
LEMMA BufferIsPlain ==
    ASSUME NEW m \in Messages, NEW k \in Nat
    PROVE  Http(m, k) \in Seq(Plain) /\ Buffer(m, k) \in Seq(Plain)
  <1>1. m.Headers \in BOOLEAN /\ m.Body \in Seq({"body", "CR", "LF"})
    BY MessageAssumption
  <1> DEFINE body == [x \in DOMAIN m.Body |-> [is |-> m.Body[x], n |-> k]]
  <1>2. CRLF \in Seq(Plain) /\ << >> \in Seq(Plain) /\ <<NUL>> \in Seq(Plain)
    BY DEF CRLF, NUL, Plain, Byte
  <1>3. << [is |-> "start", n |-> k] >> \in Seq(Plain)
    BY DEF Plain, Byte
  <1>4. << [is |-> "Content-Length", n |-> Len(m.Body)] >> \in Seq(Plain)
    BY <1>1 DEF Plain, Byte
  <1>5. body \in Seq(Plain)
    <2>1. \A x \in DOMAIN m.Body : body[x] \in Plain
      BY <1>1 DEF Plain, Byte
    <2>2. PICK N \in Nat : DOMAIN m.Body = 1..N
      BY <1>1
    <2>3. body = [x \in 1..N |-> body[x]] /\ \A x \in 1..N : body[x] \in Plain
      BY <2>1, <2>2
    <2> HIDE DEF body
    <2>4. body \in [1..N -> Plain]
      BY <2>3
    <2>5. QED
      BY <2>4
  <1> HIDE DEF body
  <1>6. \A s, t \in Seq(Plain) : s \o t \in Seq(Plain)
    OBVIOUS
  <1> DEFINE headers == IF m.Headers THEN << >> ELSE CRLF
  <1>7. headers \in Seq(Plain)
    BY <1>2
  <1> HIDE DEF headers
  <1>8. Http(m, k) = << [is |-> "start", n |-> k] >> \o CRLF \o headers
                        \o << [is |-> "Content-Length", n |-> Len(m.Body)] >> \o CRLF \o CRLF \o body
    BY DEF Http, headers, body
  <1>9. Http(m, k) \in Seq(Plain)
    <2> DEFINE s1 == << [is |-> "start", n |-> k] >> \o CRLF
               s2 == s1 \o headers
               s3 == s2 \o << [is |-> "Content-Length", n |-> Len(m.Body)] >>
               s4 == s3 \o CRLF
               s5 == s4 \o CRLF
    <2>1. s1 \in Seq(Plain)
      BY <1>2, <1>3, <1>6
    <2>2. s2 \in Seq(Plain)
      <3> HIDE DEF s1
      <3>1. QED
        BY <2>1, <1>6, <1>7
    <2>3. s3 \in Seq(Plain)
      <3> HIDE DEF s2
      <3>1. QED
        BY <2>2, <1>4, <1>6
    <2>4. s4 \in Seq(Plain)
      <3> HIDE DEF s3
      <3>1. QED
        BY <2>3, <1>2, <1>6
    <2>5. s5 \in Seq(Plain)
      <3> HIDE DEF s4
      <3>1. QED
        BY <2>4, <1>2, <1>6
    <2>6. Http(m, k) = s5 \o body
      BY <1>8
    <2> HIDE DEF s5
    <2>7. QED
      BY <2>5, <2>6, <1>5, <1>6
  <1>10. Buffer(m, k) \in Seq(Plain)
    BY <1>2, <1>6, <1>9 DEF Buffer
  <1>11. QED
    BY <1>9, <1>10

LEMMA PlainIsBytes == Plain \subseteq Byte /\ \A s \in Seq(Plain) : s \in Seq(Byte)
    BY DEF Plain

LEMMA BufferIsBytes ==
    ASSUME NEW m \in Messages, NEW k \in Nat
    PROVE  Http(m, k) \in Seq(Byte) /\ Buffer(m, k) \in Seq(Byte)
    BY BufferIsPlain, PlainIsBytes

Typed ==
    /\ Sending \in [Data: Seq(Byte), Cap: Nat]
    /\ Recieving \in [Data: Seq(Byte), Cap: Nat, Pos: Nat, Content_Length: Nat]
    /\ Recieving.Pos <= Len(Recieving.Data)
    /\ wire \in Seq(Byte)
    /\ scanning \in BOOLEAN /\ open \in BOOLEAN /\ connected \in BOOLEAN /\ held \in BOOLEAN
    /\ sent \in Seq(Messages) /\ packets \in Seq(Seq(Byte))

(* Where the scan looks.                                                   *)
LEMMA HeaderEndsAre ==
    ASSUME Typed, HeaderEnds # {}
    PROVE  /\ Min(HeaderEnds) \in HeaderEnds
           /\ Min(HeaderEnds) \in Nat
           /\ Recieving.Pos <= Min(HeaderEnds) /\ Min(HeaderEnds) + 4 <= Len(Recieving.Data)
           /\ \A q \in HeaderEnds : Min(HeaderEnds) <= q
  <1>1. \A q \in HeaderEnds : q \in Nat /\ Recieving.Pos <= q /\ q + 4 <= Len(Recieving.Data)
    BY DEF HeaderEnds, Typed
  <1>2. \E x \in HeaderEnds : \A y \in HeaderEnds : x <= y
    <2>1. HeaderEnds \in SUBSET Nat
      BY <1>1
    <2>2. QED
      BY <2>1, LeastNumber
  <1>3. Min(HeaderEnds) \in HeaderEnds /\ \A q \in HeaderEnds : Min(HeaderEnds) <= q
    BY <1>2 DEF Min
  <1>4. QED
    BY <1>1, <1>3

(* What a header announces.                                                *)
LEMMA ContentLengthIsNat ==
    ASSUME Typed, NEW p \in Nat, p <= Len(Recieving.Data)
    PROVE  ContentLength(p) \in Nat
  <1> DEFINE Data == Recieving.Data
             named == {x \in 1..p : Data[x].is = "Content-Length"}
  <1>1. Recieving.Content_Length \in Nat /\ Data \in Seq(Byte)
    BY DEF Typed
  <1>2. ASSUME named # {} PROVE Data[Min(named)].n \in Nat
    <2>1. named \in SUBSET Nat
      OBVIOUS
    <2>2. \E x \in named : \A y \in named : x <= y
      <3> HIDE DEF named
      <3>1. QED
        BY <1>2, <2>1, LeastNumber
    <2>3. Min(named) \in named
      BY <2>2 DEF Min
    <2>4. Min(named) \in 1..Len(Data)
      BY <1>1, <2>3
    <2> HIDE DEF Data, named
    <2>5. Data[Min(named)] \in Byte
      BY <1>1, <2>4
    <2>6. QED
      BY <2>5 DEF Byte
  <1>3. parse_http_stream_header(Data, p) = IF named = {} THEN 0 ELSE Data[Min(named)].n
    BY DEF parse_http_stream_header
  <1> HIDE DEF Data, named
  <1>4. parse_http_stream_header(Data, p) \in Nat
    BY <1>2, <1>3
  <1>5. QED
    BY <1>1, <1>4 DEF ContentLength, Data

(* What packet_recieved takes and what it leaves.                          *)
LEMMA PacketTaken ==
    ASSUME Typed, HeaderEnds # {}, ~BodyMissing(Min(HeaderEnds))
    PROVE  LET size == PacketSize(Min(HeaderEnds))
               Data == Recieving.Data
               Left == AfterPacket(Recieving, size)
           IN  /\ size \in 1..Len(Data) /\ size = Min(HeaderEnds) + ContentLength(Min(HeaderEnds)) + 4
               /\ SubSeq(Data, 1, size) \in Seq(Byte) /\ Len(SubSeq(Data, 1, size)) = size
               /\ \A x \in 1..size : SubSeq(Data, 1, size)[x] = Data[x]
               /\ Left \in [Data: Seq(Byte), Cap: Nat, Pos: Nat, Content_Length: Nat]
               /\ Left.Pos = 0 /\ Left.Cap = Recieving.Cap /\ Left.Content_Length = 0
               /\ Len(Left.Data) = Len(Data) - size
               /\ Left.Data # << >> => Left.Data[1] = [is |-> "A", n |-> 0]
               /\ \A x \in 2..Len(Data) - size : Left.Data[x] = Data[size + x]
  <1> DEFINE p == Min(HeaderEnds)
             size == PacketSize(p)
             Data == Recieving.Data
             rest == SubSeq(Data, size + 1, Len(Data))
             Left == AfterPacket(Recieving, size)
             A == [is |-> "A", n |-> 0]
             data == IF rest = << >> THEN rest ELSE [rest EXCEPT ![1] = A]
  <1>1. /\ Data \in Seq(Byte) /\ Recieving.Cap \in Nat /\ Len(Data) \in Nat
        /\ Recieving \in [Data: Seq(Byte), Cap: Nat, Pos: Nat, Content_Length: Nat]
    BY DEF Typed
  <1>2. p \in Nat /\ ContentLength(p) \in Nat /\ p + 4 <= Len(Data)
    BY HeaderEndsAre, ContentLengthIsNat
  <1>3. size \in 1..Len(Data) /\ size = p + ContentLength(p) + 4
    BY <1>1, <1>2 DEF PacketSize, BodyMissing
  <1>4. Left = [Recieving EXCEPT !.Pos = 0, !.Content_Length = 0, !.Data = data]
    BY DEF AfterPacket
  <1>5. A \in Byte
    BY DEF Byte
  <1> HIDE DEF p, size, A, Data
  <1>6. /\ SubSeq(Data, 1, size) \in Seq(Byte) /\ Len(SubSeq(Data, 1, size)) = size
        /\ \A x \in 1..size : SubSeq(Data, 1, size)[x] = Data[x]
    BY <1>1, <1>3
  <1>7. /\ rest \in Seq(Byte) /\ Len(rest) = Len(Data) - size
        /\ \A x \in 1..Len(Data) - size : rest[x] = Data[size + x]
    <2>1. PICK a \in Nat : a = size + 1
      BY <1>3
    <2>2. PICK b \in Nat : b = Len(Data)
      BY <1>1
    <2>3. a \in 1..b + 1
      BY <1>3, <2>1, <2>2
    <2>4. SubSeq(Data, a, b) \in Seq(Byte) /\ Len(SubSeq(Data, a, b)) = b - a + 1
      BY <1>1, <2>2, <2>3
    <2>5. \A x \in 1..b - a + 1 : SubSeq(Data, a, b)[x] = Data[a + x - 1]
      BY <1>1, <2>2, <2>3
    <2>6. rest = SubSeq(Data, a, b)
      BY <2>1, <2>2
    <2>7. b - a + 1 = Len(Data) - size
      BY <1>3, <2>1, <2>2
    <2>8. \A x \in Nat : a + x - 1 = size + x
      BY <1>3, <2>1
    <2> HIDE DEF rest
    <2>9. \A x \in 1..Len(Data) - size : rest[x] = Data[size + x]
      <3>1. \A x \in 1..b - a + 1 : a + x - 1 = size + x
        BY <2>8
      <3>2. QED
        BY <2>5, <2>6, <2>7, <3>1
    <2>10. QED
      BY <2>4, <2>6, <2>7, <2>9
  <1> HIDE DEF rest
  <1>8. /\ data \in Seq(Byte) /\ Len(data) = Len(rest)
        /\ data # << >> => data[1] = A
        /\ \A x \in 2..Len(rest) : data[x] = rest[x]
    <2>1. CASE rest = << >>
      BY <2>1
    <2>2. CASE rest # << >>
      <3>1. 1 \in 1..Len(rest)
        BY <1>7, <2>2
      <3>2. QED
        BY <1>5, <1>7, <2>2, <3>1
    <2>3. QED
      BY <2>1, <2>2
  <1> HIDE DEF data
  <1>9. /\ Left \in [Data: Seq(Byte), Cap: Nat, Pos: Nat, Content_Length: Nat]
        /\ Left.Pos = 0 /\ Left.Cap = Recieving.Cap /\ Left.Content_Length = 0 /\ Left.Data = data
    <2> DEFINE New == [Recieving EXCEPT !.Pos = 0, !.Content_Length = 0, !.Data = data]
    <2>1. New.Pos = 0 /\ New.Cap = Recieving.Cap /\ New.Content_Length = 0 /\ New.Data = data
      BY <1>1
    <2>2. New \in [Data: Seq(Byte), Cap: Nat, Pos: Nat, Content_Length: Nat]
      BY <1>1, <1>8
    <2> HIDE DEF New
    <2>3. Left = New
      BY <1>4 DEF New
    <2> HIDE DEF Left
    <2>4. QED
      BY <2>1, <2>2, <2>3
  <1> HIDE DEF Left
  <1>10. Len(Left.Data) = Len(Data) - size
    BY <1>7, <1>8, <1>9
  <1>11. Left.Data # << >> => Left.Data[1] = A
    BY <1>8, <1>9
  <1>12. \A x \in 2..Len(Data) - size : Left.Data[x] = Data[size + x]
    BY <1>3, <1>7, <1>8, <1>9
  <1>13. QED
    BY <1>3, <1>6, <1>9, <1>10, <1>11, <1>12 DEF Left, size, p, Data, A

(* A receiver whose stream is full makes room before it asks for more.     *)
LEMMA RecieveCapGrows ==
    ASSUME NEW Cap \in Nat, NEW Size \in Nat, Size <= Cap
    PROVE  RecieveCap(Cap, Size) \in Nat /\ RecieveCap(Cap, Size) > Size /\ RecieveCap(Cap, Size) >= Cap
    BY CapacityAssumption DEF RecieveCap

LEMMA TypedNext ==
    ASSUME Typed, [Next]_vars
    PROVE  Typed'
  <1> USE DEF Typed
  <1>1. CASE Hold \/ Release \/ UNCHANGED vars
    BY <1>1 DEF vars, stream, Hold, Release
  <1>2. ASSUME NEW m \in Messages, send_http_message(m)
        PROVE  Typed'
    <2> DEFINE k == Len(sent) + 1
    <2>1. k \in Nat
      OBVIOUS
    <2>2. Buffer(m, k) \in Seq(Byte)
      BY <2>1, BufferIsBytes
    <2>3. Sending' = http_stream_append_data(Sending, Buffer(m, k)) /\ sent' = Append(sent, m)
      BY <1>2 DEF send_http_message
    <2> HIDE DEF k
    <2>4. Len(Sending.Data) + Len(Buffer(m, k)) \in Nat
      BY <2>2
    <2>5. StreamGrow(Sending.Cap, Len(Sending.Data) + Len(Buffer(m, k))) \in Nat
      BY <2>4, StreamGrows
    <2>6. Sending' \in [Data: Seq(Byte), Cap: Nat]
      <3> DEFINE data == Sending.Data \o Buffer(m, k)
                 G == StreamGrow(Sending.Cap, Len(Sending.Data) + Len(Buffer(m, k)))
      <3>1. data \in Seq(Byte) /\ Sending \in [Data: Seq(Byte), Cap: Nat]
        BY <2>2
      <3>2. Sending' = [Sending EXCEPT !.Data = data, !.Cap = G]
        BY <2>3 DEF http_stream_append_data
      <3> HIDE DEF data, G, Typed
      <3>3. QED
        BY <2>5, <3>1, <3>2 DEF G
    <2>7. sent' \in Seq(Messages)
      BY <2>3
    <2>8. QED
      BY <1>2, <2>6, <2>7 DEF send_http_message
  <1>3. CASE send_http_step
    <2>1. PICK chunk \in 1..Len(Sending.Data) :
            /\ wire' = wire \o SubSeq(Sending.Data, 1, chunk)
            /\ Sending' = [Sending EXCEPT !.Data = Keep(@, chunk)]
      BY <1>3 DEF send_http_step
    <2>2. Sending.Data \in Seq(Byte) /\ chunk \in Nat /\ chunk <= Len(Sending.Data)
      OBVIOUS
    <2>3. SubSeq(Sending.Data, 1, chunk) \in Seq(Byte) /\ Keep(Sending.Data, chunk) \in Seq(Byte)
      BY <2>2 DEF Keep
    <2>4. Sending' \in [Data: Seq(Byte), Cap: Nat] /\ wire' \in Seq(Byte)
      <3> DEFINE data == Keep(Sending.Data, chunk)
                 part == SubSeq(Sending.Data, 1, chunk)
      <3>1. data \in Seq(Byte) /\ Sending \in [Data: Seq(Byte), Cap: Nat]
        BY <2>3
      <3>2. Sending' = [Sending EXCEPT !.Data = data]
        BY <2>1
      <3>3. wire' = wire \o part /\ wire \in Seq(Byte) /\ part \in Seq(Byte)
        BY <2>1, <2>3
      <3> HIDE DEF data, part, Typed
      <3>4. QED
        BY <3>1, <3>2, <3>3
    <2>5. QED
      BY <1>3, <2>4 DEF send_http_step
  <1>4. CASE Exit
    <2>1. wire' \in Seq(Byte)
      <3>1. << >> \in Seq(Byte) /\ wire \in Seq(Byte) /\ wire' \in {wire, << >>}
        BY <1>4 DEF Exit
      <3>2. QED
        BY <3>1
    <2>2. open' = FALSE /\ UNCHANGED <<Sending, Recieving, scanning, connected, held, sent, packets>>
      BY <1>4 DEF Exit
    <2>3. QED
      BY <2>1, <2>2
  <1>5. CASE recieve_http_step
    <2> DEFINE Cap  == RecieveCap(Recieving.Cap, Len(Recieving.Data))
               room == Cap - Len(Recieving.Data)
    <2>1. Cap \in Nat
      BY CapacityAssumption DEF RecieveCap
    <2>2. UNCHANGED <<Sending, open, held, sent, packets>>
      BY <1>5 DEF recieve_http_step
    <2>3. ASSUME NEW chunk \in 1..Len(wire),
                 Recieving' = [Recieving EXCEPT !.Cap = Cap, !.Data = @ \o SubSeq(wire, 1, chunk)],
                 wire' = SubSeq(wire, chunk + 1, Len(wire)), scanning' = TRUE, UNCHANGED connected
          PROVE  Typed'
      <3>1. /\ SubSeq(wire, 1, chunk) \in Seq(Byte) /\ wire' \in Seq(Byte)
            /\ Len(SubSeq(wire, 1, chunk)) = chunk
        <4>1. wire \in Seq(Byte) /\ chunk \in 0..Len(wire)
          BY DEF Typed
        <4>2. /\ SubSeq(wire, 1, chunk) \in Seq(Byte) /\ Len(SubSeq(wire, 1, chunk)) = chunk
              /\ SubSeq(wire, chunk + 1, Len(wire)) \in Seq(Byte)
          BY <4>1
        <4>3. QED
          BY <2>3, <4>2
      <3>2. /\ Recieving.Data \o SubSeq(wire, 1, chunk) \in Seq(Byte)
            /\ Len(Recieving.Data) <= Len(Recieving.Data \o SubSeq(wire, 1, chunk))
        BY <3>1
      <3> DEFINE data == Recieving.Data \o SubSeq(wire, 1, chunk)
      <3> HIDE DEF data, Cap
      <3>3. Recieving' = [Recieving EXCEPT !.Cap = Cap, !.Data = data]
        BY <2>3 DEF data
      <3>4. /\ Recieving' \in [Data: Seq(Byte), Cap: Nat, Pos: Nat, Content_Length: Nat]
            /\ Recieving'.Pos = Recieving.Pos /\ Recieving'.Data = data
        BY <2>1, <3>2, <3>3 DEF data
      <3>5. Recieving'.Pos <= Len(Recieving'.Data)
        BY <3>2, <3>4 DEF data
      <3>6. QED
        BY <2>2, <2>3, <3>1, <3>4, <3>5
    <2>4. ASSUME connected' = FALSE, UNCHANGED <<Recieving, wire, scanning>>
          PROVE  Typed'
      BY <2>2, <2>4
    <2>5. ASSUME Recieving' = [Recieving EXCEPT !.Cap = Cap], UNCHANGED <<wire, scanning, connected>>
          PROVE  Typed'
      <3> HIDE DEF Cap
      <3>1. QED
        BY <2>1, <2>2, <2>5
    <2> HIDE DEF Cap, room
    <2>6. QED
      BY <1>5, <2>3, <2>4, <2>5 DEF recieve_http_step, Cap, room
  <1>6. CASE AwaitHeader
    <2> DEFINE P == {Recieving.Pos, Len(Recieving.Data) - 3}
    <2>1. Max(P) \in Nat /\ Max(P) <= Len(Recieving.Data)
      <3>1. \E x \in P : \A y \in P : x >= y
        OBVIOUS
      <3>2. Max(P) \in P /\ \A y \in P : Max(P) >= y
        BY <3>1 DEF Max
      <3>3. QED
        BY <3>2
    <2> HIDE DEF P
    <2>2. Recieving' = [Recieving EXCEPT !.Pos = Max(P)]
      BY <1>6 DEF AwaitHeader, P
    <2>3. QED
      BY <1>6, <2>1, <2>2 DEF AwaitHeader
  <1>7. CASE AwaitBody
    <2> DEFINE p == Min(HeaderEnds)
    <2>1. p \in Nat /\ p + 4 <= Len(Recieving.Data)
      BY <1>7, HeaderEndsAre DEF AwaitBody
    <2>2. ContentLength(p) \in Nat
      BY <2>1, ContentLengthIsNat
    <2>3. Recieving' = [Recieving EXCEPT !.Pos = p, !.Content_Length = ContentLength(p)]
      BY <1>7 DEF AwaitBody
    <2> DEFINE c == ContentLength(p)
    <2>4. /\ scanning' = FALSE
          /\ UNCHANGED <<Sending, wire, open, connected, held, sent, packets>>
      BY <1>7 DEF AwaitBody
    <2> HIDE DEF p, c
    <2>5. /\ Recieving' \in [Data: Seq(Byte), Cap: Nat, Pos: Nat, Content_Length: Nat]
          /\ Recieving'.Pos = p /\ Recieving'.Data = Recieving.Data
      <3>1. Recieving \in [Data: Seq(Byte), Cap: Nat, Pos: Nat, Content_Length: Nat]
        OBVIOUS
      <3>2. c \in Nat /\ Recieving' = [Recieving EXCEPT !.Pos = p, !.Content_Length = c]
        BY <2>2, <2>3 DEF c
      <3> HIDE DEF Typed
      <3>3. QED
        BY <2>1, <3>1, <3>2
    <2>6. p <= Len(Recieving.Data)
      BY <2>1
    <2>7. QED
      BY <2>4, <2>5, <2>6
  <1>8. CASE packet_recieved
    <2> DEFINE p == Min(HeaderEnds)
               size == PacketSize(p)
    <2>1. HeaderEnds # {} /\ ~BodyMissing(p)
      BY <1>8 DEF packet_recieved
    <2>2. /\ packets' = Append(packets, SubSeq(Recieving.Data, 1, size))
          /\ Recieving' = AfterPacket(Recieving, size)
      BY <1>8 DEF packet_recieved
    <2>3. /\ AfterPacket(Recieving, size) \in [Data: Seq(Byte), Cap: Nat, Pos: Nat, Content_Length: Nat]
          /\ AfterPacket(Recieving, size).Pos = 0
          /\ SubSeq(Recieving.Data, 1, size) \in Seq(Byte)
      BY <2>1, PacketTaken
    <2> HIDE DEF size, p
    <2>4. /\ Recieving' \in [Data: Seq(Byte), Cap: Nat, Pos: Nat, Content_Length: Nat]
          /\ Recieving'.Pos = 0
      BY <2>2, <2>3
    <2>5. Recieving'.Pos <= Len(Recieving'.Data)
      BY <2>4
    <2>6. packets' \in Seq(Seq(Byte))
      BY <2>2, <2>3
    <2>7. UNCHANGED <<Sending, scanning, wire, open, connected, held, sent>>
      BY <1>8 DEF packet_recieved
    <2>8. QED
      BY <2>4, <2>5, <2>6, <2>7
  <1>9. QED
    BY <1>1, <1>2, <1>3, <1>4, <1>5, <1>6, <1>7, <1>8 DEF Next

LEMMA TypedInit == Init => Typed
  <1> SUFFICES ASSUME Init PROVE Typed
    OBVIOUS
  <1>1. << >> \in Seq(Byte) /\ << >> \in Seq(Messages) /\ << >> \in Seq(Seq(Byte)) /\ Len(<< >>) = 0
    OBVIOUS
  <1>2. Recieving.Data = << >> /\ Recieving.Pos = 0
    BY DEF Init
  <1>3. /\ Sending \in [Data: Seq(Byte), Cap: Nat]
        /\ Recieving \in [Data: Seq(Byte), Cap: Nat, Pos: Nat, Content_Length: Nat]
    BY <1>1 DEF Init
  <1>4. Recieving.Pos <= Len(Recieving.Data)
    BY <1>1, <1>2
  <1>5. /\ wire = << >> /\ sent = << >> /\ packets = << >>
        /\ scanning = FALSE /\ open = TRUE /\ connected = TRUE /\ held = FALSE
    BY DEF Init
  <1>6. QED
    BY <1>1, <1>3, <1>4, <1>5 DEF Typed

LEMMA TypedTypes == Typed => TypeOK
    BY DEF Typed, TypeOK

(* Every variable keeps its type: the scan never stands behind the data,   *)
(* and whatever is cut from a stream is bytes that were sent.              *)
THEOREM StreamTypeCorrect == Spec => []TypeOK
  <1>1. Spec => []Typed
    BY TypedInit, TypedNext, PTL DEF Spec
  <1>2. QED
    BY <1>1, TypedTypes, PTL

LEMMA FitNext ==
    ASSUME Typed, StreamsFit, [Next]_vars
    PROVE  StreamsFit'
  <1> USE DEF StreamsFit
  <1>1. CASE Hold \/ Release \/ UNCHANGED vars
    BY <1>1 DEF vars, stream, Hold, Release
  <1>2. ASSUME NEW m \in Messages, send_http_message(m)
        PROVE  StreamsFit'
    <2> DEFINE k == Len(sent) + 1
               B == Buffer(m, k)
    <2>1. k \in Nat
      BY DEF Typed
    <2>2. B \in Seq(Byte)
      BY <2>1, BufferIsBytes
    <2>3. Sending' = http_stream_append_data(Sending, B) /\ UNCHANGED Recieving
      BY <1>2 DEF send_http_message
    <2> HIDE DEF B
    <2>4. Sending.Data \in Seq(Byte) /\ Sending.Cap \in Nat /\ Sending \in [Data: Seq(Byte), Cap: Nat]
      BY DEF Typed
    <2> DEFINE need == Len(Sending.Data) + Len(B)
    <2>5. need \in Nat /\ Len(Sending.Data \o B) = need
      BY <2>2, <2>4
    <2>6. Sending'.Data = Sending.Data \o B /\ Sending'.Cap = StreamGrow(Sending.Cap, need)
      BY <2>3, <2>4 DEF http_stream_append_data
    <2> HIDE DEF need
    <2>7. StreamGrow(Sending.Cap, need) \in Nat /\ StreamGrow(Sending.Cap, need) > need
      BY <2>4, <2>5, StreamGrows
    <2>8. QED
      BY <2>3, <2>5, <2>6, <2>7
  <1>3. CASE send_http_step
    <2>1. PICK chunk \in 1..Len(Sending.Data) :
            Sending' = [Sending EXCEPT !.Data = Keep(@, chunk)]
      BY <1>3 DEF send_http_step
    <2>2. Sending.Data \in Seq(Byte) /\ Sending \in [Data: Seq(Byte), Cap: Nat]
      BY DEF Typed
    <2>3. Len(Keep(Sending.Data, chunk)) <= Len(Sending.Data)
      <3>1. PICK N \in Nat : N = Len(Sending.Data)
        BY <2>2
      <3>2. chunk + 1 \in 1..N + 1
        BY <3>1
      <3>3. Len(SubSeq(Sending.Data, chunk + 1, N)) = N - chunk
        BY <2>2, <3>1, <3>2
      <3>4. QED
        BY <3>1, <3>3 DEF Keep
    <2>4. Len(Keep(Sending.Data, chunk)) \in Nat /\ Len(Sending.Data) \in Nat
      BY <2>2 DEF Keep
    <2>5. Sending'.Data = Keep(Sending.Data, chunk) /\ Sending'.Cap = Sending.Cap
      BY <2>1, <2>2
    <2>6. UNCHANGED Recieving
      BY <1>3 DEF send_http_step
    <2>7. QED
      BY <2>2, <2>3, <2>4, <2>5, <2>6
  <1>4. CASE Exit
    BY <1>4 DEF Exit
  <1>5. CASE recieve_http_step
    <2> DEFINE Cap  == RecieveCap(Recieving.Cap, Len(Recieving.Data))
               room == Cap - Len(Recieving.Data)
    <2>0. /\ Recieving.Cap \in Nat /\ Recieving.Data \in Seq(Byte) /\ Len(Recieving.Data) \in Nat
          /\ Recieving \in [Data: Seq(Byte), Cap: Nat, Pos: Nat, Content_Length: Nat] /\ wire \in Seq(Byte)
      BY DEF Typed
    <2>1. Cap \in Nat /\ Cap > Len(Recieving.Data) /\ Cap >= Recieving.Cap
      BY <2>0, RecieveCapGrows
    <2>2. UNCHANGED Sending
      BY <1>5 DEF recieve_http_step
    <2>3. ASSUME NEW chunk \in 1..Len(wire), chunk <= room,
                 Recieving' = [Recieving EXCEPT !.Cap = Cap, !.Data = @ \o SubSeq(wire, 1, chunk)]
          PROVE  StreamsFit'
      <3> DEFINE data == Recieving.Data \o SubSeq(wire, 1, chunk)
      <3>1. SubSeq(wire, 1, chunk) \in Seq(Byte) /\ Len(SubSeq(wire, 1, chunk)) = chunk
        BY <2>0
      <3>2. Len(data) = Len(Recieving.Data) + chunk
        BY <2>0, <3>1
      <3> HIDE DEF data, Cap
      <3>3. Recieving'.Data = data /\ Recieving'.Cap = Cap
        BY <2>0, <2>3 DEF data
      <3>4. QED
        BY <2>0, <2>1, <2>2, <2>3, <3>2, <3>3
    <2>4. ASSUME UNCHANGED Recieving
          PROVE  StreamsFit'
      BY <2>2, <2>4
    <2>5. ASSUME Recieving' = [Recieving EXCEPT !.Cap = Cap]
          PROVE  StreamsFit'
      <3> HIDE DEF Cap
      <3>1. QED
        BY <2>0, <2>1, <2>2, <2>5
    <2> HIDE DEF Cap
    <2>6. QED
      BY <1>5, <2>3, <2>4, <2>5 DEF recieve_http_step, Cap
  <1>6. CASE AwaitHeader
    BY <1>6 DEF AwaitHeader, Typed
  <1>7. CASE AwaitBody
    BY <1>7 DEF AwaitBody, Typed
  <1>8. CASE packet_recieved
    <2> DEFINE p == Min(HeaderEnds)
               size == PacketSize(p)
    <2>1. HeaderEnds # {} /\ ~BodyMissing(p)
      BY <1>8 DEF packet_recieved
    <2>2. Recieving' = AfterPacket(Recieving, size) /\ UNCHANGED Sending
      BY <1>8 DEF packet_recieved
    <2>3. /\ AfterPacket(Recieving, size).Cap = Recieving.Cap
          /\ Len(AfterPacket(Recieving, size).Data) = Len(Recieving.Data) - size
          /\ size \in 1..Len(Recieving.Data)
      BY <2>1, PacketTaken
    <2>4. Recieving.Cap \in Nat /\ Len(Recieving.Data) \in Nat
      BY DEF Typed
    <2> HIDE DEF size
    <2>5. QED
      BY <2>2, <2>3, <2>4
  <1>9. QED
    BY <1>1, <1>2, <1>3, <1>4, <1>5, <1>6, <1>7, <1>8 DEF Next

LEMMA FitInit == Init => StreamsFit
  <1>1. Len(<< >>) = 0
    OBVIOUS
  <1>2. QED
    BY <1>1 DEF Init, StreamsFit

(* No stream is ever used past its capacity, whatever is appended: the     *)
(* sender's doubles until it has room, the receiver's is full at most.     *)
THEOREM StreamsAlwaysFit == Spec => []StreamsFit
  <1>1. Init => Typed /\ StreamsFit
    BY TypedInit, FitInit
  <1>2. Typed /\ StreamsFit /\ [Next]_vars => (Typed /\ StreamsFit)'
    BY TypedNext, FitNext
  <1>3. QED
    BY <1>1, <1>2, PTL DEF Spec

LEMMA HangsUpNext ==
    ASSUME Typed, StreamsFit, HangsUpLast, [Next]_vars
    PROVE  HangsUpLast'
  <1> USE DEF HangsUpLast
  <1>1. CASE Hold \/ Release \/ UNCHANGED vars
    BY <1>1 DEF vars, stream, Hold, Release
  <1>2. CASE \E m \in Messages : send_http_message(m)
    BY <1>2 DEF send_http_message
  <1>3. CASE send_http_step
    BY <1>3 DEF send_http_step, SenderRuns
  <1>4. CASE Exit
    BY <1>4 DEF Exit
  <1>5. CASE recieve_http_step
    <2>1. /\ Recieving.Cap \in Nat /\ Len(Recieving.Data) \in Nat
      BY DEF Typed
    <2>2. /\ RecieveCap(Recieving.Cap, Len(Recieving.Data)) \in Nat
          /\ RecieveCap(Recieving.Cap, Len(Recieving.Data)) > Len(Recieving.Data)
      BY <2>1, RecieveCapGrows DEF StreamsFit
    <2>3. RecieveCap(Recieving.Cap, Len(Recieving.Data)) - Len(Recieving.Data) # 0
      BY <2>1, <2>2
    <2>4. connected = TRUE /\ UNCHANGED open
      BY <1>5 DEF recieve_http_step, Typed, RecieverRuns
    <2>5. UNCHANGED connected \/ (wire = << >> /\ ~open /\ UNCHANGED wire)
      BY <1>5, <2>3 DEF recieve_http_step
    <2>6. QED
      BY <2>4, <2>5
  <1>6. CASE AwaitHeader \/ AwaitBody \/ packet_recieved
    BY <1>6 DEF AwaitHeader, AwaitBody, packet_recieved
  <1>7. QED
    BY <1>1, <1>2, <1>3, <1>4, <1>5, <1>6 DEF Next

(* The receiver frees the connection only when the other process is gone   *)
(* and recv has returned all there is: it is never asked for no bytes.     *)
THEOREM AlwaysHangsUpLast == Spec => []HangsUpLast
  <1>1. Init => Typed /\ StreamsFit /\ HangsUpLast
    BY TypedInit, FitInit DEF Init, HangsUpLast
  <1>2. Typed /\ StreamsFit /\ HangsUpLast /\ [Next]_vars => (Typed /\ StreamsFit /\ HangsUpLast)'
    BY TypedNext, FitNext, HangsUpNext
  <1>3. QED
    BY <1>1, <1>2, PTL DEF Spec

-----------------------------------------------------------------------------
(* Sequences.                                                              *)

(* A sequence cut in two.                                                  *)
LEMMA CutIs ==
    ASSUME NEW S, NEW s \in Seq(S), NEW n \in 0..Len(s)
    PROVE  LET t == SubSeq(s, n + 1, Len(s))
           IN  /\ SubSeq(s, 1, n) \in Seq(S) /\ Len(SubSeq(s, 1, n)) = n
               /\ \A x \in 1..n : SubSeq(s, 1, n)[x] = s[x]
               /\ t \in Seq(S) /\ Len(t) = Len(s) - n
               /\ \A x \in 1..Len(s) - n : t[x] = s[n + x]
               /\ SubSeq(s, 1, n) \o t = s
  <1>1. PICK N \in Nat : N = Len(s)
    OBVIOUS
  <1>0. n \in Nat /\ n <= N
    BY <1>1
  <1> DEFINE h == SubSeq(s, 1, n)
             t == SubSeq(s, n + 1, N)
  <1>2. /\ h \in Seq(S) /\ Len(h) = n /\ \A x \in 1..n : h[x] = s[x]
    BY <1>1
  <1>3. n + 1 \in 1..N + 1
    BY <1>1
  <1>4. t \in Seq(S) /\ Len(t) = N - n
    BY <1>1, <1>3
  <1>5. \A x \in 1..N - n : t[x] = s[n + x]
    BY <1>1, <1>3
  <1> HIDE DEF h, t
  <1>6. h \o t = s
    <2>0. h \o t \in Seq(S) /\ Len(h \o t) = Len(h) + Len(t)
      BY <1>2, <1>4, ConcatIs
    <2>1. h \o t \in Seq(S) /\ Len(h \o t) = N
      BY <1>0, <1>2, <1>4, <2>0
    <2>2. ASSUME NEW x \in 1..N PROVE (h \o t)[x] = s[x]
      <3>1. CASE x <= n
        <4>1. x \in 1..Len(h)
          BY <1>2, <3>1
        <4>2. QED
          BY <1>2, <1>4, <4>1, ConcatIs
      <3>2. CASE x > n
        <4>1. x - n \in 1..Len(t) /\ x = Len(h) + (x - n)
          BY <1>1, <1>2, <1>4, <3>2
        <4>2. (h \o t)[Len(h) + (x - n)] = t[x - n]
          BY <1>2, <1>4, <4>1, ConcatIs
        <4>3. t[x - n] = s[x]
          BY <1>4, <1>5, <4>1
        <4>4. QED
          BY <4>1, <4>2, <4>3
      <3>3. x \in Nat
        BY <1>1
      <3>4. x <= n \/ x > n
        BY <1>0, <3>3
      <3>5. QED
        BY <3>1, <3>2, <3>4
    <2>3. Len(h \o t) = Len(s)
      BY <1>1, <2>1
    <2> DEFINE ht == h \o t
    <2> HIDE DEF ht
    <2>4. ht \in Seq(S) /\ Len(ht) = Len(s) /\ \A x \in 1..Len(s) : ht[x] = s[x]
      BY <1>1, <2>1, <2>2, <2>3 DEF ht
    <2>5. ht = s
      BY <2>4, SeqEqual
    <2>6. QED
      BY <2>5 DEF ht
  <1>7. QED
    BY <1>1, <1>2, <1>4, <1>5, <1>6 DEF h, t

-----------------------------------------------------------------------------
(* What is sent.                                                           *)

(* What the first k of the messages s are written as.                      *)
Text(s, k) == FlattenSeq([j \in 1..k |-> Buffer(s[j], j)])

(* The text is laid down message by message and never changed.             *)
LaidDown(s) ==
    \A k \in 0..Len(s) :
        /\ Text(s, k) \in Seq(Byte)
        /\ Len(Text(s, k)) <= Len(Text(s, Len(s)))
        /\ \A x \in 1..Len(Text(s, k)) : Text(s, Len(s))[x] = Text(s, k)[x]
        /\ k # 0 => Text(s, k) = Text(s, k - 1) \o Buffer(s[k], k)

LEMMA LaidEmpty == LaidDown(<< >>) /\ Text(<< >>, 0) = << >>
  <1> DEFINE s == << >>
  <1>1. [j \in 1..0 |-> Buffer(s[j], j)] = << >>
    OBVIOUS
  <1>2. Text(s, 0) = s
    BY <1>1, FlattenEmpty DEF Text
  <1>3. Len(s) = 0 /\ s \in Seq(Byte)
    OBVIOUS
  <1> HIDE DEF s
  <1>4. ASSUME NEW k \in 0..Len(s) PROVE k = 0
    BY <1>3
  <1>5. /\ Text(s, 0) \in Seq(Byte)
        /\ Len(Text(s, 0)) <= Len(Text(s, Len(s)))
        /\ \A x \in 1..Len(Text(s, 0)) : Text(s, Len(s))[x] = Text(s, 0)[x]
    <2>1. Text(s, Len(s)) = s
      BY <1>2, <1>3
    <2>2. Len(s) <= Len(s)
      BY <1>3
    <2>3. QED
      BY <1>2, <1>3, <2>1, <2>2
  <1>6. LaidDown(s)
    BY <1>4, <1>5 DEF LaidDown
  <1>7. QED
    BY <1>2, <1>6 DEF s

(* One more message lays its text behind the rest.                         *)
LEMMA LaidAppend ==
    ASSUME NEW s \in Seq(Messages), LaidDown(s), NEW m \in Messages,
           NEW n \in Nat, n = Len(s)
    PROVE  LET t == Append(s, m)
           IN  /\ LaidDown(t)
               /\ \A k \in 0..n : Text(t, k) = Text(s, k)
               /\ Text(t, n + 1) = Text(s, n) \o Buffer(m, n + 1)
               /\ Text(s, n) \in Seq(Byte)
  <1> DEFINE t == Append(s, m)
             B == [j \in 1..n |-> Buffer(s[j], j)]
             C == [j \in 1..n + 1 |-> Buffer(t[j], j)]
             b == Buffer(m, n + 1)
  <1>1. /\ Len(t) = n + 1 /\ t[n + 1] = m
        /\ \A k \in 1..n : t[k] = s[k]
    OBVIOUS
  <1>2. b \in Seq(Byte)
    <2>1. n + 1 \in Nat
      OBVIOUS
    <2>2. QED
      BY <2>1, BufferIsBytes
  <1> HIDE DEF t
  <1>3. ASSUME NEW k \in 0..n PROVE Text(t, k) = Text(s, k)
    <2>1. \A j \in 1..k : t[j] = s[j]
      BY <1>1
    <2>2. [j \in 1..k |-> Buffer(t[j], j)] = [j \in 1..k |-> Buffer(s[j], j)]
      BY <2>1
    <2>3. QED
      BY <2>2 DEF Text
  <1>4. ASSUME NEW j \in 1..n PROVE Buffer(s[j], j) \in Seq(Byte)
    <2>1. s[j] \in Messages /\ j \in Nat
      OBVIOUS
    <2>2. QED
      BY <2>1, BufferIsBytes
  <1>5. B \in Seq(Seq(Byte)) /\ Len(B) = n /\ \A j \in 1..n : B[j] = Buffer(s[j], j)
    BY <1>4
  <1>6. \A j \in 1..n : C[j] = Buffer(s[j], j)
    BY <1>1
  <1>7. C[n + 1] = b /\ DOMAIN C = 1..n + 1 /\ C = [j \in 1..n + 1 |-> C[j]]
    BY <1>1
  <1> HIDE DEF B, C, b
  <1>8. C = Append(B, b)
    <2> DEFINE A == Append(B, b)
    <2>1. /\ A \in Seq(Seq(Byte)) /\ Len(A) = n + 1 /\ A[n + 1] = b
          /\ \A j \in 1..n : A[j] = B[j]
      BY <1>2, <1>5
    <2> HIDE DEF A
    <2>2. \A j \in 1..n + 1 : C[j] = A[j]
      <3>1. ASSUME NEW j \in 1..n + 1 PROVE C[j] = A[j]
        <4>1. j \in 1..n \/ j = n + 1
          OBVIOUS
        <4>2. QED
          BY <1>5, <1>6, <1>7, <2>1, <4>1
      <3>2. QED
        BY <3>1
    <2>3. A = [j \in 1..n + 1 |-> A[j]]
      BY <2>1
    <2>4. C = A
      BY <1>7, <2>2, <2>3
    <2>5. QED
      BY <2>4 DEF A
  <1>9. Text(s, n) = FlattenSeq(B)
    BY DEF Text, B
  <1>10. Text(s, n) \in Seq(Byte)
    BY DEF LaidDown
  <1>11. FlattenSeq(C) = FlattenSeq(B) \o b
    BY <1>2, <1>5, <1>8, <1>9, <1>10, FlattenAppend
  <1>12. Text(t, n + 1) = FlattenSeq(C)
    BY DEF Text, C
  <1>13. Text(t, n + 1) = Text(s, n) \o b
    BY <1>9, <1>11, <1>12
  <1>14. /\ Text(t, n + 1) \in Seq(Byte) /\ Len(Text(t, n + 1)) = Len(Text(s, n)) + Len(b)
         /\ \A x \in 1..Len(Text(s, n)) : Text(t, n + 1)[x] = Text(s, n)[x]
    <2> DEFINE T == Text(s, n)
    <2> HIDE DEF T
    <2>1. T \in Seq(Byte)
      BY <1>10 DEF T
    <2>2. /\ T \o b \in Seq(Byte) /\ Len(T \o b) = Len(T) + Len(b)
          /\ \A x \in 1..Len(T) : (T \o b)[x] = T[x]
      BY <1>2, <2>1, ConcatIs
    <2>3. QED
      BY <1>13, <2>2 DEF T
  <1>15. LaidDown(t)
    <2>1. ASSUME NEW k \in 0..n
          PROVE  /\ Text(t, k) \in Seq(Byte)
                 /\ Len(Text(t, k)) <= Len(Text(t, n + 1))
                 /\ \A x \in 1..Len(Text(t, k)) : Text(t, n + 1)[x] = Text(t, k)[x]
                 /\ k # 0 => Text(t, k) = Text(t, k - 1) \o Buffer(t[k], k)
      <3>1. /\ Text(s, k) \in Seq(Byte) /\ Len(Text(s, k)) <= Len(Text(s, n))
            /\ \A x \in 1..Len(Text(s, k)) : Text(s, n)[x] = Text(s, k)[x]
            /\ k # 0 => Text(s, k) = Text(s, k - 1) \o Buffer(s[k], k)
        BY DEF LaidDown
      <3>2. Text(t, k) = Text(s, k)
        BY <1>3
      <3>3. Len(Text(s, k)) \in Nat /\ Len(Text(s, n)) \in Nat /\ Len(b) \in Nat
        BY <1>2, <1>10, <3>1
      <3>4. Len(Text(t, k)) <= Len(Text(t, n + 1))
        BY <1>14, <3>1, <3>2, <3>3
      <3>5. ASSUME NEW x \in 1..Len(Text(t, k)) PROVE Text(t, n + 1)[x] = Text(t, k)[x]
        <4>1. x \in 1..Len(Text(s, k)) /\ x \in 1..Len(Text(s, n))
          BY <3>1, <3>2, <3>3
        <4>2. QED
          BY <1>14, <3>1, <3>2, <4>1
      <3>6. k # 0 => k - 1 \in 0..n /\ k \in 1..n
        OBVIOUS
      <3>7. k # 0 => Text(t, k) = Text(t, k - 1) \o Buffer(t[k], k)
        BY <1>1, <1>3, <3>1, <3>6
      <3>8. QED
        BY <3>1, <3>2, <3>4, <3>5, <3>7
    <2>2. ASSUME NEW k \in 0..n + 1
          PROVE  /\ Text(t, k) \in Seq(Byte)
                 /\ Len(Text(t, k)) <= Len(Text(t, n + 1))
                 /\ \A x \in 1..Len(Text(t, k)) : Text(t, n + 1)[x] = Text(t, k)[x]
                 /\ k # 0 => Text(t, k) = Text(t, k - 1) \o Buffer(t[k], k)
      <3>1. CASE k \in 0..n
        BY <2>1, <3>1
      <3>2. CASE k = n + 1
        <4>1. k - 1 = n /\ n \in 0..n
          BY <3>2
        <4>2. Len(Text(t, n + 1)) \in Nat
          BY <1>14
        <4>3. Text(t, n + 1) = Text(t, n) \o Buffer(t[n + 1], n + 1)
          BY <1>1, <1>3, <1>13, <4>1 DEF b
        <4>4. QED
          BY <1>14, <3>2, <4>1, <4>2, <4>3
      <3>3. QED
        BY <3>1, <3>2
    <2>3. QED
      BY <1>1, <2>2 DEF LaidDown
  <1>16. QED
    BY <1>3, <1>10, <1>13, <1>15 DEF t, b

LEMMA LaidNext ==
    ASSUME Typed, LaidDown(sent), [Next]_vars
    PROVE  LaidDown(sent)'
  <1>1. CASE \E m \in Messages : send_http_message(m)
    <2>1. PICK m \in Messages : sent' = Append(sent, m)
      BY <1>1 DEF send_http_message
    <2>2. PICK n \in Nat : n = Len(sent)
      BY DEF Typed
    <2>3. sent \in Seq(Messages)
      BY DEF Typed
    <2>4. QED
      BY <2>1, <2>2, <2>3, LaidAppend
  <1>2. CASE UNCHANGED sent
    BY <1>2
  <1>3. QED
    BY <1>1, <1>2 DEF Next, vars, stream, Hold, Release, send_http_step, Exit, recieve_http_step,
                      AwaitHeader, AwaitBody, packet_recieved

-----------------------------------------------------------------------------
(* The bytes on their way.                                                 *)

LEMMA ConcatAt ==
    ASSUME NEW S, NEW s \in Seq(S), NEW t \in Seq(S), NEW x \in 1..Len(s) + Len(t)
    PROVE  (s \o t)[x] = IF x <= Len(s) THEN s[x] ELSE t[x - Len(s)]
    BY ConcatProperties

(* Concatenation by another name, of which the provers know only what the  *)
(* following lemma says.                                                   *)
Join(s, t) == s \o t

LEMMA JoinIs ==
    /\ \A s, t \in Seq(Byte) : Join(s, t) \in Seq(Byte)
    /\ \A s, t, u \in Seq(Byte) : Join(Join(s, t), u) = Join(s, Join(t, u))
  <1>1. ASSUME NEW s \in Seq(Byte), NEW t \in Seq(Byte) PROVE Join(s, t) \in Seq(Byte)
    BY DEF Join
  <1>2. ASSUME NEW s \in Seq(Byte), NEW t \in Seq(Byte), NEW u \in Seq(Byte)
        PROVE  Join(Join(s, t), u) = Join(s, Join(t, u))
    BY ConcatAssociative DEF Join
  <1>3. QED
    BY <1>1, <1>2

(* The bytes that are not lost: in packets, in the receiver's stream,      *)
(* between the processes and in the sender's stream.                       *)
Stream(F, R, W, D) == Join(Join(Join(F, R), W), D)

LEMMA StreamIsConcat ==
    \A F, R, W, D : Stream(F, R, W, D) = F \o R \o W \o D
    BY DEF Stream, Join

(* Bytes that move from one part to the next stay where they are in it.    *)
LEMMA StreamMoves ==
    /\ \A F, R, W, D \in Seq(Byte) : Stream(F, R, W, D) \in Seq(Byte)
    /\ \A F, R, W, D, b \in Seq(Byte) : Stream(F, R, W, Join(D, b)) = Join(Stream(F, R, W, D), b)
    /\ \A F, R, W, D, b \in Seq(Byte) : Stream(F, R, Join(W, b), D) = Stream(F, R, W, Join(b, D))
    /\ \A F, R, W, D, b \in Seq(Byte) : Stream(F, Join(R, b), W, D) = Stream(F, R, Join(b, W), D)
    /\ \A F, R, W, D, b \in Seq(Byte) : Stream(Join(F, b), R, W, D) = Stream(F, Join(b, R), W, D)
  <1>1. ASSUME NEW F \in Seq(Byte), NEW R \in Seq(Byte), NEW W \in Seq(Byte), NEW D \in Seq(Byte)
        PROVE  Stream(F, R, W, D) \in Seq(Byte)
    <2> DEFINE X == Join(F, R)
               Y == Join(X, W)
    <2>1. X \in Seq(Byte)
      BY JoinIs
    <2>2. Y \in Seq(Byte)
      <3> HIDE DEF X
      <3>1. QED
        BY <2>1, JoinIs
    <2>3. Stream(F, R, W, D) = Join(Y, D)
      BY DEF Stream
    <2> HIDE DEF Y
    <2>4. QED
      BY <2>2, <2>3, JoinIs
  <1>2. ASSUME NEW F \in Seq(Byte), NEW R \in Seq(Byte), NEW W \in Seq(Byte), NEW D \in Seq(Byte),
               NEW b \in Seq(Byte)
        PROVE  Stream(F, R, W, Join(D, b)) = Join(Stream(F, R, W, D), b)
    <2> DEFINE X == Join(F, R)
               Y == Join(X, W)
    <2>1. X \in Seq(Byte)
      BY JoinIs
    <2>2. Y \in Seq(Byte)
      <3> HIDE DEF X
      <3>1. QED
        BY <2>1, JoinIs
    <2>3. Stream(F, R, W, D) = Join(Y, D) /\ Stream(F, R, W, Join(D, b)) = Join(Y, Join(D, b))
      BY DEF Stream
    <2> HIDE DEF Y
    <2>4. Join(Join(Y, D), b) = Join(Y, Join(D, b))
      BY <2>2, JoinIs
    <2>5. QED
      BY <2>3, <2>4
  <1>3. ASSUME NEW F \in Seq(Byte), NEW R \in Seq(Byte), NEW W \in Seq(Byte), NEW D \in Seq(Byte),
               NEW b \in Seq(Byte)
        PROVE  Stream(F, R, Join(W, b), D) = Stream(F, R, W, Join(b, D))
    <2> DEFINE X == Join(F, R)
               Y == Join(X, W)
    <2>1. X \in Seq(Byte)
      BY JoinIs
    <2>2. Y \in Seq(Byte)
      <3> HIDE DEF X
      <3>1. QED
        BY <2>1, JoinIs
    <2>3. /\ Stream(F, R, Join(W, b), D) = Join(Join(X, Join(W, b)), D)
          /\ Stream(F, R, W, Join(b, D)) = Join(Y, Join(b, D))
      BY DEF Stream
    <2>4. Join(X, Join(W, b)) = Join(Y, b)
      <3> HIDE DEF X
      <3>1. QED
        BY <2>1, JoinIs
    <2> HIDE DEF Y, X
    <2>5. Join(Join(Y, b), D) = Join(Y, Join(b, D))
      BY <2>2, JoinIs
    <2>6. QED
      BY <2>3, <2>4, <2>5
  <1>4. ASSUME NEW F \in Seq(Byte), NEW R \in Seq(Byte), NEW W \in Seq(Byte), NEW D \in Seq(Byte),
               NEW b \in Seq(Byte)
        PROVE  Stream(F, Join(R, b), W, D) = Stream(F, R, Join(b, W), D)
    <2> DEFINE X == Join(F, R)
    <2>1. X \in Seq(Byte)
      BY JoinIs
    <2>2. /\ Stream(F, Join(R, b), W, D) = Join(Join(Join(F, Join(R, b)), W), D)
          /\ Stream(F, R, Join(b, W), D) = Join(Join(X, Join(b, W)), D)
      BY DEF Stream
    <2>3. Join(F, Join(R, b)) = Join(X, b)
      BY JoinIs
    <2> HIDE DEF X
    <2>4. Join(Join(X, b), W) = Join(X, Join(b, W))
      BY <2>1, JoinIs
    <2>5. QED
      BY <2>2, <2>3, <2>4
  <1>5. ASSUME NEW F \in Seq(Byte), NEW R \in Seq(Byte), NEW W \in Seq(Byte), NEW D \in Seq(Byte),
               NEW b \in Seq(Byte)
        PROVE  Stream(Join(F, b), R, W, D) = Stream(F, Join(b, R), W, D)
    <2>1. Join(Join(F, b), R) = Join(F, Join(b, R))
      BY JoinIs
    <2>2. QED
      BY <2>1 DEF Stream
  <1>6. QED
    BY <1>1, <1>2, <1>3, <1>4, <1>5

(* One sequence as far as another goes.                                    *)
Begins(s, t) == Len(s) <= Len(t) /\ \A x \in 1..Len(s) : s[x] = t[x]

LEMMA BeginsConcat ==
    ASSUME NEW s \in Seq(Byte), NEW t \in Seq(Byte)
    PROVE  s \o t \in Seq(Byte) /\ Begins(s, s \o t)
  <1>1. /\ s \o t \in Seq(Byte) /\ Len(s \o t) = Len(s) + Len(t)
        /\ \A x \in 1..Len(s) : (s \o t)[x] = s[x]
    BY ConcatIs
  <1> DEFINE st == s \o t
  <1> HIDE DEF st
  <1>2. /\ st \in Seq(Byte) /\ Len(st) = Len(s) + Len(t)
        /\ \A x \in 1..Len(s) : st[x] = s[x]
    BY <1>1 DEF st
  <1>3. Len(s) \in Nat /\ Len(t) \in Nat
    OBVIOUS
  <1>4. Begins(s, st)
    BY <1>2, <1>3 DEF Begins
  <1>5. QED
    BY <1>2, <1>4 DEF st

LEMMA BeginsTrans ==
    ASSUME NEW s \in Seq(Byte), NEW t \in Seq(Byte), NEW u \in Seq(Byte),
           Begins(s, t), Begins(t, u)
    PROVE  Begins(s, u)
    BY DEF Begins

(* The receiver's stream is behind the packets, and what is in both is     *)
(* there also when the rest is lost.                                       *)
LEMMA StreamBegins ==
    ASSUME NEW F \in Seq(Byte), NEW R \in Seq(Byte), NEW W \in Seq(Byte), NEW D \in Seq(Byte)
    PROVE  /\ F \o R \in Seq(Byte) /\ Begins(F \o R, Stream(F, R, W, D))
           /\ Stream(F, R, W, << >>) \in Seq(Byte) /\ Begins(Stream(F, R, W, << >>), Stream(F, R, W, D))
           /\ Stream(F, R, << >>, << >>) \in Seq(Byte)
           /\ Begins(Stream(F, R, << >>, << >>), Stream(F, R, W, D))
  <1> DEFINE X == F \o R
             Y == X \o W
             Z == Y \o D
  <1>1. X \in Seq(Byte)
    BY ConcatIs
  <1>2. Z = Stream(F, R, W, D)
    BY StreamIsConcat
  <1>3. Stream(F, R, W, << >>) = Y \o << >> /\ Stream(F, R, << >>, << >>) = (X \o << >>) \o << >>
    BY StreamIsConcat
  <1> HIDE DEF X
  <1>4. Y \in Seq(Byte) /\ Begins(X, Y)
    BY <1>1, BeginsConcat
  <1> HIDE DEF Y
  <1>5. Z \in Seq(Byte) /\ Begins(Y, Z)
    BY <1>4, BeginsConcat
  <1> HIDE DEF Z
  <1>6. Begins(X, Z)
    BY <1>1, <1>4, <1>5, BeginsTrans
  <1>7. Y \o << >> = Y /\ X \o << >> = X
    BY <1>1, <1>4, ConcatEmptySeq
  <1>8. Stream(F, R, W, << >>) = Y /\ Stream(F, R, << >>, << >>) = X
    BY <1>3, <1>7
  <1>9. QED
    BY <1>1, <1>2, <1>4, <1>5, <1>6, <1>8 DEF X

(* Equal, or a certain value where they are not.                           *)
Alike(s, t, v) == Len(s) = Len(t) /\ \A x \in 1..Len(s) : s[x] = t[x] \/ s[x] = v

LEMMA AlikeConcat ==
    ASSUME NEW s \in Seq(Byte), NEW t \in Seq(Byte), NEW r \in Seq(Byte), NEW v, Alike(s, t, v)
    PROVE  Alike(r \o s, r \o t, v) /\ Alike(s \o r, t \o r, v)
  <1>1. /\ Len(s) \in Nat /\ Len(r) \in Nat /\ Len(t) = Len(s)
        /\ \A x \in 1..Len(s) : s[x] = t[x] \/ s[x] = v
    BY DEF Alike
  <1> DEFINE rs == r \o s
             rt == r \o t
             sr == s \o r
             tr == t \o r
  <1>2. /\ Len(rs) = Len(r) + Len(s) /\ Len(rt) = Len(r) + Len(s)
        /\ Len(sr) = Len(r) + Len(s) /\ Len(tr) = Len(r) + Len(s)
    BY <1>1
  <1>3. ASSUME NEW x \in 1..Len(r) + Len(s)
        PROVE  /\ rs[x] = IF x <= Len(r) THEN r[x] ELSE s[x - Len(r)]
               /\ rt[x] = IF x <= Len(r) THEN r[x] ELSE t[x - Len(r)]
               /\ sr[x] = IF x <= Len(s) THEN s[x] ELSE r[x - Len(s)]
               /\ tr[x] = IF x <= Len(s) THEN t[x] ELSE r[x - Len(s)]
    BY <1>1, ConcatAt
  <1> HIDE DEF rs, rt, sr, tr
  <1>4. ASSUME NEW x \in 1..Len(r) + Len(s)
        PROVE  rs[x] = rt[x] \/ rs[x] = v
    <2>1. x <= Len(r) \/ x - Len(r) \in 1..Len(s)
      BY <1>1
    <2>2. QED
      BY <1>1, <1>3, <2>1
  <1>5. ASSUME NEW x \in 1..Len(r) + Len(s)
        PROVE  sr[x] = tr[x] \/ sr[x] = v
    <2>1. x \in 1..Len(s) \/ ~(x <= Len(s))
      BY <1>1
    <2>2. QED
      BY <1>1, <1>3, <2>1
  <1>6. QED
    BY <1>2, <1>4, <1>5 DEF Alike, rs, rt, sr, tr

LEMMA StreamAlike ==
    ASSUME NEW F \in Seq(Byte), NEW R \in Seq(Byte), NEW W \in Seq(Byte), NEW D \in Seq(Byte),
           NEW Q \in Seq(Byte), NEW v, Alike(Q, R, v)
    PROVE  Stream(F, Q, W, D) \in Seq(Byte) /\ Alike(Stream(F, Q, W, D), Stream(F, R, W, D), v)
  <1> DEFINE X == F \o R
             X1 == F \o Q
             Y == X \o W
             Y1 == X1 \o W
  <1>1. X \in Seq(Byte) /\ X1 \in Seq(Byte)
    BY ConcatIs
  <1>2. Alike(X1, X, v)
    BY AlikeConcat
  <1>3. Stream(F, Q, W, D) = Y1 \o D /\ Stream(F, R, W, D) = Y \o D
    BY StreamIsConcat
  <1> HIDE DEF X, X1
  <1>4. Y \in Seq(Byte) /\ Y1 \in Seq(Byte)
    BY <1>1, ConcatIs
  <1>5. Alike(Y1, Y, v)
    BY <1>1, <1>2, AlikeConcat
  <1> HIDE DEF Y, Y1
  <1>6. Alike(Y1 \o D, Y \o D, v) /\ Y1 \o D \in Seq(Byte)
    BY <1>4, <1>5, AlikeConcat, ConcatIs
  <1>7. QED
    BY <1>3, <1>6

-----------------------------------------------------------------------------
(* What each step does to the data.                                        *)

LEMMA SendShape ==
    ASSUME Typed, NEW m \in Messages, send_http_message(m), NEW n \in Nat, n = Len(sent)
    PROVE  /\ open = TRUE /\ sent' = Append(sent, m)
           /\ Sending'.Data = Sending.Data \o Buffer(m, n + 1)
           /\ UNCHANGED <<Recieving, scanning, wire, open, connected, packets>>
  <1>1. Sending \in [Data: Seq(Byte), Cap: Nat]
    BY DEF Typed
  <1>2. Sending' = http_stream_append_data(Sending, Buffer(m, n + 1))
    BY DEF send_http_message
  <1>3. Sending'.Data = Sending.Data \o Buffer(m, n + 1)
    BY <1>1, <1>2 DEF http_stream_append_data
  <1>4. open = TRUE
    BY DEF send_http_message, Typed, SenderRuns
  <1>5. QED
    BY <1>3, <1>4 DEF send_http_message

LEMMA SendStepShape ==
    ASSUME Typed, send_http_step
    PROVE  /\ open = TRUE /\ UNCHANGED <<Recieving, scanning, open, connected, sent, packets>>
           /\ \E chunk \in 0..Len(Sending.Data) :
                /\ wire' = wire \o SubSeq(Sending.Data, 1, chunk)
                /\ Sending'.Data = SubSeq(Sending.Data, chunk + 1, Len(Sending.Data))
  <1>1. Sending \in [Data: Seq(Byte), Cap: Nat]
    BY DEF Typed
  <1>2. PICK chunk \in 1..Len(Sending.Data) :
            /\ wire' = wire \o SubSeq(Sending.Data, 1, chunk)
            /\ Sending' = [Sending EXCEPT !.Data = Keep(@, chunk)]
    BY DEF send_http_step
  <1>3. Sending'.Data = SubSeq(Sending.Data, chunk + 1, Len(Sending.Data))
    BY <1>1, <1>2 DEF Keep
  <1>4. chunk \in 0..Len(Sending.Data)
    BY <1>1
  <1>5. open = TRUE
    BY DEF send_http_step, Typed, SenderRuns
  <1>6. QED
    BY <1>2, <1>3, <1>4, <1>5 DEF send_http_step

LEMMA RecieveShape ==
    ASSUME Typed, recieve_http_step
    PROVE  /\ ~scanning /\ UNCHANGED <<Sending, open, sent, packets>>
           /\ Recieving'.Pos = Recieving.Pos /\ Recieving'.Content_Length = Recieving.Content_Length
           /\ \/ UNCHANGED wire /\ Recieving'.Data = Recieving.Data
              \/ \E chunk \in 0..Len(wire) :
                    /\ Recieving'.Data = Recieving.Data \o SubSeq(wire, 1, chunk)
                    /\ wire' = SubSeq(wire, chunk + 1, Len(wire))
  <1> DEFINE Cap == RecieveCap(Recieving.Cap, Len(Recieving.Data))
  <1>1. /\ Recieving \in [Data: Seq(Byte), Cap: Nat, Pos: Nat, Content_Length: Nat]
        /\ wire \in Seq(Byte)
    BY DEF Typed
  <1>2. \/ \E chunk \in 1..Len(wire) :
              /\ Recieving' = [Recieving EXCEPT !.Cap = Cap, !.Data = @ \o SubSeq(wire, 1, chunk)]
              /\ wire' = SubSeq(wire, chunk + 1, Len(wire))
        \/ UNCHANGED <<Recieving, wire>>
        \/ Recieving' = [Recieving EXCEPT !.Cap = Cap] /\ UNCHANGED wire
    BY DEF recieve_http_step
  <1> HIDE DEF Cap
  <1>3. ~scanning /\ UNCHANGED <<Sending, open, sent, packets>>
    BY DEF recieve_http_step
  <1>4. CASE \E chunk \in 1..Len(wire) :
              /\ Recieving' = [Recieving EXCEPT !.Cap = Cap, !.Data = @ \o SubSeq(wire, 1, chunk)]
              /\ wire' = SubSeq(wire, chunk + 1, Len(wire))
    <2>1. PICK chunk \in 1..Len(wire) :
              /\ Recieving' = [Recieving EXCEPT !.Cap = Cap, !.Data = @ \o SubSeq(wire, 1, chunk)]
              /\ wire' = SubSeq(wire, chunk + 1, Len(wire))
      BY <1>4
    <2>2. chunk \in 0..Len(wire)
      BY <1>1
    <2> DEFINE data == Recieving.Data \o SubSeq(wire, 1, chunk)
    <2>3. Recieving' = [Recieving EXCEPT !.Cap = Cap, !.Data = data]
      BY <2>1
    <2> HIDE DEF data
    <2>4. Recieving'.Data = data /\ Recieving'.Pos = Recieving.Pos /\ Recieving'.Content_Length = Recieving.Content_Length
      BY <1>1, <2>3
    <2>5. QED
      BY <1>3, <2>1, <2>2, <2>4 DEF data
  <1>5. CASE UNCHANGED <<Recieving, wire>>
    BY <1>3, <1>5
  <1>6. CASE Recieving' = [Recieving EXCEPT !.Cap = Cap] /\ UNCHANGED wire
    <2>1. /\ Recieving'.Data = Recieving.Data
          /\ Recieving'.Pos = Recieving.Pos /\ Recieving'.Content_Length = Recieving.Content_Length
      BY <1>1, <1>6
    <2>2. QED
      BY <1>3, <1>6, <2>1
  <1>7. QED
    BY <1>2, <1>4, <1>5, <1>6

LEMMA AwaitShape ==
    ASSUME Typed, AwaitHeader \/ AwaitBody
    PROVE  Recieving'.Data = Recieving.Data /\ UNCHANGED <<Sending, wire, open, connected, sent, packets>>
  <1>1. Recieving \in [Data: Seq(Byte), Cap: Nat, Pos: Nat, Content_Length: Nat]
    BY DEF Typed
  <1>2. QED
    BY <1>1 DEF AwaitHeader, AwaitBody

LEMMA PacketShape ==
    ASSUME Typed, packet_recieved
    PROVE  LET size == PacketSize(Min(HeaderEnds))
               Data == Recieving.Data
           IN  /\ HeaderEnds # {} /\ ~BodyMissing(Min(HeaderEnds))
               /\ size \in 1..Len(Data)
               /\ size = Min(HeaderEnds) + ContentLength(Min(HeaderEnds)) + 4
               /\ packets' = Append(packets, SubSeq(Data, 1, size))
               /\ Recieving'.Pos = 0 /\ Recieving'.Content_Length = 0
               /\ Recieving'.Data \in Seq(Byte) /\ Len(Recieving'.Data) = Len(Data) - size
               /\ Recieving'.Data # << >> => Recieving'.Data[1] = [is |-> "A", n |-> 0]
               /\ \A x \in 2..Len(Data) - size : Recieving'.Data[x] = Data[size + x]
               /\ UNCHANGED <<Sending, scanning, wire, open, connected, sent>>
  <1> DEFINE size == PacketSize(Min(HeaderEnds))
             Data == Recieving.Data
             Left == AfterPacket(Recieving, size)
  <1>1. HeaderEnds # {} /\ ~BodyMissing(Min(HeaderEnds))
    BY DEF packet_recieved
  <1>2. /\ packets' = Append(packets, SubSeq(Data, 1, size))
        /\ Recieving' = Left
        /\ UNCHANGED <<Sending, scanning, wire, open, connected, sent>>
    BY DEF packet_recieved
  <1>3. /\ size \in 1..Len(Data) /\ size = Min(HeaderEnds) + ContentLength(Min(HeaderEnds)) + 4
        /\ Left \in [Data: Seq(Byte), Cap: Nat, Pos: Nat, Content_Length: Nat]
        /\ Left.Pos = 0 /\ Left.Content_Length = 0
        /\ Len(Left.Data) = Len(Data) - size
        /\ Left.Data # << >> => Left.Data[1] = [is |-> "A", n |-> 0]
        /\ \A x \in 2..Len(Data) - size : Left.Data[x] = Data[size + x]
    BY <1>1, PacketTaken
  <1> HIDE DEF Left, size, Data
  <1>4. QED
    BY <1>1, <1>2, <1>3 DEF size, Data

(* Only the first byte of a packet is not what the sender wrote.           *)
Clean ==
    /\ Sending.Data \in Seq(Plain) /\ wire \in Seq(Plain)
    /\ \A x \in 2..Len(Recieving.Data) : Recieving.Data[x].is # "A"
    /\ \A k \in DOMAIN packets : \A x \in 2..Len(packets[k]) : packets[k][x].is # "A"

LEMMA CleanInit == Init => Clean
  <1> SUFFICES ASSUME Init PROVE Clean
    OBVIOUS
  <1>1. Sending.Data = << >> /\ wire = << >> /\ Recieving.Data = << >> /\ packets = << >>
    BY DEF Init
  <1>2. << >> \in Seq(Plain) /\ Len(<< >>) = 0 /\ DOMAIN << >> = {}
    OBVIOUS
  <1>3. \A x \in 2..Len(Recieving.Data) : FALSE
    BY <1>1, <1>2
  <1>4. QED
    BY <1>1, <1>2, <1>3 DEF Clean

LEMMA CleanNext ==
    ASSUME Typed, Clean, [Next]_vars
    PROVE  Clean'
  <1>0. /\ Sending.Data \in Seq(Plain) /\ wire \in Seq(Plain)
        /\ \A x \in 2..Len(Recieving.Data) : Recieving.Data[x].is # "A"
        /\ \A k \in DOMAIN packets : \A x \in 2..Len(packets[k]) : packets[k][x].is # "A"
    BY DEF Clean
  <1>1. ASSUME NEW m \in Messages, send_http_message(m)
        PROVE  Clean'
    <2>1. PICK n \in Nat : n = Len(sent)
      BY DEF Typed
    <2>2. /\ Sending'.Data = Sending.Data \o Buffer(m, n + 1)
          /\ UNCHANGED <<Recieving, wire, packets>>
      BY <1>1, <2>1, SendShape
    <2>3. Buffer(m, n + 1) \in Seq(Plain)
      <3>1. n + 1 \in Nat
        OBVIOUS
      <3>2. QED
        BY <3>1, BufferIsPlain
    <2>4. Sending'.Data \in Seq(Plain)
      BY <1>0, <2>2, <2>3, ConcatIs
    <2>5. QED
      BY <1>0, <2>2, <2>4 DEF Clean
  <1>2. CASE send_http_step
    <2>1. PICK chunk \in 0..Len(Sending.Data) :
            /\ wire' = wire \o SubSeq(Sending.Data, 1, chunk)
            /\ Sending'.Data = SubSeq(Sending.Data, chunk + 1, Len(Sending.Data))
      BY <1>2, SendStepShape
    <2>2. UNCHANGED <<Recieving, packets>>
      BY <1>2, SendStepShape
    <2>3. SubSeq(Sending.Data, 1, chunk) \in Seq(Plain) /\ Sending'.Data \in Seq(Plain)
      BY <1>0, <2>1, CutIs
    <2>4. wire' \in Seq(Plain)
      BY <1>0, <2>1, <2>3, ConcatIs
    <2>5. QED
      BY <1>0, <2>2, <2>3, <2>4 DEF Clean
  <1>3. CASE Exit
    <2>1. UNCHANGED <<Sending, Recieving, packets>> /\ wire' \in {wire, << >>}
      BY <1>3 DEF Exit
    <2>2. << >> \in Seq(Plain)
      OBVIOUS
    <2>3. wire' \in Seq(Plain)
      BY <1>0, <2>1, <2>2
    <2>4. QED
      BY <1>0, <2>1, <2>3 DEF Clean
  <1>4. CASE recieve_http_step
    <2>1. UNCHANGED <<Sending, packets>>
      BY <1>4, RecieveShape
    <2>2. CASE UNCHANGED wire /\ Recieving'.Data = Recieving.Data
      BY <1>0, <2>1, <2>2 DEF Clean
    <2>3. CASE \E chunk \in 0..Len(wire) :
                    /\ Recieving'.Data = Recieving.Data \o SubSeq(wire, 1, chunk)
                    /\ wire' = SubSeq(wire, chunk + 1, Len(wire))
      <3>1. PICK chunk \in 0..Len(wire) :
                    /\ Recieving'.Data = Recieving.Data \o SubSeq(wire, 1, chunk)
                    /\ wire' = SubSeq(wire, chunk + 1, Len(wire))
        BY <2>3
      <3> DEFINE new == SubSeq(wire, 1, chunk)
                 R == Recieving.Data
      <3>2. new \in Seq(Plain) /\ wire' \in Seq(Plain)
        BY <1>0, <3>1, CutIs
      <3>3. R \in Seq(Byte)
        BY DEF Typed
      <3> HIDE DEF new
      <3>4. new \in Seq(Byte)
        BY <3>2, PlainIsBytes
      <3>5. Recieving'.Data = R \o new
        BY <3>1 DEF new
      <3>6. ASSUME NEW x \in 2..Len(Recieving'.Data) PROVE Recieving'.Data[x].is # "A"
        <4>1. Len(R) \in Nat /\ Len(new) \in Nat /\ Len(Recieving'.Data) = Len(R) + Len(new)
          BY <3>3, <3>4, <3>5, ConcatIs
        <4>2. x \in 1..Len(R) + Len(new)
          BY <4>1
        <4>3. Recieving'.Data[x] = IF x <= Len(R) THEN R[x] ELSE new[x - Len(R)]
          BY <3>3, <3>4, <3>5, <4>2, ConcatAt
        <4>4. CASE x <= Len(R)
          <5>1. x \in 2..Len(R)
            BY <4>1, <4>4
          <5>2. QED
            BY <1>0, <4>3, <4>4, <5>1
        <4>5. CASE ~(x <= Len(R))
          <5>1. x - Len(R) \in 1..Len(new)
            BY <4>1, <4>2, <4>5
          <5>2. new[x - Len(R)] \in Plain
            BY <3>2, <5>1
          <5>3. QED
            BY <4>3, <4>5, <5>2 DEF Plain
        <4>6. QED
          BY <4>4, <4>5
      <3>7. QED
        BY <1>0, <2>1, <3>2, <3>6 DEF Clean
    <2>4. QED
      BY <1>4, <2>2, <2>3, RecieveShape
  <1>5. CASE AwaitHeader \/ AwaitBody
    <2>1. Recieving'.Data = Recieving.Data /\ UNCHANGED <<Sending, wire, packets>>
      BY <1>5, AwaitShape
    <2>2. QED
      BY <1>0, <2>1 DEF Clean
  <1>6. CASE packet_recieved
    <2> DEFINE size == PacketSize(Min(HeaderEnds))
               R == Recieving.Data
               new == SubSeq(R, 1, size)
    <2>1. /\ size \in 1..Len(R)
          /\ packets' = Append(packets, new)
          /\ Len(Recieving'.Data) = Len(R) - size
          /\ \A x \in 2..Len(R) - size : Recieving'.Data[x] = R[size + x]
          /\ UNCHANGED <<Sending, wire>>
      BY <1>6, PacketShape
    <2> HIDE DEF size
    <2>2. R \in Seq(Byte) /\ Len(R) \in Nat /\ packets \in Seq(Seq(Byte))
      BY DEF Typed
    <2>3. new \in Seq(Byte) /\ Len(new) = size /\ \A x \in 1..size : new[x] = R[x]
      <3>1. size \in 0..Len(R)
        BY <2>1, <2>2
      <3>2. QED
        BY <2>2, <3>1, CutIs
    <2> HIDE DEF new
    <2>4. \A x \in 2..Len(new) : new[x].is # "A"
      <3>1. ASSUME NEW x \in 2..Len(new) PROVE new[x].is # "A"
        <4>1. x \in 1..size /\ x \in 2..Len(R)
          BY <2>1, <2>2, <2>3
        <4>2. QED
          BY <1>0, <2>3, <4>1
      <3>2. QED
        BY <3>1
    <2>5. \A x \in 2..Len(Recieving'.Data) : Recieving'.Data[x].is # "A"
      <3>1. ASSUME NEW x \in 2..Len(R) - size PROVE Recieving'.Data[x].is # "A"
        <4>1. size + x \in 2..Len(R)
          BY <2>1, <2>2
        <4>2. QED
          BY <1>0, <2>1, <4>1
      <3>2. QED
        BY <2>1, <3>1
    <2>6. ASSUME NEW k \in DOMAIN packets' PROVE \A x \in 2..Len(packets'[k]) : packets'[k][x].is # "A"
      <3>1. \/ k \in DOMAIN packets /\ packets'[k] = packets[k]
            \/ packets'[k] = new
        BY <2>1, <2>2, <2>3
      <3>2. QED
        BY <1>0, <2>4, <3>1
    <2>7. QED
      BY <1>0, <2>1, <2>5, <2>6 DEF Clean
  <1>7. CASE Hold \/ Release \/ UNCHANGED vars
    BY <1>0, <1>7 DEF Clean, vars, stream, Hold, Release
  <1>8. QED
    BY <1>1, <1>2, <1>3, <1>4, <1>5, <1>6, <1>7 DEF Next

-----------------------------------------------------------------------------
(* No byte is lost.                                                        *)

(* The bytes here are those of all, as far as they go, or "A".             *)
Matches(here, all) ==
    /\ Len(here) <= Len(all)
    /\ \A x \in 1..Len(here) : here[x] = all[x] \/ here[x].is = "A"

LEMMA MatchesBegins ==
    ASSUME NEW s \in Seq(Byte), NEW t \in Seq(Byte), NEW a \in Seq(Byte), Begins(s, t), Matches(t, a)
    PROVE  Matches(s, a)
    BY DEF Begins, Matches

LEMMA MatchesAlike ==
    ASSUME NEW s \in Seq(Byte), NEW t \in Seq(Byte), NEW a \in Seq(Byte), NEW v, v.is = "A",
           Alike(s, t, v), Matches(t, a)
    PROVE  Matches(s, a) /\ Len(s) = Len(t)
    BY DEF Alike, Matches

LEMMA MatchesConcat ==
    ASSUME NEW s \in Seq(Byte), NEW a \in Seq(Byte), NEW b \in Seq(Byte), Matches(s, a), Len(s) = Len(a)
    PROVE  /\ Matches(s \o b, a \o b) /\ Len(s \o b) = Len(a \o b)
           /\ s \o b \in Seq(Byte) /\ a \o b \in Seq(Byte)
  <1> DEFINE sb == s \o b
             ab == a \o b
  <1>1. /\ sb \in Seq(Byte) /\ Len(sb) = Len(s) + Len(b)
        /\ ab \in Seq(Byte) /\ Len(ab) = Len(a) + Len(b)
    BY ConcatIs
  <1>2. ASSUME NEW x \in 1..Len(s) + Len(b)
        PROVE  /\ sb[x] = IF x <= Len(s) THEN s[x] ELSE b[x - Len(s)]
               /\ ab[x] = IF x <= Len(s) THEN a[x] ELSE b[x - Len(s)]
    BY ConcatAt
  <1>3. /\ Len(s) \in Nat /\ Len(b) \in Nat
        /\ \A x \in 1..Len(s) : s[x] = a[x] \/ s[x].is = "A"
    BY DEF Matches
  <1> HIDE DEF sb, ab
  <1>4. ASSUME NEW x \in 1..Len(s) + Len(b) PROVE sb[x] = ab[x] \/ sb[x].is = "A"
    <2>1. x \in 1..Len(s) \/ ~(x <= Len(s))
      BY <1>3
    <2>2. QED
      BY <1>2, <1>3, <2>1
  <1>5. Matches(sb, ab)
    BY <1>1, <1>3, <1>4 DEF Matches
  <1>6. QED
    BY <1>1, <1>5 DEF sb, ab

(* The stream that is not lost, of a state's packets, receiver, wire and   *)
(* sender, is a part of what the messages are written as; all of it as     *)
(* long as the sender is there.                                            *)
Kept(P, R, W, D, o, s) ==
    /\ FlattenSeq(P) \in Seq(Byte)
    /\ Matches(Stream(FlattenSeq(P), R, W, IF o THEN D ELSE << >>), Text(s, Len(s)))
    /\ o => Len(Stream(FlattenSeq(P), R, W, D)) = Len(Text(s, Len(s)))

Conserved == Kept(packets, Recieving.Data, wire, Sending.Data, open, sent)

LEMMA ConservedInit == Init => Conserved /\ LaidDown(sent)
  <1> SUFFICES ASSUME Init PROVE Conserved /\ LaidDown(sent)
    OBVIOUS
  <1> DEFINE e == << >>
  <1>1. Sending.Data = e /\ wire = e /\ Recieving.Data = e /\ packets = e /\ sent = e
    BY DEF Init
  <1>2. FlattenSeq(e) = e /\ LaidDown(e) /\ Text(e, 0) = e /\ Len(e) = 0 /\ e \in Seq(Byte)
    BY FlattenEmpty, LaidEmpty
  <1>3. e \o e = e
    OBVIOUS
  <1> HIDE DEF e
  <1>4. Stream(e, e, e, e) = e
    BY <1>3, StreamIsConcat
  <1>5. Matches(e, e)
    BY <1>2 DEF Matches
  <1>6. Stream(e, e, e, IF open THEN e ELSE << >>) = e
    BY <1>4 DEF e
  <1>7. Kept(e, e, e, e, open, e)
    BY <1>2, <1>4, <1>5, <1>6 DEF Kept
  <1>8. QED
    BY <1>1, <1>2, <1>7 DEF Conserved

LEMMA SendKeeps ==
    ASSUME Typed, LaidDown(sent), Conserved, NEW m \in Messages, send_http_message(m)
    PROVE  Conserved'
  <1>1. PICK n \in Nat : n = Len(sent)
    BY DEF Typed
  <1> DEFINE F == FlattenSeq(packets)
             R == Recieving.Data
             D == Sending.Data
             b == Buffer(m, n + 1)
             h == Stream(F, R, wire, D)
             a == Text(sent, n)
  <1>2. /\ open = TRUE /\ sent' = Append(sent, m) /\ Sending'.Data = D \o b
        /\ UNCHANGED <<Recieving, wire, open, packets>>
    BY <1>1, SendShape
  <1>3. F \in Seq(Byte) /\ Matches(h, a) /\ Len(h) = Len(a)
    BY <1>1, <1>2 DEF Conserved, Kept
  <1>4. D \in Seq(Byte) /\ R \in Seq(Byte) /\ wire \in Seq(Byte) /\ b \in Seq(Byte)
    <2>1. n + 1 \in Nat
      OBVIOUS
    <2>2. b \in Seq(Byte)
      BY <2>1, BufferIsBytes
    <2>3. QED
      BY <2>2 DEF Typed
  <1>5. a \in Seq(Byte) /\ Text(sent', n + 1) = a \o b
    <2>1. sent \in Seq(Messages)
      BY DEF Typed
    <2>2. QED
      BY <1>1, <1>2, <2>1, LaidAppend
  <1>6. Len(sent') = n + 1
    BY <1>1, <1>2 DEF Typed
  <1> HIDE DEF b
  <1>7. h \in Seq(Byte) /\ Stream(F, R, wire, D \o b) = h \o b
    <2>1. h \in Seq(Byte) /\ Stream(F, R, wire, Join(D, b)) = Join(h, b)
      <3> HIDE DEF F, R, D
      <3>1. QED
        BY <1>3, <1>4, StreamMoves
    <2>2. QED
      BY <2>1 DEF Join
  <1> HIDE DEF h, a
  <1>8. Matches(h \o b, a \o b) /\ Len(h \o b) = Len(a \o b)
    BY <1>3, <1>4, <1>5, <1>7, MatchesConcat
  <1> DEFINE D2 == D \o b
             a2 == a \o b
             s2 == sent'
  <1>9. /\ Matches(Stream(F, R, wire, D2), a2) /\ Len(Stream(F, R, wire, D2)) = Len(a2)
        /\ Text(s2, Len(s2)) = a2
    BY <1>5, <1>6, <1>7, <1>8
  <1>10. packets' = packets /\ Recieving'.Data = R /\ wire' = wire /\ Sending'.Data = D2 /\ open' = TRUE
    BY <1>2
  <1> HIDE DEF D2, a2, s2
  <1>11. Kept(packets, R, wire, D2, TRUE, s2)
    BY <1>3, <1>9 DEF Kept
  <1>12. QED
    BY <1>10, <1>11 DEF Conserved, s2

(* Bytes that move keep the stream.                                        *)
LEMMA MoveKeeps ==
    ASSUME Typed, LaidDown(sent), Conserved, send_http_step \/ recieve_http_step
    PROVE  Conserved'
  <1> DEFINE F == FlattenSeq(packets)
             R == Recieving.Data
             D == Sending.Data
  <1>1. F \in Seq(Byte)
    BY DEF Conserved, Kept
  <1>2. D \in Seq(Byte) /\ R \in Seq(Byte) /\ wire \in Seq(Byte)
    BY DEF Typed
  <1>3. CASE send_http_step
    <2>1. PICK chunk \in 0..Len(D) :
            /\ wire' = wire \o SubSeq(D, 1, chunk)
            /\ Sending'.Data = SubSeq(D, chunk + 1, Len(D))
      BY <1>3, SendStepShape
    <2>2. open = TRUE /\ UNCHANGED <<Recieving, open, sent, packets>>
      BY <1>3, SendStepShape
    <2> DEFINE b == SubSeq(D, 1, chunk)
               E == SubSeq(D, chunk + 1, Len(D))
    <2>3. b \in Seq(Byte) /\ E \in Seq(Byte) /\ b \o E = D
      BY <1>2, CutIs
    <2>4. wire' = wire \o b /\ Sending'.Data = E
      BY <2>1
    <2> HIDE DEF b, E
    <2>5. Stream(F, R, wire \o b, E) = Stream(F, R, wire, D)
      <3>1. Stream(F, R, Join(wire, b), E) = Stream(F, R, wire, Join(b, E))
        <4>1. b \in Seq(Byte) /\ E \in Seq(Byte)
          BY <2>3
        <4> HIDE DEF F, R
        <4>2. QED
          BY <1>1, <1>2, <4>1, StreamMoves
      <3>2. QED
        BY <2>3, <3>1 DEF Join
    <2> DEFINE W == wire \o b
    <2>6. Kept(packets, R, wire, D, TRUE, sent)
      BY <2>2 DEF Conserved
    <2>7. W = wire' /\ Stream(F, R, W, E) = Stream(F, R, wire, D)
      BY <2>4, <2>5
    <2> HIDE DEF W
    <2>8. Kept(packets, R, W, E, TRUE, sent)
      BY <2>6, <2>7 DEF Kept
    <2>9. QED
      BY <2>2, <2>4, <2>7, <2>8 DEF Conserved
  <1>4. CASE recieve_http_step
    <2>1. UNCHANGED <<Sending, open, sent, packets>>
      BY <1>4, RecieveShape
    <2>2. CASE UNCHANGED wire /\ Recieving'.Data = Recieving.Data
      BY <2>1, <2>2 DEF Conserved
    <2>3. CASE \E chunk \in 0..Len(wire) :
                    /\ Recieving'.Data = Recieving.Data \o SubSeq(wire, 1, chunk)
                    /\ wire' = SubSeq(wire, chunk + 1, Len(wire))
      <3>1. PICK chunk \in 0..Len(wire) :
                    /\ Recieving'.Data = Recieving.Data \o SubSeq(wire, 1, chunk)
                    /\ wire' = SubSeq(wire, chunk + 1, Len(wire))
        BY <2>3
      <3> DEFINE b == SubSeq(wire, 1, chunk)
                 W == SubSeq(wire, chunk + 1, Len(wire))
                 d == IF open THEN D ELSE << >>
      <3>2. b \in Seq(Byte) /\ W \in Seq(Byte) /\ b \o W = wire
        BY <1>2, CutIs
      <3>3. wire' = W /\ Recieving'.Data = R \o b
        BY <3>1
      <3>4. d \in Seq(Byte)
        BY <1>2
      <3> HIDE DEF b, W, d
      <3>5. Stream(F, R \o b, W, d) = Stream(F, R, wire, d) /\ Stream(F, R \o b, W, D) = Stream(F, R, wire, D)
        <4>1. /\ Stream(F, Join(R, b), W, d) = Stream(F, R, Join(b, W), d)
              /\ Stream(F, Join(R, b), W, D) = Stream(F, R, Join(b, W), D)
          <5>1. b \in Seq(Byte) /\ W \in Seq(Byte)
            BY <3>2
          <5> HIDE DEF F, R, D
          <5>2. QED
            BY <1>1, <1>2, <3>4, <5>1, StreamMoves
        <4>2. QED
          BY <3>2, <4>1 DEF Join
      <3> DEFINE R2 == R \o b
      <3>6. R2 = Recieving'.Data /\ Stream(F, R2, W, d) = Stream(F, R, wire, d)
            /\ Stream(F, R2, W, D) = Stream(F, R, wire, D)
        BY <3>3, <3>5
      <3> HIDE DEF R2
      <3>7. Kept(packets, R, wire, D, open, sent)
        BY DEF Conserved
      <3>8. Kept(packets, R2, W, D, open, sent)
        BY <3>6, <3>7 DEF Kept, d
      <3>9. QED
        BY <2>1, <3>3, <3>6, <3>8 DEF Conserved
    <2>4. QED
      BY <1>4, <2>2, <2>3, RecieveShape
  <1>5. QED
    BY <1>3, <1>4

LEMMA ExitKeeps ==
    ASSUME Typed, LaidDown(sent), Conserved, Exit
    PROVE  Conserved'
  <1> DEFINE F == FlattenSeq(packets)
             R == Recieving.Data
             D == Sending.Data
             a == Text(sent, Len(sent))
             h == Stream(F, R, wire, D)
             h1 == Stream(F, R, wire, << >>)
             h2 == Stream(F, R, << >>, << >>)
  <1>1. /\ open = TRUE /\ open' = FALSE /\ UNCHANGED <<Sending, Recieving, sent, packets>>
        /\ wire' = wire \/ wire' = << >>
    BY DEF Exit, Typed
  <1>2. F \in Seq(Byte) /\ Matches(h, a)
    BY <1>1 DEF Conserved, Kept
  <1>3. D \in Seq(Byte) /\ R \in Seq(Byte) /\ wire \in Seq(Byte)
    BY DEF Typed
  <1>4. a \in Seq(Byte)
    <2>1. Len(sent) \in Nat
      BY DEF Typed
    <2>2. QED
      BY <2>1 DEF LaidDown
  <1>5. h \in Seq(Byte)
    BY <1>2, <1>3, StreamMoves
  <1>6. h1 \in Seq(Byte) /\ h2 \in Seq(Byte) /\ Begins(h1, h) /\ Begins(h2, h)
    BY <1>2, <1>3, StreamBegins
  <1>7. Matches(h1, a) /\ Matches(h2, a)
    <2> HIDE DEF h, h1, h2, a
    <2>1. QED
      BY <1>2, <1>4, <1>5, <1>6, MatchesBegins
  <1>8. Matches(Stream(F, R, wire', << >>), a)
    BY <1>1, <1>7
  <1>9. Kept(packets, R, wire', D, FALSE, sent)
    BY <1>2, <1>8 DEF Kept
  <1>10. QED
    BY <1>1, <1>9 DEF Conserved

(* A packet is cut from the receiver's stream, whose next byte is lost.    *)
LEMMA PacketKeeps ==
    ASSUME Typed, LaidDown(sent), Conserved, packet_recieved
    PROVE  Conserved'
  <1> DEFINE F == FlattenSeq(packets)
             R == Recieving.Data
             D == Sending.Data
             d == IF open THEN D ELSE << >>
             a == Text(sent, Len(sent))
             size == PacketSize(Min(HeaderEnds))
             b == SubSeq(R, 1, size)
             Q == SubSeq(R, size + 1, Len(R))
             v == [is |-> "A", n |-> 0]
             R2 == Recieving'.Data
             P2 == packets'
  <1>1. /\ size \in 1..Len(R) /\ P2 = Append(packets, b)
        /\ R2 \in Seq(Byte) /\ Len(R2) = Len(R) - size
        /\ R2 # << >> => R2[1] = v
        /\ \A x \in 2..Len(R) - size : R2[x] = R[size + x]
        /\ UNCHANGED <<Sending, wire, open, sent>>
    BY PacketShape
  <1>2. F \in Seq(Byte) /\ Matches(Stream(F, R, wire, d), a) /\ (open => Len(Stream(F, R, wire, D)) = Len(a))
    BY DEF Conserved, Kept
  <1>3. D \in Seq(Byte) /\ R \in Seq(Byte) /\ wire \in Seq(Byte) /\ d \in Seq(Byte) /\ packets \in Seq(Seq(Byte))
    BY DEF Typed
  <1>4. a \in Seq(Byte)
    <2>1. Len(sent) \in Nat
      BY DEF Typed
    <2>2. QED
      BY <2>1 DEF LaidDown
  <1> HIDE DEF size
  <1>5. /\ b \in Seq(Byte) /\ Q \in Seq(Byte) /\ Len(Q) = Len(R) - size
        /\ \A x \in 1..Len(R) - size : Q[x] = R[size + x]
        /\ b \o Q = R
    <2>1. size \in 0..Len(R)
      BY <1>1, <1>3
    <2> HIDE DEF R
    <2>2. b \in Seq(Byte) /\ b \o Q = R
      BY <1>3, <2>1, CutIs
    <2>3. /\ Q \in Seq(Byte) /\ Len(Q) = Len(R) - size
          /\ \A x \in 1..Len(R) - size : Q[x] = R[size + x]
      BY <1>3, <2>1, CutIs
    <2>4. QED
      BY <2>2, <2>3
  <1> HIDE DEF b, Q, R2, P2
  <1>6. FlattenSeq(P2) = F \o b /\ FlattenSeq(P2) \in Seq(Byte)
    BY <1>1, <1>2, <1>3, <1>5, FlattenAppend
  <1>7. Alike(R2, Q, v)
    <2> HIDE DEF v
    <2>1. ASSUME NEW x \in 1..Len(R2) PROVE R2[x] = Q[x] \/ R2[x] = v
      <3>1. Len(R) \in Nat /\ Len(R2) \in Nat
        BY <1>1, <1>3
      <3>2. x = 1 \/ x \in 2..Len(R) - size
        BY <1>1, <3>1
      <3>3. R2 # << >>
        BY <3>1
      <3>4. x \in 1..Len(R) - size
        BY <1>1
      <3>5. QED
        BY <1>1, <1>5, <3>2, <3>3, <3>4
    <2>2. QED
      BY <1>1, <1>5, <2>1 DEF Alike
  <1> DEFINE F2 == F \o b
  <1>8. F2 \in Seq(Byte) /\ F2 = FlattenSeq(P2)
    BY <1>6
  <1>9. Stream(F2, Q, wire, d) = Stream(F, R, wire, d) /\ Stream(F2, Q, wire, D) = Stream(F, R, wire, D)
    <2>1. /\ Stream(Join(F, b), Q, wire, d) = Stream(F, Join(b, Q), wire, d)
          /\ Stream(Join(F, b), Q, wire, D) = Stream(F, Join(b, Q), wire, D)
      <3>1. F \in Seq(Byte) /\ b \in Seq(Byte) /\ Q \in Seq(Byte)
        BY <1>2, <1>5
      <3> HIDE DEF F, R, D, d
      <3>2. QED
        BY <1>3, <3>1, StreamMoves
    <2>2. QED
      BY <1>5, <2>1 DEF Join
  <1> HIDE DEF F2, d, v
  <1>10. /\ Stream(F2, Q, wire, d) \in Seq(Byte) /\ Stream(F2, R2, wire, d) \in Seq(Byte)
         /\ Stream(F2, Q, wire, D) \in Seq(Byte) /\ Stream(F2, R2, wire, D) \in Seq(Byte)
         /\ Alike(Stream(F2, R2, wire, d), Stream(F2, Q, wire, d), v)
         /\ Alike(Stream(F2, R2, wire, D), Stream(F2, Q, wire, D), v)
    BY <1>1, <1>3, <1>5, <1>7, <1>8, StreamAlike, StreamMoves
  <1>11. Matches(Stream(F2, R2, wire, d), a)
    <2> DEFINE h == Stream(F2, Q, wire, d)
               g == Stream(F2, R2, wire, d)
    <2>1. h \in Seq(Byte) /\ g \in Seq(Byte) /\ Alike(g, h, v) /\ Matches(h, a) /\ v.is = "A"
      BY <1>2, <1>9, <1>10 DEF v
    <2> HIDE DEF h, g, a
    <2>2. Matches(g, a)
      BY <1>4, <2>1, MatchesAlike
    <2>3. QED
      BY <2>2 DEF g
  <1>12. open => Len(Stream(F2, R2, wire, D)) = Len(a)
    BY <1>2, <1>9, <1>10 DEF Alike
  <1>13. Kept(P2, R2, wire, D, open, sent)
    BY <1>6, <1>8, <1>11, <1>12 DEF Kept, d, a
  <1>14. QED
    BY <1>1, <1>13 DEF Conserved, P2, R2

LEMMA ConservedNext ==
    ASSUME Typed, LaidDown(sent), Conserved, [Next]_vars
    PROVE  Conserved'
  <1>1. CASE AwaitHeader \/ AwaitBody
    <2>1. Recieving'.Data = Recieving.Data /\ UNCHANGED <<Sending, wire, open, sent, packets>>
      BY <1>1, AwaitShape
    <2>2. QED
      BY <2>1 DEF Conserved
  <1>2. CASE Hold \/ Release \/ UNCHANGED vars
    BY <1>2 DEF Conserved, vars, stream, Hold, Release
  <1>3. CASE \E m \in Messages : send_http_message(m)
    BY <1>3, SendKeeps
  <1>4. CASE send_http_step \/ recieve_http_step
    BY <1>4, MoveKeeps
  <1>5. CASE Exit
    BY <1>5, ExitKeeps
  <1>6. CASE packet_recieved
    BY <1>6, PacketKeeps
  <1>7. QED
    BY <1>1, <1>2, <1>3, <1>4, <1>5, <1>6 DEF Next

LEMMA ConservedBytes ==
    Typed /\ LaidDown(sent) /\ Clean /\ Conserved => BytesConserved
  <1> SUFFICES ASSUME Typed, LaidDown(sent), Clean, Conserved PROVE BytesConserved
    OBVIOUS
  <1> DEFINE F == FlattenSeq(packets)
             d == IF open THEN Sending.Data ELSE << >>
             here == F \o Recieving.Data \o wire \o d
             all == FlattenSeq([k \in DOMAIN sent |-> Buffer(sent[k], k)])
  <1>1. all = Text(sent, Len(sent))
    <2>1. DOMAIN sent = 1..Len(sent)
      BY DEF Typed
    <2>2. QED
      BY <2>1 DEF Text
  <1>2. here = Stream(F, Recieving.Data, wire, d)
    BY StreamIsConcat
  <1>3. /\ F \in Seq(Byte) /\ Matches(Stream(F, Recieving.Data, wire, d), Text(sent, Len(sent)))
        /\ open => Len(Stream(F, Recieving.Data, wire, Sending.Data)) = Len(Text(sent, Len(sent)))
    BY DEF Conserved, Kept
  <1>4. here \in Seq(Byte)
    <2>1. d \in Seq(Byte) /\ Recieving.Data \in Seq(Byte) /\ wire \in Seq(Byte)
      BY DEF Typed
    <2> HIDE DEF d
    <2>2. Stream(F, Recieving.Data, wire, d) \in Seq(Byte)
      BY <1>3, <2>1, StreamMoves
    <2>3. QED
      BY <1>2, <2>2
  <1>5. Matches(here, all)
    BY <1>1, <1>2, <1>3
  <1>6. open => Len(here) = Len(all)
    BY <1>1, <1>2, <1>3
  <1>7. \A k \in DOMAIN packets : \A x \in 2..Len(packets[k]) : packets[k][x].is # "A"
    BY DEF Clean
  <1> HIDE DEF here, all
  <1>8. DOMAIN here = 1..Len(here)
    BY <1>4
  <1>9. /\ IF open THEN Len(here) = Len(all) ELSE Len(here) <= Len(all)
        /\ \A x \in DOMAIN here : here[x] = all[x] \/ here[x].is = "A"
    BY <1>5, <1>6, <1>8 DEF Matches
  <1>10. QED
    BY <1>7, <1>9 DEF BytesConserved, here, all

(* However many messages go out, and however send and recv cut them up,    *)
(* what has arrived is what was sent, in order, but for the first byte of  *)
(* a packet, which packet_recieved replaces; a prefix of it if the sender  *)
(* goes away.                                                              *)
THEOREM AlwaysBytesConserved == Spec => []BytesConserved
  <1>1. Init => Typed /\ LaidDown(sent) /\ Clean /\ Conserved
    BY TypedInit, CleanInit, ConservedInit
  <1>2. Typed /\ LaidDown(sent) /\ Clean /\ Conserved /\ [Next]_vars
            => (Typed /\ LaidDown(sent) /\ Clean /\ Conserved)'
    BY TypedNext, LaidNext, CleanNext, ConservedNext
  <1>3. QED
    BY <1>1, <1>2, ConservedBytes, PTL DEF Spec

-----------------------------------------------------------------------------
(* What the receiver knows of the header it scans.                         *)

(* A CR LF CR LF at an offset of the data.                                 *)
EndsAt(Data, q) ==
    /\ q + 4 <= Len(Data)
    /\ Data[q + 1].is = "CR" /\ Data[q + 2].is = "LF"
    /\ Data[q + 3].is = "CR" /\ Data[q + 4].is = "LF"

(* The scan resumes behind no end of a header, and knows the length that a *)
(* header it has read announces.                                           *)
Parsed ==
    /\ Recieving.Pos = 0 \/ Recieving.Pos + 3 <= Len(Recieving.Data)
    /\ \A q \in Nat : q < Recieving.Pos => ~EndsAt(Recieving.Data, q)
    /\ Recieving.Content_Length # 0 =>
          /\ EndsAt(Recieving.Data, Recieving.Pos)
          /\ Recieving.Content_Length = parse_http_stream_header(Recieving.Data, Recieving.Pos)

LEMMA EndsAreEnds ==
    ASSUME Typed, NEW q \in Nat
    PROVE  q \in HeaderEnds <=> Recieving.Pos <= q /\ EndsAt(Recieving.Data, q)
  <1> DEFINE D == Recieving.Data
  <1>1. D \in Seq(Byte) /\ Len(D) \in Nat /\ Recieving.Pos \in Nat
    BY DEF Typed
  <1>2. q \in HeaderEnds <=> /\ q \in Recieving.Pos..Len(D) - 4
                             /\ \A x \in 1..4 : D[q + x].is = <<"CR", "LF", "CR", "LF">>[x]
    BY DEF HeaderEnds
  <1>3. (\A x \in 1..4 : D[q + x].is = <<"CR", "LF", "CR", "LF">>[x])
            <=> /\ D[q + 1].is = "CR" /\ D[q + 2].is = "LF"
                /\ D[q + 3].is = "CR" /\ D[q + 4].is = "LF"
    <2> DEFINE s == <<"CR", "LF", "CR", "LF">>
               e(x) == D[q + x].is
    <2>1. s[1] = "CR" /\ s[2] = "LF" /\ s[3] = "CR" /\ s[4] = "LF"
      OBVIOUS
    <2>2. 1..4 = {1, 2, 3, 4}
      OBVIOUS
    <2> HIDE DEF s, e
    <2>3. (\A x \in 1..4 : e(x) = s[x]) <=> e(1) = s[1] /\ e(2) = s[2] /\ e(3) = s[3] /\ e(4) = s[4]
      BY <2>2
    <2>4. (\A x \in 1..4 : e(x) = s[x]) <=> e(1) = "CR" /\ e(2) = "LF" /\ e(3) = "CR" /\ e(4) = "LF"
      BY <2>1, <2>3
    <2>5. QED
      BY <2>4 DEF s, e
  <1>4. q \in Recieving.Pos..Len(D) - 4 <=> Recieving.Pos <= q /\ q + 4 <= Len(D)
    BY <1>1
  <1>5. QED
    BY <1>2, <1>3, <1>4 DEF EndsAt

(* What a header announces is in the header.                               *)
LEMMA ParseSame ==
    ASSUME NEW D, NEW E, NEW p \in Nat, \A x \in 1..p : E[x] = D[x]
    PROVE  parse_http_stream_header(E, p) = parse_http_stream_header(D, p)
  <1> DEFINE named == {x \in 1..p : D[x].is = "Content-Length"}
             theirs == {x \in 1..p : E[x].is = "Content-Length"}
  <1>1. theirs = named
    OBVIOUS
  <1>2. named \in SUBSET Nat /\ named \subseteq 1..p
    OBVIOUS
  <1>3. /\ parse_http_stream_header(D, p) = IF named = {} THEN 0 ELSE D[Min(named)].n
        /\ parse_http_stream_header(E, p) = IF theirs = {} THEN 0 ELSE E[Min(theirs)].n
    BY DEF parse_http_stream_header
  <1> HIDE DEF named, theirs
  <1>4. ASSUME named # {} PROVE Min(named) \in 1..p
    <2>1. \E x \in named : \A y \in named : x <= y
      BY <1>2, <1>4, LeastNumber
    <2>2. Min(named) \in named
      BY <2>1 DEF Min
    <2>3. QED
      BY <1>2, <2>2
  <1>5. QED
    BY <1>1, <1>3, <1>4

(* The scan finds the first end of a header in the data.                   *)
LEMMA ScanFinds ==
    ASSUME Typed, Parsed, HeaderEnds # {}
    PROVE  LET p == Min(HeaderEnds)
               D == Recieving.Data
           IN  /\ p \in Nat /\ EndsAt(D, p)
               /\ \A q \in Nat : q < p => ~EndsAt(D, q)
               /\ ContentLength(p) = parse_http_stream_header(D, p)
  <1> DEFINE p == Min(HeaderEnds)
             D == Recieving.Data
             Pos == Recieving.Pos
  <1>1. p \in HeaderEnds /\ p \in Nat /\ \A q \in HeaderEnds : p <= q
    BY HeaderEndsAre
  <1> HIDE DEF p
  <1>2. Pos <= p /\ EndsAt(D, p)
    BY <1>1, EndsAreEnds
  <1>3. Pos \in Nat /\ Recieving.Content_Length \in Nat
    BY DEF Typed
  <1>4. ASSUME NEW q \in Nat, q < p PROVE ~EndsAt(D, q)
    <2>1. CASE q < Pos
      BY <2>1 DEF Parsed
    <2>2. CASE ~(q < Pos)
      <3>1. Pos <= q /\ ~(p <= q)
        BY <1>1, <1>3, <1>4, <2>2
      <3>2. q \notin HeaderEnds
        BY <1>1, <3>1
      <3>3. QED
        BY <3>1, <3>2, EndsAreEnds
    <2>3. QED
      BY <2>1, <2>2
  <1>5. ContentLength(p) = parse_http_stream_header(D, p)
    <2>1. CASE Recieving.Content_Length # 0
      <3>1. EndsAt(D, Pos) /\ Recieving.Content_Length = parse_http_stream_header(D, Pos)
        BY <2>1 DEF Parsed
      <3>2. ~(Pos < p)
        BY <1>3, <1>4, <3>1
      <3>3. Pos = p
        BY <1>1, <1>2, <1>3, <3>2
      <3>4. QED
        BY <2>1, <3>1, <3>3 DEF ContentLength
    <2>2. CASE Recieving.Content_Length = 0
      BY <2>2 DEF ContentLength
    <2>3. QED
      BY <2>1, <2>2
  <1>6. QED
    BY <1>1, <1>2, <1>4, <1>5 DEF p

LEMMA ParsedInit == Init => Parsed
  <1> SUFFICES ASSUME Init PROVE Parsed
    OBVIOUS
  <1>1. Recieving.Pos = 0 /\ Recieving.Content_Length = 0
    BY DEF Init
  <1>2. QED
    BY <1>1 DEF Parsed

(* More data behind the old changes nothing of what is parsed.             *)
LEMMA ParsedGrows ==
    ASSUME Typed, Parsed, NEW E \in Seq(Byte), Begins(Recieving.Data, E),
           Recieving'.Data = E, Recieving'.Pos = Recieving.Pos,
           Recieving'.Content_Length = Recieving.Content_Length
    PROVE  Parsed'
  <1> DEFINE D == Recieving.Data
             Pos == Recieving.Pos
  <1>1. /\ D \in Seq(Byte) /\ Len(D) \in Nat /\ Pos \in Nat /\ Pos <= Len(D)
        /\ Len(E) \in Nat /\ Len(D) <= Len(E) /\ \A x \in 1..Len(D) : E[x] = D[x]
    BY DEF Typed, Begins
  <1>2. ASSUME NEW q \in Nat, q + 4 <= Len(D) PROVE EndsAt(E, q) <=> EndsAt(D, q)
    <2>1. q + 1 \in 1..Len(D) /\ q + 2 \in 1..Len(D) /\ q + 3 \in 1..Len(D) /\ q + 4 \in 1..Len(D)
      BY <1>1, <1>2
    <2>2. E[q + 1] = D[q + 1] /\ E[q + 2] = D[q + 2] /\ E[q + 3] = D[q + 3] /\ E[q + 4] = D[q + 4]
      BY <1>1, <2>1
    <2>3. q + 4 <= Len(E)
      BY <1>1, <1>2
    <2>4. QED
      BY <1>2, <2>2, <2>3 DEF EndsAt
  <1>3. Pos = 0 \/ Pos + 3 <= Len(E)
    BY <1>1 DEF Parsed
  <1>4. ASSUME NEW q \in Nat, q < Pos PROVE ~EndsAt(E, q)
    <2>1. q + 4 <= Len(D)
      BY <1>1, <1>4 DEF Parsed
    <2>2. QED
      BY <1>2, <1>4, <2>1 DEF Parsed
  <1>5. ASSUME Recieving.Content_Length # 0
        PROVE  EndsAt(E, Pos) /\ Recieving.Content_Length = parse_http_stream_header(E, Pos)
    <2>1. EndsAt(D, Pos) /\ Recieving.Content_Length = parse_http_stream_header(D, Pos)
      BY <1>5 DEF Parsed
    <2>2. Pos + 4 <= Len(D)
      BY <2>1 DEF EndsAt
    <2>3. \A x \in 1..Pos : E[x] = D[x]
      BY <1>1
    <2>4. parse_http_stream_header(E, Pos) = parse_http_stream_header(D, Pos)
      BY <1>1, <2>3, ParseSame
    <2>5. QED
      BY <1>1, <1>2, <2>1, <2>2, <2>4
  <1>6. QED
    BY <1>3, <1>4, <1>5 DEF Parsed

LEMMA ParsedNext ==
    ASSUME Typed, Parsed, [Next]_vars
    PROVE  Parsed'
  <1> DEFINE D == Recieving.Data
             Pos == Recieving.Pos
  <1>0. /\ Recieving \in [Data: Seq(Byte), Cap: Nat, Pos: Nat, Content_Length: Nat]
        /\ Pos \in Nat /\ Len(D) \in Nat /\ wire \in Seq(Byte)
    BY DEF Typed
  <1>1. CASE UNCHANGED Recieving
    BY <1>1 DEF Parsed
  <1>2. CASE recieve_http_step
    <2>1. Recieving'.Pos = Pos /\ Recieving'.Content_Length = Recieving.Content_Length
      BY <1>2, RecieveShape
    <2>2. Recieving'.Data \in Seq(Byte) /\ Begins(D, Recieving'.Data)
      <3>1. CASE Recieving'.Data = D
        BY <1>0, <3>1 DEF Begins
      <3>2. CASE \E chunk \in 0..Len(wire) : Recieving'.Data = D \o SubSeq(wire, 1, chunk)
        <4>1. PICK chunk \in 0..Len(wire) : Recieving'.Data = D \o SubSeq(wire, 1, chunk)
          BY <3>2
        <4>2. SubSeq(wire, 1, chunk) \in Seq(Byte)
          BY <1>0, CutIs
        <4> DEFINE new == SubSeq(wire, 1, chunk)
        <4>3. new \in Seq(Byte) /\ Recieving'.Data = D \o new /\ D \in Seq(Byte)
          BY <1>0, <4>1, <4>2
        <4> HIDE DEF new
        <4>4. QED
          BY <4>3, BeginsConcat
      <3>3. QED
        BY <1>2, <3>1, <3>2, RecieveShape
    <2>3. QED
      BY <2>1, <2>2, ParsedGrows
  <1>3. CASE AwaitHeader
    <2>1. HeaderEnds = {} /\ Recieving' = [Recieving EXCEPT !.Pos = Max({Pos, Len(D) - 3})]
      BY <1>3 DEF AwaitHeader
    <2>2. Max({Pos, Len(D) - 3}) \in {Pos, Len(D) - 3}
      <3>1. \E x \in {Pos, Len(D) - 3} : \A y \in {Pos, Len(D) - 3} : x >= y
        BY <1>0
      <3>2. QED
        BY <3>1 DEF Max
    <2>3. PICK P \in {Pos, Len(D) - 3} : P = Max({Pos, Len(D) - 3})
      BY <2>2
    <2>4. Recieving'.Data = D /\ Recieving'.Content_Length = Recieving.Content_Length /\ Recieving'.Pos = P
      BY <1>0, <2>1, <2>3
    <2>5. P = 0 \/ P + 3 <= Len(D)
      BY <1>0, <2>3 DEF Parsed
    <2>6. ASSUME NEW q \in Nat PROVE ~EndsAt(D, q)
      <3>1. CASE q < Pos
        BY <3>1 DEF Parsed
      <3>2. CASE ~(q < Pos)
        <4>1. Pos <= q /\ q \notin HeaderEnds
          BY <1>0, <2>1, <3>2
        <4>2. QED
          BY <4>1, EndsAreEnds
      <3>3. QED
        BY <3>1, <3>2
    <2>7. ~(Recieving.Content_Length # 0)
      BY <1>0, <2>6 DEF Parsed
    <2>8. QED
      BY <2>4, <2>5, <2>6, <2>7 DEF Parsed
  <1>4. CASE AwaitBody
    <2> DEFINE p == Min(HeaderEnds)
               c == ContentLength(p)
    <2>1. HeaderEnds # {} /\ Recieving' = [Recieving EXCEPT !.Pos = p, !.Content_Length = c]
      BY <1>4 DEF AwaitBody
    <2>2. /\ p \in Nat /\ EndsAt(D, p) /\ c = parse_http_stream_header(D, p)
          /\ \A q \in Nat : q < p => ~EndsAt(D, q)
      BY <2>1, ScanFinds
    <2> HIDE DEF p, c
    <2>3. Recieving'.Data = D /\ Recieving'.Content_Length = c /\ Recieving'.Pos = p
      BY <1>0, <2>1
    <2>4. p + 3 <= Len(D)
      BY <1>0, <2>2 DEF EndsAt
    <2>5. QED
      BY <2>2, <2>3, <2>4 DEF Parsed
  <1>5. CASE packet_recieved
    <2>1. Recieving'.Pos = 0 /\ Recieving'.Content_Length = 0
      BY <1>5, PacketShape
    <2>2. QED
      BY <2>1 DEF Parsed
  <1>6. QED
    BY <1>1, <1>2, <1>3, <1>4, <1>5
    DEF Next, vars, stream, Hold, Release, send_http_message, send_http_step, Exit

-----------------------------------------------------------------------------
(* What a message looks like.                                              *)

(* A message with headers: a first line, the length and an empty line end  *)
(* its header, of which no part but the end looks like the end.            *)
Shape(E, e, n) ==
    /\ E \in Seq(Byte) /\ Len(E) = e + 8 + n
    /\ e = 1 => E[1].is = "NUL"
    /\ E[e + 1].is = "start" /\ E[e + 2].is = "CR" /\ E[e + 3].is = "LF"
    /\ E[e + 4].is = "Content-Length" /\ E[e + 4].n = n
    /\ E[e + 5].is = "CR" /\ E[e + 6].is = "LF" /\ E[e + 7].is = "CR" /\ E[e + 8].is = "LF"

(* What there is to know of a concatenation.                               *)
Joined(j, s, t) ==
    /\ j \in Seq(Byte) /\ Len(j) = Len(s) + Len(t)
    /\ \A x \in 1..Len(s) + Len(t) : j[x] = IF x <= Len(s) THEN s[x] ELSE t[x - Len(s)]

LEMMA ConcatJoins ==
    ASSUME NEW s \in Seq(Byte), NEW t \in Seq(Byte)
    PROVE  Joined(s \o t, s, t)
  <1>1. s \o t \in Seq(Byte) /\ Len(s \o t) = Len(s) + Len(t)
    BY ConcatIs
  <1>2. \A x \in 1..Len(s) + Len(t) : (s \o t)[x] = IF x <= Len(s) THEN s[x] ELSE t[x - Len(s)]
    BY ConcatAt
  <1>3. QED
    BY <1>1, <1>2 DEF Joined

LEMMA HttpIs ==
    ASSUME NEW m \in Messages, m.Headers = TRUE, NEW k \in Nat, NEW n \in Nat, n = Len(m.Body)
    PROVE  Shape(Http(m, k), 0, n)
  <1> DEFINE a == [is |-> "start", n |-> k]
             r == [is |-> "CR", n |-> 0]
             l == [is |-> "LF", n |-> 0]
             c == [is |-> "Content-Length", n |-> n]
             H == << a >> \o <<r, l>> \o << >> \o << c >> \o <<r, l>> \o <<r, l>>
             B == [x \in DOMAIN m.Body |-> [is |-> m.Body[x], n |-> k]]
  <1>1. /\ a.is = "start" /\ r.is = "CR" /\ l.is = "LF" /\ c.is = "Content-Length" /\ c.n = n
        /\ a \in Byte /\ r \in Byte /\ l \in Byte /\ c \in Byte
    BY DEF Byte
  <1>2. m.Body \in Seq({"body", "CR", "LF"})
    BY MessageAssumption
  <1>3. B \in Seq(Byte) /\ Len(B) = n
    <2>1. DOMAIN m.Body = 1..n
      BY <1>2
    <2>2. \A x \in DOMAIN m.Body : B[x] \in Byte
      BY <1>2 DEF Byte
    <2>3. B = [x \in 1..n |-> B[x]] /\ \A x \in 1..n : B[x] \in Byte
      BY <2>1, <2>2
    <2> HIDE DEF B
    <2>4. B \in [1..n -> Byte]
      BY <2>3
    <2>5. QED
      BY <2>3, <2>4
  <1> DEFINE E == H \o B
  <1>4. Http(m, k) = E
    BY DEF Http, CRLF
  <1> HIDE DEF a, r, l, c, B
  <1>5. /\ H \in Seq(Byte) /\ Len(H) = 8
        /\ H[1] = a /\ H[2] = r /\ H[3] = l /\ H[4] = c /\ H[5] = r /\ H[6] = l /\ H[7] = r /\ H[8] = l
    <2> DEFINE s1 == << a >>
               s2 == <<r, l>>
               s3 == << c >>
               t1 == s1 \o s2
               t2 == t1 \o << >>
               t3 == t2 \o s3
               t4 == t3 \o s2
               t5 == t4 \o s2
    <2>1. /\ s1 \in Seq(Byte) /\ s2 \in Seq(Byte) /\ s3 \in Seq(Byte)
          /\ Len(s1) = 1 /\ Len(s2) = 2 /\ Len(s3) = 1
          /\ s1[1] = a /\ s2[1] = r /\ s2[2] = l /\ s3[1] = c
      BY <1>1
    <2> HIDE DEF s1, s2, s3
    <2>2. Joined(t1, s1, s2)
      BY <2>1, ConcatJoins
    <2> HIDE DEF t1
    <2>3. /\ t1 \in Seq(Byte) /\ Len(t1) = 3 /\ t1[1] = a /\ t1[2] = r /\ t1[3] = l
      BY <2>1, <2>2 DEF Joined
    <2>4. t2 = t1
      BY <2>3, ConcatEmptySeq
    <2>5. Joined(t3, t1, s3)
      BY <2>1, <2>3, <2>4, ConcatJoins
    <2> HIDE DEF t2, t3
    <2>6. /\ t3 \in Seq(Byte) /\ Len(t3) = 4
          /\ t3[1] = a /\ t3[2] = r /\ t3[3] = l /\ t3[4] = c
      BY <2>1, <2>3, <2>5 DEF Joined
    <2>7. Joined(t4, t3, s2)
      BY <2>1, <2>6, ConcatJoins
    <2> HIDE DEF t4
    <2>8. /\ t4 \in Seq(Byte) /\ Len(t4) = 6
          /\ t4[1] = a /\ t4[2] = r /\ t4[3] = l /\ t4[4] = c /\ t4[5] = r /\ t4[6] = l
      BY <2>1, <2>6, <2>7 DEF Joined
    <2>9. Joined(t5, t4, s2)
      BY <2>1, <2>8, ConcatJoins
    <2>10. H = t5
      BY DEF s1, s2, s3, t1, t2, t3, t4
    <2> HIDE DEF t5, H
    <2>11. /\ t5 \in Seq(Byte) /\ Len(t5) = 8
           /\ t5[1] = a /\ t5[2] = r /\ t5[3] = l /\ t5[4] = c
           /\ t5[5] = r /\ t5[6] = l /\ t5[7] = r /\ t5[8] = l
      BY <2>1, <2>8, <2>9 DEF Joined
    <2>12. QED
      BY <2>10, <2>11
  <1> HIDE DEF H
  <1>6. E \in Seq(Byte) /\ Len(E) = 8 + n /\ \A x \in 1..8 : E[x] = H[x]
    <2>1. Joined(E, H, B)
      BY <1>3, <1>5, ConcatJoins
    <2> HIDE DEF E
    <2>2. Len(H) = 8 /\ Len(B) = n
      BY <1>3, <1>5
    <2>3. E \in Seq(Byte) /\ Len(E) = 8 + n
      BY <2>1, <2>2 DEF Joined
    <2>4. ASSUME NEW x \in 1..8 PROVE E[x] = H[x]
      <3>1. x \in 1..Len(H) + Len(B) /\ x <= Len(H)
        BY <2>2
      <3>2. QED
        BY <2>1, <3>1 DEF Joined
    <2>5. QED
      BY <2>3, <2>4
  <1> HIDE DEF E
  <1>7. /\ E[1] = H[1] /\ E[2] = H[2] /\ E[3] = H[3] /\ E[4] = H[4]
        /\ E[5] = H[5] /\ E[6] = H[6] /\ E[7] = H[7] /\ E[8] = H[8]
    BY <1>6
  <1>8. Shape(E, 0, n)
    <2>1. /\ E[0 + 1].is = "start" /\ E[0 + 2].is = "CR" /\ E[0 + 3].is = "LF"
          /\ E[0 + 4].is = "Content-Length" /\ E[0 + 4].n = n
          /\ E[0 + 5].is = "CR" /\ E[0 + 6].is = "LF" /\ E[0 + 7].is = "CR" /\ E[0 + 8].is = "LF"
      BY <1>1, <1>5, <1>7
    <2>2. Len(E) = 0 + 8 + n
      BY <1>6
    <2>3. QED
      BY <1>6, <2>1, <2>2 DEF Shape
  <1>9. QED
    BY <1>4, <1>8

LEMMA NulIs == <<NUL>> \in Seq(Byte) /\ Len(<<NUL>>) = 1
    BY DEF NUL, Byte

(* The bytes of the messages up to the f-th that are not in its packet.    *)
Behind(f) == IF Kind = "response" /\ f > 0 THEN 1 ELSE 0

LEMMA ExpectedIs ==
    ASSUME Typed, NEW f \in Nat, f + 1 <= Len(sent), sent[f + 1].Headers = TRUE
    PROVE  /\ Shape(Expected(f + 1), Behind(f), Len(sent[f + 1].Body))
           /\ Len(sent[f + 1].Body) \in Nat /\ Behind(f) \in {0, 1}
  <1> DEFINE m == sent[f + 1]
             h == Http(m, f + 1)
  <1>1. m \in Messages /\ f + 1 \in Nat
    <2>1. sent \in Seq(Messages)
      BY DEF Typed
    <2>2. QED
      BY <2>1
  <1> HIDE DEF m
  <1>2. m.Body \in Seq({"body", "CR", "LF"})
    BY <1>1, MessageAssumption
  <1>3. PICK n \in Nat : n = Len(m.Body)
    BY <1>2
  <1>4. m.Headers = TRUE
    BY DEF m
  <1>5. Shape(h, 0, n)
    BY <1>1, <1>3, <1>4, HttpIs
  <1> HIDE DEF h
  <1>6. Shape(Expected(f + 1), Behind(f), n)
    <2>1. CASE Behind(f) = 0
      <3>1. Expected(f + 1) = << >> \o h
        <4>1. ~(Kind = "response" /\ f + 1 > 1)
          BY <2>1 DEF Behind
        <4>2. QED
          BY <4>1 DEF Expected, h, m
      <3>2. h \in Seq(Byte)
        BY <1>5 DEF Shape
      <3>3. << >> \o h = h
        BY <3>2, ConcatEmptySeq
      <3>4. QED
        BY <1>5, <2>1, <3>1, <3>3
    <2>2. CASE Behind(f) # 0
      <3>1. Behind(f) = 1 /\ Expected(f + 1) = <<NUL>> \o h
        <4>1. Kind = "response" /\ f + 1 > 1 /\ Behind(f) = 1
          BY <2>2 DEF Behind
        <4>2. QED
          BY <4>1 DEF Expected, h, m
      <3> DEFINE N == <<NUL>>
                 E == N \o h
      <3>2. N \in Seq(Byte) /\ Len(N) = 1 /\ N[1].is = "NUL"
        BY DEF NUL, Byte
      <3>3. h \in Seq(Byte) /\ Len(h) = 8 + n
        BY <1>5 DEF Shape
      <3> HIDE DEF N
      <3>4. Joined(E, N, h)
        BY <3>2, <3>3, ConcatJoins
      <3> HIDE DEF E
      <3>5. E \in Seq(Byte) /\ E[1] = N[1]
        BY <3>2, <3>3, <3>4 DEF Joined
      <3>6. E[1 + 1] = h[1] /\ E[1 + 2] = h[2] /\ E[1 + 3] = h[3] /\ E[1 + 4] = h[4]
        BY <3>2, <3>3, <3>4 DEF Joined
      <3>7. E[1 + 5] = h[5] /\ E[1 + 6] = h[6] /\ E[1 + 7] = h[7] /\ E[1 + 8] = h[8]
        BY <3>2, <3>3, <3>4 DEF Joined
      <3>8. /\ h[1].is = "start" /\ h[2].is = "CR" /\ h[3].is = "LF" /\ h[4].is = "Content-Length"
            /\ h[4].n = n /\ h[5].is = "CR" /\ h[6].is = "LF" /\ h[7].is = "CR" /\ h[8].is = "LF"
        BY <1>5 DEF Shape
      <3>9. Len(E) = 1 + 8 + n
        BY <3>2, <3>3, <3>4 DEF Joined
      <3>10. Shape(E, 1, n)
        BY <3>2, <3>5, <3>6, <3>7, <3>8, <3>9 DEF Shape
      <3>11. QED
        BY <3>1, <3>10 DEF E, N
    <2>3. QED
      BY <2>1, <2>2
  <1>7. QED
    BY <1>3, <1>6 DEF Behind, m

(* A response ends with a byte too many.                                   *)
LEMMA TextEnds ==
    ASSUME Typed, LaidDown(sent), NEW f \in Nat, f > 0, f <= Len(sent), Kind = "response"
    PROVE  /\ Text(sent, f) \in Seq(Byte) /\ Len(Text(sent, f)) >= 1
           /\ Text(sent, f)[Len(Text(sent, f))].is = "NUL"
  <1> DEFINE T == Text(sent, f - 1)
             h == Http(sent[f], f)
             N == <<NUL>>
             g == T \o h
  <1>1. PICK L \in Nat : L = Len(sent)
    BY DEF Typed
  <1>2. Text(sent, f) = T \o (h \o N)
    <2>1. f \in 0..Len(sent) /\ f # 0
      BY <1>1
    <2>2. Text(sent, f) = T \o Buffer(sent[f], f)
      BY <2>1 DEF LaidDown
    <2>3. QED
      BY <2>2 DEF Buffer
  <1>3. T \in Seq(Byte)
    <2>1. f - 1 \in 0..Len(sent)
      BY <1>1
    <2>2. QED
      BY <2>1 DEF LaidDown
  <1>4. h \in Seq(Byte)
    <2>1. sent \in Seq(Messages)
      BY DEF Typed
    <2>2. sent[f] \in Messages
      BY <1>1, <2>1
    <2>3. QED
      BY <2>2, BufferIsBytes
  <1>5. N \in Seq(Byte) /\ Len(N) = 1 /\ N[1].is = "NUL"
    BY DEF NUL, Byte
  <1> HIDE DEF T, h, N
  <1>6. T \o (h \o N) = g \o N
    <2>1. N \in Seq(Byte)
      BY <1>5
    <2>2. Join(T, Join(h, N)) = Join(Join(T, h), N)
      BY <1>3, <1>4, <2>1, JoinIs
    <2>3. QED
      BY <2>2 DEF Join
  <1>7. g \in Seq(Byte)
    BY <1>3, <1>4, ConcatIs
  <1> DEFINE t == g \o N
  <1>8. Text(sent, f) = t
    BY <1>2, <1>6
  <1> HIDE DEF g
  <1>9. Joined(t, g, N)
    BY <1>5, <1>7, ConcatJoins
  <1> HIDE DEF t
  <1>10. Len(g) \in Nat /\ t \in Seq(Byte) /\ Len(t) = Len(g) + 1 /\ t[Len(g) + 1] = N[1]
    BY <1>5, <1>7, <1>9 DEF Joined
  <1>11. QED
    BY <1>5, <1>8, <1>10

(* The next packet is laid down behind the packets before it.              *)
LiesBehind(o, f) ==
    o + Behind(f) = Len(Text(sent, f)) =>
        LET E == Expected(f + 1)
            A == Text(sent, Len(sent))
        IN  /\ o + Len(E) + Behind(f + 1) = Len(Text(sent, f + 1))
            /\ \A x \in 2..Len(E) : A[o + x] = E[x]
            /\ A[o + 1].is = E[1].is

LEMMA ExpectedLies ==
    ASSUME Typed, LaidDown(sent), NEW f \in Nat, f + 1 <= Len(sent), sent[f + 1].Headers = TRUE,
           NEW o \in Nat
    PROVE  LiesBehind(o, f)
  <1> SUFFICES ASSUME o + Behind(f) = Len(Text(sent, f)), NEW s \in Nat, s = Len(Expected(f + 1))
               PROVE  /\ o + s + Behind(f + 1) = Len(Text(sent, f + 1))
                      /\ \A x \in 2..s : Text(sent, Len(sent))[o + x] = Expected(f + 1)[x]
                      /\ Text(sent, Len(sent))[o + 1].is = Expected(f + 1)[1].is
    <2>1. Shape(Expected(f + 1), Behind(f), Len(sent[f + 1].Body))
      BY ExpectedIs
    <2>2. Len(Expected(f + 1)) \in Nat
      BY <2>1 DEF Shape
    <2>3. QED
      BY <2>2 DEF LiesBehind
  <1> DEFINE T == Text(sent, f)
             U == Text(sent, f + 1)
             A == Text(sent, Len(sent))
             E == Expected(f + 1)
             h == Http(sent[f + 1], f + 1)
             b == Buffer(sent[f + 1], f + 1)
             e == Behind(f)
             n == Len(sent[f + 1].Body)
  <1>1. PICK L \in Nat : L = Len(sent)
    BY DEF Typed
  <1>2. /\ T \in Seq(Byte) /\ U \in Seq(Byte) /\ A \in Seq(Byte)
        /\ Len(U) <= Len(A) /\ \A x \in 1..Len(U) : A[x] = U[x]
        /\ U = T \o b
    <2>1. f \in 0..Len(sent) /\ f + 1 \in 0..Len(sent) /\ f + 1 # 0 /\ f + 1 - 1 = f /\ Len(sent) \in 0..Len(sent)
      BY <1>1
    <2>2. U = Text(sent, f + 1 - 1) \o b
      BY <2>1, SMTT(30) DEF LaidDown
    <2>3. T \in Seq(Byte) /\ U \in Seq(Byte) /\ A \in Seq(Byte)
      BY <2>1 DEF LaidDown
    <2>4. Len(U) <= Len(A) /\ \A x \in 1..Len(U) : A[x] = U[x]
      BY <2>1 DEF LaidDown
    <2>5. QED
      BY <2>1, <2>2, <2>3, <2>4
  <1>3. h \in Seq(Byte) /\ b \in Seq(Byte)
    <2>1. sent \in Seq(Messages)
      BY DEF Typed
    <2>2. sent[f + 1] \in Messages /\ f + 1 \in Nat
      BY <1>1, <2>1
    <2>3. QED
      BY <2>2, BufferIsBytes
  <1>4. Shape(E, e, n) /\ n \in Nat /\ e \in {0, 1}
    BY ExpectedIs
  <1>5. Behind(f + 1) \in {0, 1}
    BY DEF Behind
  <1>6. PICK lt \in Nat, lh \in Nat, lu \in Nat : lt = Len(T) /\ lh = Len(h) /\ lu = Len(U)
    <2> HIDE DEF T, h, U, b
    <2>1. Len(T) \in Nat /\ Len(h) \in Nat /\ Len(U) \in Nat
      BY <1>2, <1>3
    <2>2. QED
      BY <2>1
  <1>7. Len(b) = lh + Behind(f + 1) /\ \A x \in 1..lh : b[x] = h[x]
    <2> DEFINE N == IF Kind = "response" THEN <<NUL>> ELSE << >>
    <2>1. N \in Seq(Byte) /\ Len(N) = Behind(f + 1)
      <3>1. CASE Kind = "response"
        <4>1. N = <<NUL>> /\ Behind(f + 1) = 1
          BY <3>1 DEF Behind
        <4> HIDE DEF N
        <4>2. QED
          BY <4>1, NulIs
      <3>2. CASE Kind # "response"
        <4>1. N = << >> /\ Behind(f + 1) = 0
          BY <3>2 DEF Behind
        <4>2. QED
          BY <4>1
      <3>3. QED
        BY <3>1, <3>2
    <2>2. b = h \o N
      BY DEF Buffer
    <2> HIDE DEF h, N, b
    <2>3. Joined(b, h, N)
      BY <1>3, <2>1, <2>2, ConcatJoins
    <2>4. Len(b) = lh + Behind(f + 1)
      BY <1>6, <2>1, <2>3 DEF Joined
    <2>5. ASSUME NEW x \in 1..lh PROVE x \in 1..Len(h) + Len(N) /\ x <= Len(h)
      BY <1>5, <1>6, <2>1
    <2>6. \A x \in 1..lh : b[x] = h[x]
      BY <2>3, <2>5 DEF Joined
    <2>7. QED
      BY <2>4, <2>6
  <1>8. Len(E) = e + lh /\ \A x \in e + 1..e + lh : E[x] = h[x - e]
    <2> DEFINE N == IF Kind = "response" /\ f + 1 > 1 THEN <<NUL>> ELSE << >>
    <2>1. N \in Seq(Byte) /\ Len(N) = e
      <3>1. CASE Kind = "response" /\ f + 1 > 1
        <4>1. N = <<NUL>> /\ e = 1
          BY <3>1 DEF Behind
        <4> HIDE DEF N
        <4>2. QED
          BY <4>1, NulIs
      <3>2. CASE ~(Kind = "response" /\ f + 1 > 1)
        <4>1. N = << >> /\ e = 0
          BY <3>2 DEF Behind
        <4>2. QED
          BY <4>1
      <3>3. QED
        BY <3>1, <3>2
    <2>2. E = N \o h
      BY DEF Expected
    <2> HIDE DEF h, N, E, e
    <2>3. Joined(E, N, h)
      BY <1>3, <2>1, <2>2, ConcatJoins
    <2>4. QED
      BY <1>4, <1>6, <2>1, <2>3 DEF Joined
  <1>9. o + e = lt /\ s = e + lh /\ lu = lt + lh + Behind(f + 1)
        /\ (\A x \in 1..lt : U[x] = T[x]) /\ (\A x \in lt + 1..lt + lh : U[x] = h[x - lt])
    <2>1. o + e = lt /\ s = e + lh
      BY <1>6, <1>8
    <2> HIDE DEF T, U, h, b, e
    <2>2. Joined(U, T, b)
      BY <1>2, <1>3, ConcatJoins
    <2>3. lu = lt + lh + Behind(f + 1)
      <3>1. Len(U) = Len(T) + Len(b)
        BY <2>2 DEF Joined
      <3>2. PICK d \in Nat : d = Behind(f + 1)
        BY <1>5
      <3>3. Len(b) = lh + d
        BY <1>7, <3>2
      <3>4. lu = lt + (lh + d)
        BY <1>6, <3>1, <3>3
      <3>5. QED
        BY <3>2, <3>4
    <2>4. ASSUME NEW x \in 1..lu PROVE U[x] = IF x <= lt THEN T[x] ELSE b[x - lt]
      BY <1>5, <1>6, <1>7, <2>2, <2>3 DEF Joined
    <2>5. ASSUME NEW x \in lt + 1..lt + lh PROVE U[x] = h[x - lt]
      <3>1. x \in 1..lu /\ ~(x <= lt) /\ x - lt \in 1..lh
        BY <1>5, <2>3
      <3>2. QED
        BY <1>7, <2>4, <3>1
    <2>6. ASSUME NEW x \in 1..lt PROVE U[x] = T[x]
      <3>1. x \in 1..lu /\ x <= lt
        BY <1>5, <2>3
      <3>2. QED
        BY <2>4, <3>1
    <2>7. QED
      BY <2>1, <2>3, <2>5, <2>6
  <1> HIDE DEF T, U, A, E, h, b, n, e
  <1>10. lh >= 8
    <2>1. Len(E) = e + 8 + n
      BY <1>4 DEF Shape
    <2>2. QED
      BY <1>4, <1>8, <2>1
  <1>11. ASSUME NEW x \in e + 1..s PROVE A[o + x] = E[x]
    <2>1. /\ x \in e + 1..e + lh /\ o + x \in lt + 1..lt + lh /\ o + x \in 1..lu
          /\ o + x - lt = x - e
      BY <1>4, <1>5, <1>9
    <2>2. A[o + x] = U[o + x]
      BY <1>2, <1>6, <2>1
    <2>3. U[o + x] = h[o + x - lt]
      BY <1>9, <2>1
    <2>4. QED
      BY <1>8, <2>1, <2>2, <2>3
  <1>12. \A x \in 2..s : A[o + x] = E[x]
    <2>1. ASSUME NEW x \in 2..s PROVE x \in e + 1..s
      BY <1>4
    <2>2. QED
      BY <1>11, <2>1
  <1>13. A[o + 1].is = E[1].is
    <2>1. CASE e = 0
      <3>1. 1 \in e + 1..s
        BY <1>9, <1>10, <2>1
      <3>2. QED
        BY <1>11, <3>1
    <2>2. CASE e = 1
      <3>1. E[1].is = "NUL"
        BY <1>4, <2>2 DEF Shape
      <3>2. Kind = "response" /\ f > 0
        BY <2>2 DEF e, Behind
      <3>3. f <= Len(sent)
        BY <1>1
      <3>4. Len(T) >= 1 /\ T[Len(T)].is = "NUL"
        BY <3>2, <3>3, TextEnds DEF T
      <3>5. o + 1 = lt /\ lt \in 1..lt /\ lt \in 1..lu
        BY <1>5, <1>6, <1>9, <2>2, <3>4
      <3>6. A[lt] = T[lt]
        BY <1>2, <1>6, <1>9, <3>5
      <3>7. QED
        BY <1>6, <3>1, <3>4, <3>5, <3>6
    <2>3. QED
      BY <1>4, <2>1, <2>2
  <1>14. o + s + Behind(f + 1) = Len(U)
    <2>1. PICK d \in Nat : d = Behind(f + 1)
      BY <1>5
    <2>2. /\ o + e = lt /\ s = e + lh
          /\ lu = lt + lh + d
      BY <1>9, <2>1
    <2>3. e \in Nat /\ Len(U) = lu
      BY <1>4, <1>6
    <2>4. o + s + d = lu
      BY <2>2, <2>3
    <2>5. QED
      BY <2>1, <2>3, <2>4
  <1>15. QED
    BY <1>2, <1>12, <1>13, <1>14 DEF A, U, E

-----------------------------------------------------------------------------
(* The next packet.                                                        *)

LEMMA TailSame ==
    ASSUME NEW s \in Seq(Byte), NEW t \in Seq(Byte), NEW n \in Nat, n >= 1, Len(s) = n, Len(t) = n,
           \A x \in 2..n : s[x] = t[x]
    PROVE  Tail(s) = Tail(t)
  <1>1. /\ Tail(s) \in Seq(Byte) /\ Len(Tail(s)) = n - 1 /\ \A x \in 1..n - 1 : Tail(s)[x] = s[x + 1]
        /\ Tail(t) \in Seq(Byte) /\ Len(Tail(t)) = n - 1 /\ \A x \in 1..n - 1 : Tail(t)[x] = t[x + 1]
    OBVIOUS
  <1> DEFINE a == Tail(s)
             b == Tail(t)
  <1> HIDE DEF a, b
  <1>2. /\ a \in Seq(Byte) /\ Len(a) = n - 1 /\ \A x \in 1..n - 1 : a[x] = s[x + 1]
        /\ b \in Seq(Byte) /\ Len(b) = n - 1 /\ \A x \in 1..n - 1 : b[x] = t[x + 1]
    BY <1>1 DEF a, b
  <1>3. ASSUME NEW x \in 1..n - 1 PROVE a[x] = b[x]
    <2>1. x + 1 \in 2..n
      OBVIOUS
    <2>2. QED
      BY <1>2, <2>1
  <1>4. a = b
    BY <1>2, <1>3, SeqEqual
  <1>5. QED
    BY <1>4 DEF a, b

(* The receiver's data are where the stream goes on behind the packets.    *)
LEMMA InStream ==
    ASSUME Typed, LaidDown(sent), Conserved, NEW x \in 1..Len(Recieving.Data),
           NEW o \in Nat, o = Len(FlattenSeq(packets)), NEW A, A = Text(sent, Len(sent))
    PROVE  /\ o + x <= Len(A)
           /\ Recieving.Data[x] = A[o + x] \/ Recieving.Data[x].is = "A"
  <1> DEFINE F == FlattenSeq(packets)
             R == Recieving.Data
             d == IF open THEN Sending.Data ELSE << >>
             Y == F \o R
             h == Stream(F, R, wire, d)
  <1>1. F \in Seq(Byte) /\ Matches(h, A)
    BY DEF Conserved, Kept
  <1>2. R \in Seq(Byte) /\ wire \in Seq(Byte) /\ d \in Seq(Byte)
    BY DEF Typed
  <1>3. A \in Seq(Byte)
    <2>1. Len(sent) \in Nat
      BY DEF Typed
    <2>2. QED
      BY <2>1 DEF LaidDown
  <1> HIDE DEF d
  <1>4. h \in Seq(Byte)
    <2> HIDE DEF F, R
    <2>1. QED
      BY <1>1, <1>2, StreamMoves
  <1>5. Y \in Seq(Byte) /\ Begins(Y, h)
    BY <1>1, <1>2, StreamBegins
  <1>6. Joined(Y, F, R)
    BY <1>1, <1>2, ConcatJoins
  <1> HIDE DEF F, h, Y
  <1>7. Matches(Y, A)
    BY <1>1, <1>3, <1>4, <1>5, MatchesBegins
  <1>8. o = Len(F) /\ x \in 1..Len(R)
    BY DEF F
  <1> HIDE DEF R
  <1>9. PICK l \in Nat : l = Len(R)
    BY <1>2
  <1>10. Len(Y) = o + l
    BY <1>6, <1>8, <1>9 DEF Joined
  <1>11. Y[o + x] = R[x]
    <2>1. o + x \in 1..Len(F) + Len(R) /\ ~(o + x <= Len(F)) /\ o + x - Len(F) = x
      BY <1>8, <1>9
    <2>2. QED
      BY <1>6, <2>1 DEF Joined
  <1>12. o + x \in 1..Len(Y)
    BY <1>8, <1>9, <1>10
  <1>13. Len(Y) <= Len(A) /\ (Y[o + x] = A[o + x] \/ Y[o + x].is = "A")
    BY <1>7, <1>12 DEF Matches
  <1>14. o + x <= Len(A)
    BY <1>3, <1>10, <1>12, <1>13
  <1>15. QED
    BY <1>11, <1>13, <1>14 DEF R

(* The parser finds the end of a header where it is, in data that begin    *)
(* with a message but for the first byte.                                  *)
FirstEnd(R, p) ==
    p \in Nat /\ EndsAt(R, p) /\ \A q \in Nat : q < p => ~EndsAt(R, q)

StartsAs(R, E, s) ==
    /\ Len(R) >= 1 => R[1].is = E[1].is \/ R[1].is = "A"
    /\ \A x \in 2..Len(R) : x <= s => R[x] = E[x]

HeaderAt(R, E, e, n, s, p) ==
    Shape(E, e, n) /\ StartsAs(R, E, s) /\ s = e + 8 + n /\ FirstEnd(R, p)

LEMMA HeaderFound ==
    ASSUME NEW R \in Seq(Byte), NEW E, NEW e \in {0, 1}, NEW n \in Nat, NEW s \in Nat, NEW p \in Nat,
           HeaderAt(R, E, e, n, s, p)
    PROVE  p = e + 4 /\ parse_http_stream_header(R, p) = n
  <1>0. Shape(E, e, n) /\ StartsAs(R, E, s) /\ s = e + 8 + n /\ FirstEnd(R, p)
    BY DEF HeaderAt
  <1>1. PICK l \in Nat : l = Len(R)
    OBVIOUS
  <1>2. p + 4 <= l /\ R[p + 1].is = "CR" /\ R[p + 2].is = "LF" /\ R[p + 3].is = "CR" /\ R[p + 4].is = "LF"
    BY <1>0, <1>1 DEF EndsAt, FirstEnd
  <1>3. /\ e = 1 => E[1].is = "NUL"
        /\ E[e + 1].is = "start" /\ E[e + 2].is = "CR" /\ E[e + 3].is = "LF"
        /\ E[e + 4].is = "Content-Length" /\ E[e + 4].n = n
        /\ E[e + 5].is = "CR" /\ E[e + 6].is = "LF" /\ E[e + 7].is = "CR" /\ E[e + 8].is = "LF"
    BY <1>0 DEF Shape
  <1>4. ASSUME NEW x \in 2..e + 8, x <= l PROVE R[x] = E[x]
    <2>1. x \in 2..Len(R) /\ x <= s
      BY <1>0, <1>1, <1>4
    <2>2. QED
      BY <1>0, <2>1 DEF StartsAs
  <1>5. l >= 1 => R[1].is = E[1].is \/ R[1].is = "A"
    BY <1>0, <1>1 DEF StartsAs
  <1>6. l >= e + 1 => R[e + 1].is \in {"start", "A"}
    <2>1. CASE e = 0
      BY <1>3, <1>5, <2>1
    <2>2. CASE e = 1
      <3>1. ASSUME l >= e + 1 PROVE R[e + 1] = E[e + 1]
        BY <1>4, <2>2, <3>1
      <3>2. QED
        BY <1>3, <3>1
    <2>3. QED
      BY <2>1, <2>2
  <1> HIDE DEF HeaderAt
  <1>d. ASSUME NEW x \in 2..8, l >= e + x PROVE R[e + x] = E[e + x]
    <2>1. e + x \in 2..e + 8 /\ e + x <= l
      BY <1>d
    <2>2. QED
      BY <1>4, <2>1
  <1>7. /\ l >= e + 2 => R[e + 2].is = "CR"
        /\ l >= e + 3 => R[e + 3].is = "LF"
        /\ l >= e + 4 => R[e + 4].is = "Content-Length" /\ R[e + 4].n = n
    BY <1>3, <1>d
  <1>8. /\ l >= e + 5 => R[e + 5].is = "CR"
        /\ l >= e + 6 => R[e + 6].is = "LF"
        /\ l >= e + 7 => R[e + 7].is = "CR"
        /\ l >= e + 8 => R[e + 8].is = "LF"
    <2>1. /\ l >= e + 5 => R[e + 5] = E[e + 5]
          /\ l >= e + 6 => R[e + 6] = E[e + 6]
          /\ l >= e + 7 => R[e + 7] = E[e + 7]
          /\ l >= e + 8 => R[e + 8] = E[e + 8]
      BY <1>d
    <2>2. QED
      BY <1>3, <2>1
  <1>9. p >= e + 4
    <2> SUFFICES ASSUME p < e + 4 PROVE FALSE
      OBVIOUS
    <2>1. p = e + 3 \/ p = e + 2 \/ p = e + 1 \/ p = e \/ (e = 1 /\ p = 0)
      OBVIOUS
    <2>2. CASE p = e + 3
      <3>1. p + 1 = e + 4 /\ l >= e + 4
        BY <1>2, <2>2
      <3>2. QED
        BY <1>2, <1>7, <3>1
    <2>3. CASE p = e + 2
      <3>1. p + 1 = e + 3 /\ l >= e + 3
        BY <1>2, <2>3
      <3>2. QED
        BY <1>2, <1>7, <3>1
    <2>4. CASE p = e + 1
      <3>1. p + 3 = e + 4 /\ l >= e + 4
        BY <1>2, <2>4
      <3>2. QED
        BY <1>2, <1>7, <3>1
    <2>5. CASE p = e
      <3>1. p + 1 = e + 1 /\ l >= e + 1
        BY <1>2, <2>5
      <3>2. QED
        BY <1>2, <1>6, <3>1
    <2>6. CASE e = 1 /\ p = 0
      <3>1. p + 2 = e + 1 /\ l >= e + 1
        BY <1>2, <2>6
      <3>2. QED
        BY <1>2, <1>6, <3>1
    <2>7. QED
      BY <2>1, <2>2, <2>3, <2>4, <2>5, <2>6
  <1>10. p = e + 4
    <2>1. l >= e + 8
      BY <1>2, <1>9
    <2>2. e + 4 + 1 = e + 5 /\ e + 4 + 2 = e + 6 /\ e + 4 + 3 = e + 7 /\ e + 4 + 4 = e + 8
      OBVIOUS
    <2>3. EndsAt(R, e + 4)
      BY <1>1, <1>8, <2>1, <2>2 DEF EndsAt
    <2>4. ~(e + 4 < p)
      BY <1>0, <2>3 DEF FirstEnd
    <2>5. QED
      BY <1>9, <2>4
  <1>11. parse_http_stream_header(R, p) = n
    <2> DEFINE named == {x \in 1..p : R[x].is = "Content-Length"}
    <2>1. l >= e + 8
      BY <1>2, <1>10
    <2>2. R[e + 4].is = "Content-Length" /\ R[e + 4].n = n
      BY <1>7, <2>1
    <2>3. ASSUME NEW x \in 1..p, x # e + 4 PROVE R[x].is # "Content-Length"
      <3>1. x = e + 1 \/ x = e + 2 \/ x = e + 3 \/ (e = 1 /\ x = 1)
        BY <1>10, <2>3
      <3>2. R[e + 1].is # "Content-Length" /\ R[e + 2].is # "Content-Length" /\ R[e + 3].is # "Content-Length"
        BY <1>6, <1>7, <2>1
      <3>3. e = 1 => R[1].is # "Content-Length"
        BY <1>3, <1>5, <2>1
      <3>4. QED
        BY <3>1, <3>2, <3>3
    <2>4. named = {e + 4}
      BY <1>10, <2>2, <2>3
    <2>5. parse_http_stream_header(R, p) = IF named = {} THEN 0 ELSE R[Min(named)].n
      BY DEF parse_http_stream_header
    <2> HIDE DEF named
    <2>6. Min(named) = e + 4
      BY <2>4 DEF Min
    <2>7. QED
      BY <2>2, <2>4, <2>5, <2>6
  <1>12. QED
    BY <1>10, <1>11

(* The next packet is the next message.                                    *)
LEMMA PacketIs ==
    ASSUME Typed, LaidDown(sent), Clean, Conserved, Parsed, packet_recieved,
           NEW f \in Nat, f <= Len(sent),
           Len(FlattenSeq(packets)) + Behind(f) = Len(Text(sent, f))
    PROVE  LET b == SubSeq(Recieving.Data, 1, PacketSize(Min(HeaderEnds)))
               E == Expected(f + 1)
           IN  /\ f + 1 <= Len(sent)
               /\ sent[f + 1].Headers = TRUE =>
                    /\ Tail(b) = Tail(E)
                    /\ Len(FlattenSeq(packets) \o b) + Behind(f + 1) = Len(Text(sent, f + 1))
  <1> DEFINE F == FlattenSeq(packets)
             R == Recieving.Data
             A == Text(sent, Len(sent))
             p == Min(HeaderEnds)
             b == SubSeq(R, 1, PacketSize(p))
             E == Expected(f + 1)
             e == Behind(f)
  <1>1. PICK L \in Nat : L = Len(sent)
    BY DEF Typed
  <1>2. R \in Seq(Byte) /\ F \in Seq(Byte)
    BY DEF Typed, Conserved, Kept
  <1>3. PICK l \in Nat, o \in Nat : l = Len(R) /\ o = Len(F)
    <2> HIDE DEF R, F
    <2>1. Len(R) \in Nat /\ Len(F) \in Nat
      BY <1>2
    <2>2. QED
      BY <2>1
  <1>4. e \in {0, 1} /\ Behind(f + 1) \in {0, 1}
    BY DEF Behind
  <1>5. /\ HeaderEnds # {} /\ PacketSize(p) \in 1..Len(R)
        /\ PacketSize(p) = p + ContentLength(p) + 4
    BY PacketShape
  <1>6. /\ p \in Nat /\ EndsAt(R, p) /\ ContentLength(p) = parse_http_stream_header(R, p)
        /\ \A q \in Nat : q < p => ~EndsAt(R, q)
    BY <1>5, ScanFinds
  <1>7. ASSUME NEW x \in 1..l PROVE o + x <= Len(A) /\ (R[x] = A[o + x] \/ R[x].is = "A")
    <2>1. x \in 1..Len(R) /\ o = Len(FlattenSeq(packets))
      BY <1>3
    <2>2. QED
      BY <2>1, InStream
  <1>8. A \in Seq(Byte)
    <2>1. Len(sent) \in Nat
      BY <1>1
    <2>2. QED
      BY <2>1 DEF LaidDown
  <1>9. f + 1 <= Len(sent)
    <2> SUFFICES ASSUME ~(f + 1 <= Len(sent)) PROVE FALSE
      OBVIOUS
    <2>1. f = Len(sent)
      BY <1>1
    <2>2. o + e = Len(A)
      BY <1>3, <2>1
    <2>3. 2 \in 1..l
      <3>1. p + 4 <= Len(R)
        BY <1>6 DEF EndsAt
      <3>2. QED
        BY <1>3, <1>6, <3>1
    <2>4. o + 2 <= Len(A)
      BY <1>7, <2>3
    <2> HIDE DEF A, e
    <2>5. QED
      BY <1>4, <2>2, <2>4
  <1>10. ASSUME sent[f + 1].Headers = TRUE
         PROVE  Tail(b) = Tail(E) /\ Len(F \o b) + Behind(f + 1) = Len(Text(sent, f + 1))
    <2>1. PICK n \in Nat : n = Len(sent[f + 1].Body) /\ Shape(E, e, n)
      BY <1>9, <1>10, ExpectedIs
    <2>2. PICK s \in Nat : s = Len(E) /\ s = e + 8 + n /\ E \in Seq(Byte)
      BY <1>4, <2>1 DEF Shape
    <2>3. /\ o + s + Behind(f + 1) = Len(Text(sent, f + 1))
          /\ \A x \in 2..s : A[o + x] = E[x]
          /\ A[o + 1].is = E[1].is
      <3>1. LiesBehind(o, f)
        BY <1>9, <1>10, ExpectedLies
      <3>2. o + Behind(f) = Len(Text(sent, f))
        BY <1>3
      <3>3. QED
        BY <2>2, <3>1, <3>2 DEF LiesBehind
    <2> HIDE DEF A, E, e, F, p
    <2>4. ASSUME NEW x \in 2..l, x <= s PROVE R[x] = E[x]
      <3>1. x \in 1..l /\ x \in 2..s /\ x \in 2..Len(R)
        BY <1>3, <2>4
      <3>2. R[x].is # "A"
        BY <3>1 DEF Clean
      <3>3. QED
        BY <1>7, <2>3, <3>1, <3>2
    <2>5. ASSUME l >= 1 PROVE R[1].is = E[1].is \/ R[1].is = "A"
      <3>1. 1 \in 1..l
        BY <2>5
      <3>2. R[1] = A[o + 1] \/ R[1].is = "A"
        BY <1>7, <3>1
      <3>3. QED
        BY <2>3, <3>2
    <2> HIDE DEF R
    <2>6. StartsAs(R, E, s)
      BY <1>3, <2>4, <2>5 DEF StartsAs
    <2>7. FirstEnd(R, p)
      BY <1>6 DEF FirstEnd
    <2>8. p = e + 4 /\ parse_http_stream_header(R, p) = n
      <3>1. Shape(E, e, n) /\ p \in Nat /\ s = e + 8 + n /\ R \in Seq(Byte) /\ e \in {0, 1}
        BY <1>2, <1>4, <1>6, <2>1, <2>2
      <3>2. QED
        <4>1. HeaderAt(R, E, e, n, s, p)
          BY <2>6, <2>7, <3>1 DEF HeaderAt
        <4>2. QED
          BY <3>1, <4>1, HeaderFound
    <2>9. PacketSize(p) = s /\ s \in 1..l
      BY <1>3, <1>4, <1>5, <1>6, <2>2, <2>8
    <2>10. b = SubSeq(R, 1, s)
      BY <2>9
    <2> HIDE DEF b
    <2>11. b \in Seq(Byte) /\ Len(b) = s /\ \A x \in 1..s : b[x] = R[x]
      <3>1. s \in 0..Len(R)
        BY <1>3, <2>9
      <3>2. QED
        BY <1>2, <2>10, <3>1, CutIs
    <2>12. \A x \in 2..s : b[x] = E[x]
      <3>1. ASSUME NEW x \in 2..s PROVE b[x] = E[x]
        <4>1. x \in 1..s /\ x \in 2..l /\ x <= s
          BY <2>9
        <4>2. QED
          BY <2>4, <2>11, <4>1
      <3>2. QED
        BY <3>1
    <2>13. Tail(b) = Tail(E)
      <3>1. s >= 1
        BY <2>9
      <3>2. QED
        BY <2>2, <2>11, <2>12, <3>1, TailSame
    <2>14. Len(F \o b) = Len(F) + Len(b)
      BY <1>2, <2>11, ConcatIs
    <2>15. QED
      BY <1>3, <2>3, <2>11, <2>13, <2>14
  <1>11. QED
    BY <1>9, <1>10

-----------------------------------------------------------------------------
(* The packets that are messages.                                          *)

(* The packets that are whole messages, and what they are.                 *)
FramedIn(P, s) == {k \in DOMAIN P : \A j \in DOMAIN s : j <= k => s[j].Headers}
ExpectedOf(s, k) == (IF Kind = "response" /\ k > 1 THEN <<NUL>> ELSE << >>) \o Http(s[k], k)

(* The first f packets are the first f messages; as long as there are no   *)
(* more packets, the next begins where the next message does.              *)
FramedTo(P, s, f) ==
    /\ f <= Len(P) /\ f <= Len(s)
    /\ FramedIn(P, s) = 1..f
    /\ f = Len(P) => Len(FlattenSeq(P)) + Behind(f) = Len(Text(s, f))
    /\ \A k \in 1..f : Tail(P[k]) = Tail(ExpectedOf(s, k))

FramedUpTo == \E f \in Nat : FramedTo(packets, sent, f)

LEMMA FramedSend ==
    ASSUME NEW P \in Seq(Seq(Byte)), NEW s \in Seq(Messages), NEW m \in Messages, LaidDown(s),
           NEW f \in Nat, FramedTo(P, s, f)
    PROVE  FramedTo(P, Append(s, m), f)
  <1> DEFINE t == Append(s, m)
  <1>1. PICK n \in Nat, l \in Nat : n = Len(s) /\ l = Len(P)
    OBVIOUS
  <1>2. Len(t) = n + 1 /\ (\A j \in 1..n : t[j] = s[j]) /\ DOMAIN t = 1..n + 1 /\ DOMAIN s = 1..n /\ DOMAIN P = 1..l
    BY <1>1
  <1>3. \A k \in 0..n : Text(t, k) = Text(s, k)
    BY <1>1, LaidAppend
  <1> HIDE DEF t
  <1>4. f <= l /\ f <= n /\ FramedIn(P, s) = 1..f /\ \A k \in 1..f : Tail(P[k]) = Tail(ExpectedOf(s, k))
    BY <1>1 DEF FramedTo
  <1>5. FramedIn(P, t) = 1..f
    <2>1. ASSUME NEW k \in 1..l, k \in FramedIn(P, t) PROVE k \in FramedIn(P, s)
      <3>1. \A j \in 1..n + 1 : j <= k => t[j].Headers
        BY <1>2, <2>1 DEF FramedIn
      <3>2. \A j \in 1..n : j <= k => s[j].Headers
        BY <1>2, <3>1
      <3>3. QED
        BY <1>2, <3>2 DEF FramedIn
    <2>2. ASSUME NEW k \in 1..l, k \in FramedIn(P, s) PROVE k \in FramedIn(P, t)
      <3>1. \A j \in 1..n : j <= k => s[j].Headers
        BY <1>2, <2>2 DEF FramedIn
      <3>2. k <= n
        BY <1>4, <2>2
      <3>3. \A j \in 1..n + 1 : j <= k => t[j].Headers
        BY <1>2, <3>1, <3>2
      <3>4. QED
        BY <1>2, <3>3 DEF FramedIn
    <2>3. \A k \in FramedIn(P, t) \cup FramedIn(P, s) : k \in 1..l
      BY <1>2 DEF FramedIn
    <2>4. FramedIn(P, t) = FramedIn(P, s)
      BY <2>1, <2>2, <2>3
    <2>5. QED
      BY <1>4, <2>4
  <1>6. ASSUME f = Len(P) PROVE Len(FlattenSeq(P)) + Behind(f) = Len(Text(t, f))
    <2>1. Text(t, f) = Text(s, f)
      BY <1>3, <1>4
    <2>2. QED
      BY <1>6, <2>1 DEF FramedTo
  <1>7. ASSUME NEW k \in 1..f PROVE Tail(P[k]) = Tail(ExpectedOf(t, k))
    <2>1. t[k] = s[k]
      BY <1>2, <1>4
    <2>2. ExpectedOf(t, k) = ExpectedOf(s, k)
      BY <2>1 DEF ExpectedOf
    <2>3. QED
      BY <1>4, <2>2
  <1>8. QED
    BY <1>1, <1>2, <1>4, <1>5, <1>6, <1>7 DEF FramedTo, t

(* A packet more, of which something is known if all so far were messages. *)
FramesNext(P, s, b, f) ==
    /\ f + 1 <= Len(s)
    /\ s[f + 1].Headers = TRUE =>
          /\ Tail(b) = Tail(ExpectedOf(s, f + 1))
          /\ Len(FlattenSeq(P) \o b) + Behind(f + 1) = Len(Text(s, f + 1))

LEMMA FramedPacket ==
    ASSUME NEW P \in Seq(Seq(Byte)), NEW s \in Seq(Messages), NEW b \in Seq(Byte),
           FlattenSeq(P) \in Seq(Byte), NEW f \in Nat, FramedTo(P, s, f),
           f = Len(P) => FramesNext(P, s, b, f)
    PROVE  \/ FramedTo(Append(P, b), s, f)
           \/ f + 1 <= Len(s) /\ FramedTo(Append(P, b), s, f + 1)
  <1> DEFINE Q == Append(P, b)
  <1>1. PICK n \in Nat, l \in Nat : n = Len(s) /\ l = Len(P)
    OBVIOUS
  <1>2. /\ DOMAIN s = 1..n /\ DOMAIN P = 1..l /\ DOMAIN Q = 1..l + 1 /\ Len(Q) = l + 1
        /\ (\A k \in 1..l : Q[k] = P[k]) /\ Q[l + 1] = b
    BY <1>1
  <1>3. FlattenSeq(Q) = FlattenSeq(P) \o b
    BY FlattenAppend
  <1> HIDE DEF Q
  <1>4. f <= l /\ f <= n /\ FramedIn(P, s) = 1..f /\ \A k \in 1..f : Tail(P[k]) = Tail(ExpectedOf(s, k))
    BY <1>1 DEF FramedTo
  <1>5. ASSUME NEW k \in 1..l PROVE k \in FramedIn(Q, s) <=> k \in 1..f
    <2>1. k \in DOMAIN P /\ k \in DOMAIN Q
      BY <1>2
    <2>2. k \in FramedIn(Q, s) <=> \A j \in DOMAIN s : j <= k => s[j].Headers
      BY <2>1, Zenon DEF FramedIn
    <2>3. k \in FramedIn(P, s) <=> \A j \in DOMAIN s : j <= k => s[j].Headers
      BY <2>1, Zenon DEF FramedIn
    <2>4. QED
      BY <1>4, <2>2, <2>3
  <1>6. \A k \in FramedIn(Q, s) : k \in 1..l + 1
    BY <1>2 DEF FramedIn
  <1>7. l + 1 \in FramedIn(Q, s) <=> \A j \in 1..n : j <= l + 1 => s[j].Headers
    <2>1. l + 1 \in DOMAIN Q
      <3>1. l + 1 \in 1..l + 1
        OBVIOUS
      <3>2. QED
        BY <1>2, <3>1, Zenon
    <2>2. l + 1 \in FramedIn(Q, s) <=> \A j \in DOMAIN s : j <= l + 1 => s[j].Headers
      BY <2>1, Zenon DEF FramedIn
    <2>3. QED
      BY <1>2, <2>2, Zenon
  <1>8. \A k \in 1..f : Tail(Q[k]) = Tail(ExpectedOf(s, k))
    <2>1. ASSUME NEW k \in 1..f PROVE k \in 1..l
      BY <1>4
    <2>2. ASSUME NEW k \in 1..f PROVE Q[k] = P[k]
      BY <1>2, <2>1
    <2>3. QED
      BY <1>4, <2>2
  <1>9. CASE l + 1 \in FramedIn(Q, s)
    <2>1. f = l
      <3>1. \A j \in 1..n : j <= l => s[j].Headers
        BY <1>7, <1>9
      <3>2. CASE l = 0
        BY <1>4, <3>2
      <3>3. CASE l > 0
        <4>1. l \in FramedIn(P, s)
          BY <1>2, <3>1, <3>3 DEF FramedIn
        <4>2. QED
          BY <1>4, <4>1
      <3>4. QED
        BY <3>2, <3>3
    <2>2. FramesNext(P, s, b, f)
      BY <1>1, <2>1
    <2>3. f + 1 <= n
      BY <1>1, <2>2 DEF FramesNext
    <2>4. s[f + 1].Headers = TRUE
      <3>1. f + 1 \in 1..n /\ f + 1 <= l + 1
        BY <2>1, <2>3
      <3>2. s[f + 1].Headers
        BY <1>7, <1>9, <3>1
      <3>3. s[f + 1] \in Messages
        BY <1>1, <3>1
      <3>4. s[f + 1].Headers \in BOOLEAN
        BY <3>3, MessageAssumption
      <3>5. QED
        BY <3>2, <3>4
    <2>5. Tail(b) = Tail(ExpectedOf(s, f + 1)) /\ Len(FlattenSeq(P) \o b) + Behind(f + 1) = Len(Text(s, f + 1))
      BY <2>2, <2>4 DEF FramesNext
    <2>6. FramedIn(Q, s) = 1..f + 1
      <3>1. ASSUME NEW k \in 1..l + 1 PROVE k \in FramedIn(Q, s)
        <4>1. k = l + 1 \/ k \in 1..l
          OBVIOUS
        <4>2. QED
          BY <1>5, <1>9, <2>1, <4>1
      <3>2. QED
        BY <1>6, <2>1, <3>1
    <2>7. \A k \in 1..f + 1 : Tail(Q[k]) = Tail(ExpectedOf(s, k))
      <3>1. ASSUME NEW k \in 1..f + 1 PROVE Tail(Q[k]) = Tail(ExpectedOf(s, k))
        <4>1. k = f + 1 \/ k \in 1..f
          OBVIOUS
        <4>2. QED
          BY <1>2, <1>8, <2>1, <2>5, <4>1
      <3>2. QED
        BY <3>1
    <2>8. FramedTo(Q, s, f + 1)
      <3>1. f + 1 <= Len(Q) /\ f + 1 <= Len(s)
        BY <1>1, <1>2, <2>1, <2>3
      <3>2. Len(FlattenSeq(Q)) + Behind(f + 1) = Len(Text(s, f + 1))
        BY <1>3, <2>5
      <3>3. QED
        BY <2>6, <2>7, <3>1, <3>2 DEF FramedTo
    <2>9. QED
      BY <1>1, <2>3, <2>8 DEF Q
  <1>10. CASE l + 1 \notin FramedIn(Q, s)
    <2>1. FramedIn(Q, s) = 1..f
      <3>1. ASSUME NEW k \in FramedIn(Q, s) PROVE k \in 1..f
        <4>1. k \in 1..l
          BY <1>6, <1>10
        <4>2. QED
          BY <1>5, <4>1
      <3>2. ASSUME NEW k \in 1..f PROVE k \in FramedIn(Q, s)
        BY <1>4, <1>5
      <3>3. QED
        BY <3>1, <3>2
    <2>2. f # Len(Q) /\ f <= Len(Q)
      BY <1>2, <1>4
    <2>3. FramedTo(Q, s, f)
      BY <1>1, <1>4, <1>8, <2>1, <2>2 DEF FramedTo
    <2>4. QED
      BY <2>3 DEF Q
  <1>11. QED
    BY <1>9, <1>10

(* A step keeps the framed packets or adds the next to them.               *)
LEMMA FramedStep ==
    ASSUME Typed, LaidDown(sent), Clean, Conserved, Parsed, [Next]_vars,
           NEW f \in Nat, FramedTo(packets, sent, f)
    PROVE  \/ FramedTo(packets', sent', f)
           \/ UNCHANGED <<sent, open>> /\ f + 1 <= Len(sent) /\ FramedTo(packets', sent', f + 1)
  <1>0. packets \in Seq(Seq(Byte)) /\ sent \in Seq(Messages) /\ FlattenSeq(packets) \in Seq(Byte)
    BY DEF Typed, Conserved, Kept
  <1>1. ASSUME NEW m \in Messages, send_http_message(m)
        PROVE  FramedTo(packets', sent', f)
    <2>1. sent' = Append(sent, m) /\ packets' = packets
      BY <1>1 DEF send_http_message
    <2>2. FramedTo(packets, Append(sent, m), f)
      BY <1>0, FramedSend
    <2>3. QED
      BY <2>1, <2>2
  <1>2. CASE packet_recieved
    <2> DEFINE b == SubSeq(Recieving.Data, 1, PacketSize(Min(HeaderEnds)))
    <2>1. packets' = Append(packets, b) /\ UNCHANGED <<sent, open>>
      BY <1>2, PacketShape
    <2>2. b \in Seq(Byte)
      <3>1. HeaderEnds # {} /\ ~BodyMissing(Min(HeaderEnds))
        BY <1>2, PacketShape
      <3>2. QED
        BY <3>1, PacketTaken
    <2>3. ASSUME f = Len(packets) PROVE FramesNext(packets, sent, b, f)
      <3>1. f <= Len(sent) /\ Len(FlattenSeq(packets)) + Behind(f) = Len(Text(sent, f))
        BY <2>3 DEF FramedTo
      <3>2. /\ f + 1 <= Len(sent)
            /\ sent[f + 1].Headers = TRUE =>
                 /\ Tail(b) = Tail(Expected(f + 1))
                 /\ Len(FlattenSeq(packets) \o b) + Behind(f + 1) = Len(Text(sent, f + 1))
        BY <1>2, <3>1, PacketIs
      <3>3. Expected(f + 1) = ExpectedOf(sent, f + 1)
        BY DEF Expected, ExpectedOf
      <3> HIDE DEF b
      <3>4. QED
        BY <3>2, <3>3 DEF FramesNext
    <2> HIDE DEF b
    <2>4. \/ FramedTo(Append(packets, b), sent, f)
          \/ f + 1 <= Len(sent) /\ FramedTo(Append(packets, b), sent, f + 1)
      BY <1>0, <2>2, <2>3, FramedPacket
    <2>5. QED
      BY <2>1, <2>4
  <1>3. CASE UNCHANGED <<packets, sent>>
    BY <1>3
  <1>4. QED
    BY <1>1, <1>2, <1>3
    DEF Next, vars, stream, Hold, Release, send_http_step, Exit, recieve_http_step,
        AwaitHeader, AwaitBody

-----------------------------------------------------------------------------
(* The refinement of MessageChannel.                                       *)

(* The first f of s, as they are delivered.                                *)
Firsts(s, f) == [k \in 1..f |-> s[k]]

LEMMA FirstsAppend ==
    ASSUME NEW S, NEW s \in Seq(S), NEW f \in Nat, f + 1 <= Len(s)
    PROVE  /\ Len(Firsts(s, f)) = f
           /\ Firsts(s, f + 1) = Append(Firsts(s, f), s[f + 1])
  <1> DEFINE a == Firsts(s, f)
  <1>1. PICK n \in Nat : n = Len(s)
    OBVIOUS
  <1>2. \A k \in 1..f + 1 : s[k] \in S
    BY <1>1
  <1>3. a \in Seq(S) /\ Len(a) = f /\ \A k \in 1..f : a[k] = s[k]
    BY <1>2 DEF Firsts
  <1> HIDE DEF a
  <1>4. Append(a, s[f + 1]) = [k \in 1..f + 1 |-> s[k]]
    <2>1. s[f + 1] \in S
      BY <1>2
    <2>2. /\ Append(a, s[f + 1]) \in Seq(S) /\ Len(Append(a, s[f + 1])) = f + 1
          /\ \A k \in 1..f + 1 : Append(a, s[f + 1])[k] = s[k]
      BY <1>3, <2>1
    <2>3. QED
      BY <2>2
  <1>5. QED
    BY <1>3, <1>4 DEF Firsts, a

LEMMA FirstsAlike ==
    ASSUME NEW S, NEW s \in Seq(S), NEW m \in S, NEW f \in Nat, f <= Len(s)
    PROVE  Firsts(Append(s, m), f) = Firsts(s, f)
  <1>1. PICK n \in Nat : n = Len(s)
    OBVIOUS
  <1>2. \A k \in 1..f : Append(s, m)[k] = s[k]
    BY <1>1
  <1>3. QED
    BY <1>2 DEF Firsts

(* What the channel has delivered are the messages framed.                 *)
DeliveredOf(P, s) ==
    [k \in FramedIn(P, s) |->
        IF k \in DOMAIN s /\ Tail(P[k]) = Tail(ExpectedOf(s, k)) THEN s[k] ELSE Garbled]

LEMMA DeliveredIs ==
    ASSUME NEW P, NEW s \in Seq(Messages), NEW f \in Nat, FramedTo(P, s, f)
    PROVE  DeliveredOf(P, s) = Firsts(s, f)
  <1>1. PICK n \in Nat : n = Len(s)
    OBVIOUS
  <1>2. f <= n /\ FramedIn(P, s) = 1..f /\ \A k \in 1..f : Tail(P[k]) = Tail(ExpectedOf(s, k))
    BY <1>1 DEF FramedTo
  <1>3. \A k \in 1..f : k \in DOMAIN s
    BY <1>1, <1>2
  <1>4. QED
    BY <1>2, <1>3, Zenon DEF DeliveredOf, Firsts

LEMMA DeliveredNow ==
    /\ [k \in Framed |-> Reading(k)] = DeliveredOf(packets, sent)
    /\ ([k \in Framed |-> Reading(k)])' = DeliveredOf(packets', sent')
  BY Zenon DEF DeliveredOf, Framed, FramedIn, Reading, Expected, ExpectedOf, Http, Garbled

LEMMA FramedInit == Init => FramedUpTo /\ Channel!Init
  <1> SUFFICES ASSUME Init PROVE FramedUpTo /\ Channel!Init
    OBVIOUS
  <1> DEFINE e == << >>
  <1>1. packets = e /\ sent = e /\ open = TRUE
    BY DEF Init
  <1>2. FlattenSeq(e) = e /\ Text(e, 0) = e /\ Len(e) = 0 /\ e \in Seq(Messages) /\ DOMAIN e = {}
    BY FlattenEmpty, LaidEmpty
  <1>3. Behind(0) = 0
    BY DEF Behind
  <1> HIDE DEF e
  <1>4. FramedIn(e, e) = {}
    BY <1>2 DEF FramedIn
  <1>5. 1..0 = {}
    OBVIOUS
  <1>6. FramedTo(e, e, 0)
    <2>1. Len(FlattenSeq(e)) + Behind(0) = Len(Text(e, 0))
      BY <1>2, <1>3
    <2>2. QED
      BY <1>2, <1>4, <1>5, <2>1 DEF FramedTo
  <1>7. DeliveredOf(e, e) = Firsts(e, 0)
    <2>1. e \in Seq(Messages) /\ 0 \in Nat
      BY DEF e
    <2>2. QED
      BY <1>6, <2>1, DeliveredIs
  <1>8. Firsts(e, 0) = << >>
    BY DEF Firsts
  <1>9. QED
    BY <1>1, <1>6, <1>7, <1>8, DeliveredNow DEF e, FramedUpTo, Channel!Init

(* A step of the stream is one of the channel, or changes nothing there.   *)
LEMMA ChannelStep ==
    ASSUME Typed, LaidDown(sent), Clean, Conserved, Parsed, FramedUpTo, [Next]_vars
    PROVE  FramedUpTo' /\ [Channel!Next]_Channel!vars
  <1> DEFINE d == [k \in Framed |-> Reading(k)]
  <1>1. PICK f \in Nat : FramedTo(packets, sent, f)
    BY DEF FramedUpTo
  <1>2. \/ FramedTo(packets', sent', f)
        \/ UNCHANGED <<sent, open>> /\ f + 1 <= Len(sent) /\ FramedTo(packets', sent', f + 1)
    BY <1>1, FramedStep
  <1>3. FramedUpTo'
    BY <1>2 DEF FramedUpTo
  <1>4. sent \in Seq(Messages) /\ open \in BOOLEAN
    BY DEF Typed
  <1>5. d = Firsts(sent, f)
    BY <1>1, <1>4, DeliveredIs, DeliveredNow
  <1>6. d' = DeliveredOf(packets', sent')
    BY DeliveredNow
  <1>7. CASE UNCHANGED <<sent, open>> /\ f + 1 <= Len(sent) /\ FramedTo(packets', sent', f + 1)
    <2>1. d' = Firsts(sent, f + 1)
      BY <1>4, <1>6, <1>7, DeliveredIs
    <2>2. Len(d) = f /\ d' = Append(d, sent[f + 1])
      BY <1>4, <1>5, <1>7, <2>1, FirstsAppend
    <2> HIDE DEF d
    <2>3. Len(d) < Len(sent)
      BY <1>4, <1>7, <2>2
    <2>4. Channel!Deliver
      BY <1>7, <2>2, <2>3 DEF Channel!Deliver, d
    <2>5. QED
      BY <1>3, <2>4 DEF Channel!Next
  <1>8. CASE FramedTo(packets', sent', f)
    <2>1. f <= Len(sent)
      BY <1>1 DEF FramedTo
    <2>2. ASSUME NEW m \in Messages, send_http_message(m)
          PROVE  Channel!Send(m)
      <3>1. open /\ sent' = Append(sent, m) /\ open' = open
        BY <2>2 DEF send_http_message, SenderRuns
      <3>2. sent' \in Seq(Messages)
        BY <1>4, <3>1
      <3>3. d' = Firsts(sent', f)
        BY <1>6, <1>8, <3>2, DeliveredIs
      <3>4. d' = d
        BY <1>4, <1>5, <2>1, <3>1, <3>3, FirstsAlike
      <3>5. QED
        BY <3>1, <3>4 DEF Channel!Send
    <2>3. ASSUME sent' = sent PROVE d' = d
      BY <1>4, <1>5, <1>6, <1>8, <2>3, DeliveredIs
    <2>4. ASSUME Exit PROVE Channel!Close
      BY <2>3, <2>4 DEF Exit, Channel!Close
    <2>5. ASSUME UNCHANGED <<sent, open>> PROVE UNCHANGED Channel!vars
      BY <2>3, <2>5 DEF Channel!vars
    <2>6. QED
      BY <1>3, <2>2, <2>4, <2>5, PacketShape
      DEF Channel!Next, Next, vars, stream, Hold, Release, send_http_step, recieve_http_step,
          AwaitHeader, AwaitBody
  <1>9. QED
    BY <1>2, <1>7, <1>8

(* Until a message goes out with no headers, one packet is cut per         *)
(* message: the message, whole but for its first byte.  Every step of the  *)
(* stream is one of MessageChannel, or changes nothing there.              *)
THEOREM StreamImplementsChannel == Spec => ImplementsChannel
  <1>1. Init => Typed /\ LaidDown(sent) /\ Clean /\ Conserved /\ Parsed /\ FramedUpTo /\ Channel!Init
    BY TypedInit, CleanInit, ConservedInit, ParsedInit, FramedInit
  <1>2. Typed /\ LaidDown(sent) /\ Clean /\ Conserved /\ Parsed /\ FramedUpTo /\ [Next]_vars
            => (Typed /\ LaidDown(sent) /\ Clean /\ Conserved /\ Parsed)' /\ FramedUpTo'
               /\ [Channel!Next]_Channel!vars
    BY TypedNext, LaidNext, CleanNext, ConservedNext, ParsedNext, ChannelStep
  <1>3. QED
    BY <1>1, <1>2, PTL DEF Spec, ImplementsChannel, Channel!Spec
=============================================================================
