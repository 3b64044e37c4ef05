------------------------ MODULE ServerTrafficProofs ------------------------
(***************************************************************************)
(* How the upload server takes requests out of bytes, for messages of any  *)
(* number and size and for every way to cut them: what the page's builders *)
(* write the server's parsers read back, the buffer of a connection never  *)
(* loses its place, and OnTraffic implements RequestStream.                *)
(***************************************************************************)
EXTENDS ServerTraffic, SequenceTheorems, TLAPS

-----------------------------------------------------------------------------
(* Reading inverts writing.                                                *)

\* The bytes s stand in b behind the first at bytes.
Holds(b, at, s) ==
    /\ at + Len(s) <= Len(b)
    /\ \A k \in 1 .. Len(s) : b[at + k] = s[k]

\* What is built piece by piece is found piece by piece.
LEMMA HoldsConcat ==
    ASSUME NEW b \in Seq(Byte), NEW at \in Nat,
           NEW s \in Seq(Byte), NEW t \in Seq(Byte),
           Holds(b, at, s \o t)
    PROVE  Holds(b, at, s) /\ Holds(b, at + Len(s), t)
<1>1. /\ Len(s \o t) = Len(s) + Len(t)
      /\ Len(s) \in Nat /\ Len(t) \in Nat
      /\ \A k \in 1 .. Len(s) + Len(t) :
            (s \o t)[k] = IF k <= Len(s) THEN s[k] ELSE t[k - Len(s)]
  BY ConcatProperties, LenProperties
<1>2. at + Len(s) + Len(t) <= Len(b) /\ Len(b) \in Nat
  BY <1>1, LenProperties DEF Holds
<1>3. \A k \in 1 .. Len(s) + Len(t) : b[at + k] = (s \o t)[k]
  BY <1>1 DEF Holds
<1>4. ASSUME NEW k \in 1 .. Len(s) PROVE b[at + k] = s[k]
  <2>1. k \in 1 .. Len(s) + Len(t) /\ k <= Len(s)
    BY <1>1
  <2> QED
    BY <1>1, <1>3, <2>1
<1>5. ASSUME NEW k \in 1 .. Len(t)
      PROVE  b[at + Len(s) + k] = t[k]
  <2> DEFINE j == Len(s) + k
  <2>1. /\ j \in 1 .. Len(s) + Len(t) /\ ~(j <= Len(s))
        /\ at + j = at + Len(s) + k /\ j - Len(s) = k
    BY <1>1
  <2> HIDE DEF j
  <2>2. b[at + j] = t[j - Len(s)]
    BY <1>1, <1>3, <2>1
  <2> QED
    BY <2>1, <2>2
<1> QED
  BY <1>1, <1>2, <1>4, <1>5 DEF Holds

\* A slice of the right length is what stands there.
LEMMA SliceHolds ==
    ASSUME NEW b \in Seq(Byte), NEW at \in Nat, NEW s \in Seq(Byte),
           Holds(b, at, s)
    PROVE  Slice(b, at, at + Len(s)) = s
<1>1. Len(s) \in Nat /\ Len(b) \in Nat /\ at + Len(s) <= Len(b)
  BY LenProperties DEF Holds
<1>2. \A i \in at + 1 .. at + Len(s) : b[i] \in Byte
  BY <1>1, ElementOfSeq
<1> DEFINE t == SubSeq(b, at + 1, at + Len(s))
<1>3. /\ t \in Seq(Byte)
      /\ Len(t) = IF at + 1 <= at + Len(s) THEN at + Len(s) - (at + 1) + 1 ELSE 0
      /\ \A i \in 1 .. at + Len(s) - (at + 1) + 1 : t[i] = b[at + 1 + i - 1]
  <2>1. at + 1 \in Int /\ at + Len(s) \in Int
    BY <1>1
  <2> HIDE DEF t
  <2> QED
    BY <1>2, <2>1, SubSeqProperties DEF t
<1> HIDE DEF t
<1>4. Len(t) = Len(s)
  BY <1>1, <1>3
<1>5. ASSUME NEW i \in 1 .. Len(s) PROVE t[i] = s[i]
  <2>1. t[i] = b[at + 1 + i - 1]
    BY <1>1, <1>3
  <2>2. at + 1 + i - 1 = at + i
    BY <1>1
  <2> QED
    BY <2>1, <2>2 DEF Holds
<1> QED
  BY <1>3, <1>4, <1>5, SeqEqual DEF t, Slice

LEMMA Uint16Bytes ==
    ASSUME NEW n, IsUint16(n)
    PROVE  Uint16(n) \in Seq(Byte) /\ Len(Uint16(n)) = 2
<1>1. n \in Nat /\ n \div 256 \in Byte /\ n % 256 \in Byte
  BY DEF IsUint16, Byte
<1> QED
  BY <1>1 DEF Uint16

LEMMA Uint16Holds ==
    ASSUME NEW b \in Seq(Byte), NEW at \in Nat, NEW n, IsUint16(n),
           Holds(b, at, Uint16(n))
    PROVE  ReadUint16(b, at) = n
<1>1. n \in Nat /\ (n \div 256) * 256 + (n % 256) = n
  BY DEF IsUint16
<1>2. b[at + 1] = n \div 256 /\ b[at + 2] = n % 256
  BY Uint16Bytes DEF Holds, Uint16
<1> QED
  BY <1>1, <1>2 DEF ReadUint16

\* The two halves of a number of 32 bits.
LEMMA Halves ==
    ASSUME NEW n, IsUint32(n)
    PROVE  /\ IsUint16(n \div 65536) /\ IsUint16(n % 65536)
           /\ (n \div 65536) * 65536 + (n % 65536) = n
  BY DEF IsUint32, IsUint16

LEMMA Uint32Bytes ==
    ASSUME NEW n, IsUint32(n)
    PROVE  Uint32(n) \in Seq(Byte) /\ Len(Uint32(n)) = 4
<1> DEFINE high == Uint16(n \div 65536)
           low  == Uint16(n % 65536)
<1>1. high \in Seq(Byte) /\ Len(high) = 2 /\ low \in Seq(Byte) /\ Len(low) = 2
  BY Halves, Uint16Bytes
<1> HIDE DEF high, low
<1>2. high \o low \in Seq(Byte) /\ Len(high \o low) = Len(high) + Len(low)
  BY <1>1, ConcatProperties
<1>3. Uint32(n) = high \o low
  BY DEF Uint32, high, low
<1> QED
  BY <1>1, <1>2, <1>3

LEMMA Uint32Holds ==
    ASSUME NEW b \in Seq(Byte), NEW at \in Nat, NEW n, IsUint32(n),
           Holds(b, at, Uint32(n))
    PROVE  ReadUint32(b, at) = n
<1> DEFINE high == n \div 65536
           low  == n % 65536
<1>1. IsUint16(high) /\ IsUint16(low) /\ high * 65536 + low = n
  BY Halves
<1>2. /\ Uint16(high) \in Seq(Byte) /\ Len(Uint16(high)) = 2
      /\ Uint16(low) \in Seq(Byte)
  BY <1>1, Uint16Bytes
<1>3. Uint32(n) = Uint16(high) \o Uint16(low)
  BY DEF Uint32
<1> HIDE DEF high, low
<1>4. Holds(b, at, Uint16(high)) /\ Holds(b, at + 2, Uint16(low))
  BY <1>2, <1>3, HoldsConcat
<1>5. at + 2 \in Nat
  OBVIOUS
<1>6. ReadUint16(b, at) = high /\ ReadUint16(b, at + 2) = low
  BY <1>1, <1>4, <1>5, Uint16Holds
<1> QED
  BY <1>1, <1>6 DEF ReadUint32

\* What stands in the bytes of a connection stands in the part that has come.
LEMMA HoldsSlice ==
    ASSUME NEW b \in Seq(Byte), NEW from \in Nat, NEW to \in Nat,
           from <= to, to <= Len(b)
    PROVE  LET c == Slice(b, from, to)
           IN  /\ c \in Seq(Byte) /\ Len(c) = to - from
               /\ \A at \in Nat, s \in Seq(Byte) :
                     Holds(b, from + at, s) /\ at + Len(s) <= Len(c) => Holds(c, at, s)
<1> DEFINE c == Slice(b, from, to)
<1>1. \A i \in from + 1 .. to : b[i] \in Byte
  BY ElementOfSeq, LenProperties
<1>2. /\ c \in Seq(Byte)
      /\ Len(c) = IF from + 1 <= to THEN to - (from + 1) + 1 ELSE 0
      /\ \A i \in 1 .. to - (from + 1) + 1 : c[i] = b[from + 1 + i - 1]
  BY <1>1, SubSeqProperties DEF Slice
<1> HIDE DEF c
<1>3. Len(c) = to - from
  <2>1. CASE from = to
    BY <1>2, <2>1
  <2>2. CASE from < to
    BY <1>2, <2>2
  <2> QED
    BY <2>1, <2>2
<1>4. ASSUME NEW at \in Nat, NEW s \in Seq(Byte),
             Holds(b, from + at, s), at + Len(s) <= Len(c)
      PROVE  Holds(c, at, s)
  <2>1. Len(s) \in Nat
    BY LenProperties
  <2>2. ASSUME NEW k \in 1 .. Len(s) PROVE c[at + k] = s[k]
    <3> DEFINE i == at + k
    <3>1. i \in 1 .. to - (from + 1) + 1 /\ from + 1 + i - 1 = from + at + k
      BY <1>3, <1>4, <2>1
    <3>2. b[from + at + k] = s[k]
      BY <1>4 DEF Holds
    <3> HIDE DEF i
    <3>3. c[i] = b[from + 1 + i - 1]
      BY <1>2, <3>1
    <3> QED
      BY <3>1, <3>2, <3>3 DEF i
  <2> QED
    BY <1>4, <2>2 DEF Holds
<1> QED
  BY <1>2, <1>3, <1>4 DEF c

LEMMA HoldsAll ==
    ASSUME NEW s \in Seq(Byte)
    PROVE  Holds(s, 0, s)
<1>1. Len(s) \in Nat
  BY LenProperties
<1>2. \A k \in 1 .. Len(s) : 0 + k = k
  OBVIOUS
<1> QED
  BY <1>1, <1>2 DEF Holds

\* The front of a payload: its command, the size of the id, and the id.
LEMMA FrontHolds ==
    ASSUME NEW r, r.cmd \in Byte, r.id \in Seq(Byte), IsUint16(Len(r.id)),
           NEW b \in Seq(Byte)
    PROVE  LET s == buildSessionPayload(r)
           IN  /\ s \in Seq(Byte) /\ Len(s) = 3 + Len(r.id)
               /\ Holds(b, 0, s) => /\ b[1] = r.cmd
                                   /\ Holds(b, 1, Uint16(Len(r.id)))
                                   /\ Holds(b, 3, r.id)
<1> DEFINE L == Len(r.id)
           A == <<r.cmd>>
           B == A \o Uint16(L)
           s == B \o r.id
<1>1. L \in Nat /\ Uint16(L) \in Seq(Byte) /\ Len(Uint16(L)) = 2
  BY Uint16Bytes, LenProperties
<1>2. A \in Seq(Byte) /\ Len(A) = 1
  OBVIOUS
<1> HIDE DEF A
<1>3. B \in Seq(Byte) /\ Len(B) = 3
  <2>1. B \in Seq(Byte) /\ Len(B) = Len(A) + Len(Uint16(L))
    BY <1>1, <1>2, ConcatProperties
  <2> QED
    BY <1>1, <1>2, <2>1
<1> HIDE DEF B
<1>4. s \in Seq(Byte) /\ Len(s) = 3 + L
  <2>1. s \in Seq(Byte) /\ Len(s) = Len(B) + Len(r.id)
    BY <1>3, ConcatProperties
  <2> QED
    BY <1>3, <2>1
<1>5. ASSUME Holds(b, 0, s)
      PROVE  b[1] = r.cmd /\ Holds(b, 1, Uint16(L)) /\ Holds(b, 3, r.id)
  <2>1. Holds(b, 0, B) /\ Holds(b, 0 + Len(B), r.id)
    BY <1>3, <1>5, HoldsConcat
  <2>2. Holds(b, 0, A) /\ Holds(b, 0 + Len(A), Uint16(L))
    BY <1>1, <1>2, <2>1, HoldsConcat DEF B
  <2>3. b[0 + 1] = A[1]
    BY <1>2, <2>2 DEF Holds
  <2> QED
    BY <1>2, <1>3, <2>1, <2>2, <2>3 DEF A
<1>6. s = buildSessionPayload(r)
  BY DEF buildSessionPayload, A, B
<1> HIDE DEF s
<1> QED
  BY <1>4, <1>5, <1>6

\* Two numbers behind that: CMD_INIT_UPLOAD, and the header of CMD_UPLOAD_CHUNK.
LEMMA NumbersHold ==
    ASSUME NEW r, r.cmd \in Byte, r.id \in Seq(Byte), IsUint16(Len(r.id)),
           NEW x, IsUint32(x), NEW y, IsUint32(y), NEW b \in Seq(Byte)
    PROVE  LET s == buildSessionPayload(r) \o Uint32(x) \o Uint32(y)
           IN  /\ s \in Seq(Byte) /\ Len(s) = 11 + Len(r.id)
               /\ Holds(b, 0, s) => /\ Holds(b, 0, buildSessionPayload(r))
                                   /\ Holds(b, 3 + Len(r.id), Uint32(x))
                                   /\ Holds(b, 7 + Len(r.id), Uint32(y))
<1> DEFINE L == Len(r.id)
           A == buildSessionPayload(r)
           B == A \o Uint32(x)
           s == B \o Uint32(y)
<1>1. /\ Uint32(x) \in Seq(Byte) /\ Len(Uint32(x)) = 4
      /\ Uint32(y) \in Seq(Byte) /\ Len(Uint32(y)) = 4
  BY Uint32Bytes
<1>2. L \in Nat /\ A \in Seq(Byte) /\ Len(A) = 3 + L
  BY FrontHolds, LenProperties
<1> HIDE DEF A
<1>3. B \in Seq(Byte) /\ Len(B) = 7 + L
  <2>1. B \in Seq(Byte) /\ Len(B) = Len(A) + Len(Uint32(x))
    BY <1>1, <1>2, ConcatProperties
  <2> QED
    BY <1>1, <1>2, <2>1
<1> HIDE DEF B
<1>4. s \in Seq(Byte) /\ Len(s) = 11 + L
  <2>1. s \in Seq(Byte) /\ Len(s) = Len(B) + Len(Uint32(y))
    BY <1>1, <1>3, ConcatProperties
  <2> QED
    BY <1>1, <1>2, <1>3, <2>1
<1>5. ASSUME Holds(b, 0, s)
      PROVE  /\ Holds(b, 0, A) /\ Holds(b, 3 + L, Uint32(x))
             /\ Holds(b, 7 + L, Uint32(y))
  <2>1. Holds(b, 0, B) /\ Holds(b, 0 + Len(B), Uint32(y))
    BY <1>1, <1>3, <1>5, HoldsConcat
  <2>2. Holds(b, 0, A) /\ Holds(b, 0 + Len(A), Uint32(x))
    BY <1>1, <1>2, <2>1, HoldsConcat DEF B
  <2>3. 0 + Len(A) = 3 + L /\ 0 + Len(B) = 7 + L
    BY <1>2, <1>3
  <2> QED
    BY <2>1, <2>2, <2>3
<1>6. s = A \o Uint32(x) \o Uint32(y)
  BY DEF B
<1> HIDE DEF s
<1> QED
  BY <1>4, <1>5, <1>6 DEF A

\* The data of a command, data = payload[1:], have what the payload has a byte
\* further on.
LEMMA DataHold ==
    ASSUME NEW p \in Seq(Byte), NEW at \in Nat, NEW s \in Seq(Byte),
           Holds(p, at + 1, s)
    PROVE  /\ From(p, 1) \in Seq(Byte) /\ Len(From(p, 1)) = Len(p) - 1
           /\ Holds(From(p, 1), at, s)
<1>1. Len(p) \in Nat /\ Len(s) \in Nat /\ at + 1 + Len(s) <= Len(p)
  BY LenProperties DEF Holds
<1>2. From(p, 1) = Slice(p, 1, Len(p))
  BY DEF From, Slice
<1>3. 1 + at = at + 1 /\ 1 <= Len(p) /\ at + Len(s) <= Len(p) - 1
  BY <1>1
<1> QED
  BY <1>1, <1>2, <1>3, HoldsSlice

\* The parsers find the id, and the numbers behind it, where the 16-bit sums are
\* exact.
LEMMA IdRead ==
    ASSUME NEW data \in Seq(Byte), NEW id \in Seq(Byte), IsUint16(Len(id) + 2),
           Holds(data, 0, Uint16(Len(id))), Holds(data, 2, id)
    PROVE  /\ IdSize(data) = Len(id) /\ Id(data) = id
           /\ Len(data) >= 2 + Len(id) /\ Wrap16(2 + Len(id)) = 2 + Len(id)
<1>1. Len(id) \in Nat /\ Len(id) + 2 < 65536 /\ IsUint16(Len(id))
  BY LenProperties DEF IsUint16
<1>2. IdSize(data) = Len(id)
  BY <1>1, Uint16Holds DEF IdSize
<1>3. Wrap16(2 + Len(id)) = 2 + Len(id)
  BY <1>1 DEF Wrap16
<1>4. Id(data) = id
  BY <1>2, <1>3, SliceHolds DEF Id
<1> QED
  BY <1>1, <1>2, <1>3, <1>4, LenProperties DEF Holds

LEMMA NumbersRead ==
    ASSUME NEW data \in Seq(Byte), NEW id \in Seq(Byte), IsUint16(Len(id) + 10),
           Holds(data, 0, Uint16(Len(id))), Holds(data, 2, id),
           NEW x, IsUint32(x), Holds(data, 2 + Len(id), Uint32(x)),
           NEW y, IsUint32(y), Holds(data, 6 + Len(id), Uint32(y))
    PROVE  /\ HasNumbers(data) /\ First(data) = x /\ Second(data) = y
           /\ Wrap16(2 + IdSize(data) + 8) = 10 + Len(id)
           /\ Len(data) >= 10 + Len(id)
<1> DEFINE L == Len(id)
<1>1. L \in Nat /\ L + 10 < 65536 /\ Len(data) \in Nat /\ IdSize(data) = L
  <2>1. L \in Nat /\ Len(data) \in Nat
    BY LenProperties
  <2>2. L + 10 < 65536 /\ IsUint16(L + 2)
    BY <2>1 DEF IsUint16
  <2> QED
    BY <2>1, <2>2, IdRead
<1> HIDE DEF L
<1>2. /\ Wrap16(2 + L) = 2 + L /\ Wrap16(2 + L + 4) = 6 + L
      /\ Wrap16(2 + L + 4 + 4) = 10 + L /\ Wrap16(2 + L + 8) = 10 + L
  BY <1>1 DEF Wrap16
<1>3. ReadUint32(data, 2 + L) = x /\ ReadUint32(data, 6 + L) = y
  <2>1. 2 + L \in Nat /\ 6 + L \in Nat
    BY <1>1
  <2> QED
    BY <2>1, Uint32Holds DEF L
<1>4. Len(data) >= 10 + L
  <2>1. Len(Uint32(y)) = 4
    BY Uint32Bytes
  <2>2. 6 + L + Len(Uint32(y)) <= Len(data)
    BY DEF Holds, L
  <2> QED
    BY <1>1, <2>1, <2>2
<1>5. HasNumbers(data)
  BY <1>1, <1>2, <1>4 DEF HasNumbers
<1>6. First(data) = x /\ Second(data) = y
  BY <1>1, <1>2, <1>3 DEF First, Second
<1> QED
  BY <1>1, <1>2, <1>4, <1>5, <1>6 DEF L

\* A payload of a given length, with its command and the size of the id.
Begins(r, length) ==
    LET p == buildPayload(r)
    IN  /\ p \in Seq(Byte) /\ Len(p) = length
        /\ p[1] = r.cmd /\ Holds(p, 1, Uint16(Len(r.id)))

\* The three forms of a request.
LEMMA SessionUnderstood ==
    ASSUME NEW r \in Request, IsRequest(r), r.cmd \in SessionCommands
    PROVE  /\ Begins(r, 3 + Len(r.id))
           /\ IsUint16(Len(r.id) + 2) => Parse(buildPayload(r)) = r
<1> DEFINE p == buildSessionPayload(r)
           data == From(p, 1)
<1>1. /\ r.cmd \in Byte /\ r.id \in Seq(Byte) /\ IsUint16(Len(r.id))
      /\ r.number = 0 /\ r.size = 0 /\ r.data = <<>>
      /\ r.cmd # CMD_INIT_UPLOAD /\ r.cmd # CMD_UPLOAD_CHUNK
  BY DEF Request, IsRequest, SessionCommands, CMD_INIT_UPLOAD, CMD_UPLOAD_CHUNK
<1>2. Len(r.id) \in Nat /\ IsUint16(Len(r.id))
  BY <1>1, LenProperties DEF IsUint16
<1>3. p \in Seq(Byte) /\ Len(p) = 3 + Len(r.id)
  BY <1>1, <1>2, FrontHolds
<1>4. p[1] = r.cmd /\ Holds(p, 1, Uint16(Len(r.id))) /\ Holds(p, 3, r.id)
  BY <1>1, <1>2, <1>3, FrontHolds, HoldsAll
<1> HIDE DEF p
<1>5. /\ data \in Seq(Byte) /\ Len(data) \in Nat
      /\ Holds(data, 0, Uint16(Len(r.id))) /\ Holds(data, 2, r.id)
  <2>1. Uint16(Len(r.id)) \in Seq(Byte) /\ 0 + 1 = 1 /\ 2 + 1 = 3
    BY <1>2, Uint16Bytes
  <2> QED
    BY <1>1, <1>3, <1>4, <2>1, DataHold, LenProperties
<1> HIDE DEF data
<1>6. ASSUME IsUint16(Len(r.id) + 2)
      PROVE  ParseSession(r.cmd, data) =
               [cmd |-> r.cmd, id |-> r.id, number |-> 0, size |-> 0, data |-> <<>>]
  <2>1. /\ IdSize(data) = Len(r.id) /\ Id(data) = r.id
        /\ Len(data) >= 2 + Len(r.id) /\ Wrap16(2 + Len(r.id)) = 2 + Len(r.id)
    BY <1>1, <1>5, <1>6, IdRead
  <2>2. ~(Len(data) < 2) /\ ~(Len(data) < Wrap16(2 + IdSize(data)))
    BY <1>2, <1>5, <2>1
  <2> QED
    BY <2>1, <2>2 DEF ParseSession
<1>7. IsUint16(Len(r.id) + 2) => ParseSession(r.cmd, data) = r
  BY <1>1, <1>6 DEF Request
<1>8. Parse(p) = ParseSession(r.cmd, data)
  BY <1>1, <1>2, <1>3, <1>4 DEF Parse, data
<1>9. buildPayload(r) = p
  BY <1>1 DEF buildPayload, p
<1> QED
  BY <1>3, <1>4, <1>7, <1>8, <1>9 DEF Begins

LEMMA InitUnderstood ==
    ASSUME NEW r \in Request, IsRequest(r), r.cmd = CMD_INIT_UPLOAD
    PROVE  /\ Begins(r, 11 + Len(r.id))
           /\ IsUint16(Len(r.id) + 10) => Parse(buildPayload(r)) = r
<1> DEFINE p == buildSessionPayload(r) \o Uint32(r.number) \o Uint32(r.size)
           data == From(p, 1)
           L == Len(r.id)
<1>1. /\ r.cmd \in Byte /\ r.id \in Seq(Byte) /\ IsUint16(L)
      /\ IsUint32(r.number) /\ IsUint32(r.size) /\ r.data = <<>>
  BY DEF Request, IsRequest, CMD_INIT_UPLOAD, CMD_UPLOAD_CHUNK
<1>2. L \in Nat /\ IsUint16(L)
  BY <1>1, LenProperties DEF IsUint16
<1> HIDE DEF L
<1>3. /\ p \in Seq(Byte) /\ Len(p) = 11 + L
      /\ Holds(p, 0, p) => /\ Holds(p, 0, buildSessionPayload(r))
                           /\ Holds(p, 3 + L, Uint32(r.number))
                           /\ Holds(p, 7 + L, Uint32(r.size))
  <2>1. p \in Seq(Byte) /\ Len(p) = 11 + L
    BY <1>1, <1>2, NumbersHold DEF L
  <2> QED
    BY <1>1, <1>2, <2>1, NumbersHold DEF L
<1> HIDE DEF p
<1>4. /\ p[1] = r.cmd /\ Holds(p, 1, Uint16(L)) /\ Holds(p, 3, r.id)
      /\ Holds(p, 3 + L, Uint32(r.number)) /\ Holds(p, 7 + L, Uint32(r.size))
  BY <1>1, <1>2, <1>3, FrontHolds, HoldsAll DEF L
<1>5. /\ data \in Seq(Byte) /\ Len(data) \in Nat
      /\ Holds(data, 0, Uint16(L)) /\ Holds(data, 2, r.id)
      /\ Holds(data, 2 + L, Uint32(r.number)) /\ Holds(data, 6 + L, Uint32(r.size))
  <2>1. /\ 0 + 1 = 1 /\ 2 + 1 = 3 /\ 2 + L \in Nat /\ 6 + L \in Nat
        /\ 2 + L + 1 = 3 + L /\ 6 + L + 1 = 7 + L
    BY <1>2
  <2>2. /\ Uint16(L) \in Seq(Byte)
        /\ Uint32(r.number) \in Seq(Byte) /\ Uint32(r.size) \in Seq(Byte)
    BY <1>1, <1>2, Uint16Bytes, Uint32Bytes
  <2> QED
    BY <1>1, <1>3, <1>4, <2>1, <2>2, DataHold, LenProperties
<1> HIDE DEF data
<1>6. ASSUME IsUint16(L + 10)
      PROVE  /\ Id(data) = r.id /\ HasNumbers(data)
             /\ First(data) = r.number /\ Second(data) = r.size
  <2>1. IsUint16(L + 2)
    BY <1>2, <1>6 DEF IsUint16
  <2> QED
    BY <1>1, <1>5, <1>6, <2>1, IdRead, NumbersRead DEF L
<1>7. ASSUME IsUint16(L + 10) PROVE ParseInit(data) = r
  <2>1. ParseInit(data) = [cmd |-> CMD_INIT_UPLOAD, id |-> r.id,
                           number |-> r.number, size |-> r.size, data |-> <<>>]
    BY <1>6, <1>7 DEF ParseInit
  <2> QED
    BY <1>1, <2>1 DEF Request
<1>8. Parse(p) = ParseInit(data)
  BY <1>2, <1>3, <1>4 DEF Parse, data
<1>9. buildPayload(r) = p
  <2>1. buildPayload(r) = buildInitPayload(r)
    BY DEF buildPayload, CMD_INIT_UPLOAD, CMD_UPLOAD_CHUNK, SessionCommands
  <2> QED
    BY <2>1 DEF buildInitPayload, buildSessionPayload, p
<1> QED
  BY <1>3, <1>4, <1>7, <1>8, <1>9 DEF Begins, L

LEMMA ChunkUnderstood ==
    ASSUME NEW r \in Request, IsRequest(r), r.cmd = CMD_UPLOAD_CHUNK
    PROVE  /\ Begins(r, 11 + Len(r.id) + Len(r.data))
           /\ Holds(buildPayload(r), 7 + Len(r.id), Uint32(r.size))
           /\ IsUint16(Len(r.id) + 10) => Parse(buildPayload(r)) = r
<1> DEFINE header == buildSessionPayload(r) \o Uint32(r.number) \o Uint32(r.size)
           p == header \o r.data
           data == From(p, 1)
           L == Len(r.id)
           n == Len(r.data)
<1>1. /\ r.cmd \in Byte /\ r.id \in Seq(Byte) /\ IsUint16(L)
      /\ IsUint32(r.number) /\ IsUint32(r.size)
      /\ r.data \in Seq(Byte) /\ r.size = n
  BY DEF Request, IsRequest, CMD_INIT_UPLOAD, CMD_UPLOAD_CHUNK
<1>2. L \in Nat /\ IsUint16(L) /\ n \in Nat
  BY <1>1, LenProperties DEF IsUint16
<1> HIDE DEF L, n
<1>3. header \in Seq(Byte) /\ Len(header) = 11 + L
  BY <1>1, <1>2, NumbersHold DEF L
<1>4. ASSUME NEW b \in Seq(Byte), Holds(b, 0, header)
      PROVE  /\ Holds(b, 0, buildSessionPayload(r))
             /\ Holds(b, 3 + L, Uint32(r.number)) /\ Holds(b, 7 + L, Uint32(r.size))
  BY <1>1, <1>2, <1>4, NumbersHold DEF L
<1> HIDE DEF header
<1>5. p \in Seq(Byte) /\ Len(p) = 11 + L + n
  <2>1. p \in Seq(Byte) /\ Len(p) = Len(header) + Len(r.data)
    BY <1>1, <1>3, ConcatProperties
  <2> QED
    BY <1>2, <1>3, <2>1 DEF n
<1>6. Holds(p, 0, header) /\ Holds(p, 11 + L, r.data)
  <2>1. Holds(p, 0, p)
    BY <1>5, HoldsAll
  <2>2. Holds(p, 0, header) /\ Holds(p, 0 + Len(header), r.data)
    BY <1>1, <1>3, <1>5, <2>1, HoldsConcat
  <2>3. 0 + Len(header) = 11 + L
    BY <1>2, <1>3
  <2> QED
    BY <2>2, <2>3
<1> HIDE DEF p
<1>7. /\ p[1] = r.cmd /\ Holds(p, 1, Uint16(L)) /\ Holds(p, 3, r.id)
      /\ Holds(p, 3 + L, Uint32(r.number)) /\ Holds(p, 7 + L, Uint32(r.size))
  BY <1>1, <1>2, <1>4, <1>5, <1>6, FrontHolds DEF L
<1>8. /\ data \in Seq(Byte) /\ Len(data) = 10 + L + n
      /\ Holds(data, 0, Uint16(L)) /\ Holds(data, 2, r.id)
      /\ Holds(data, 2 + L, Uint32(r.number)) /\ Holds(data, 6 + L, Uint32(r.size))
      /\ Holds(data, 10 + L, r.data)
  <2>1. /\ 0 + 1 = 1 /\ 2 + 1 = 3
        /\ 2 + L \in Nat /\ 6 + L \in Nat /\ 10 + L \in Nat
        /\ 2 + L + 1 = 3 + L /\ 6 + L + 1 = 7 + L /\ 10 + L + 1 = 11 + L
        /\ 11 + L + n - 1 = 10 + L + n
    BY <1>1, <1>2
  <2>2. /\ Uint16(L) \in Seq(Byte)
        /\ Uint32(r.number) \in Seq(Byte) /\ Uint32(r.size) \in Seq(Byte)
    BY <1>1, <1>2, Uint16Bytes, Uint32Bytes
  <2>3. data \in Seq(Byte) /\ Len(data) = Len(p) - 1 /\ Holds(data, 10 + L, r.data)
    BY <1>1, <1>5, <1>6, <2>1, DataHold
  <2>4. Len(data) = 10 + L + n
    BY <1>2, <1>5, <2>3
  <2>5. Holds(data, 0, Uint16(L)) /\ Holds(data, 2, r.id)
    BY <1>1, <1>5, <1>7, <2>1, <2>2, DataHold
  <2>6. Holds(data, 2 + L, Uint32(r.number)) /\ Holds(data, 6 + L, Uint32(r.size))
    BY <1>1, <1>5, <1>7, <2>1, <2>2, DataHold
  <2> QED
    BY <2>3, <2>4, <2>5, <2>6
<1> HIDE DEF data
<1>9. ASSUME IsUint16(L + 10)
      PROVE  /\ Id(data) = r.id /\ HasNumbers(data)
             /\ First(data) = r.number /\ Second(data) = r.size
             /\ Wrap16(2 + IdSize(data) + 8) = 10 + L
  <2>1. IsUint16(L + 2)
    BY <1>2, <1>9 DEF IsUint16
  <2> QED
    BY <1>1, <1>8, <1>9, <2>1, IdRead, NumbersRead DEF L
<1>10. Slice(data, 10 + L, 10 + L + n) = r.data
  <2>1. 10 + L \in Nat
    BY <1>2
  <2> QED
    BY <1>1, <1>8, <2>1, SliceHolds DEF n
<1>11. ASSUME IsUint16(L + 10) PROVE ParseChunk(data) = r
  <2>1. ~(Len(data) < 10 + L + n)
    BY <1>1, <1>2, <1>8
  <2>2. ParseChunk(data) = [cmd |-> CMD_UPLOAD_CHUNK, id |-> r.id,
                            number |-> r.number, size |-> r.size, data |-> r.data]
    BY <1>1, <1>9, <1>10, <1>11, <2>1 DEF ParseChunk
  <2> QED
    BY <2>2 DEF Request
<1>12. Parse(p) = ParseChunk(data)
  BY <1>1, <1>2, <1>5, <1>7 DEF Parse, data, CMD_UPLOAD_CHUNK, CMD_INIT_UPLOAD
<1>13. buildPayload(r) = p
  <2>1. buildPayload(r) = buildChunkPayload(r)
    BY DEF buildPayload, CMD_INIT_UPLOAD, CMD_UPLOAD_CHUNK, SessionCommands
  <2> QED
    BY <1>1, <2>1 DEF buildChunkPayload, buildSessionPayload, p, header, n
<1> QED
  BY <1>5, <1>7, <1>11, <1>12, <1>13 DEF Begins, L, n

\* A payload that has an id of this size behind its command: whether its handler
\* panics is a question of the two sizes.
LEMMA PanicsIf ==
    ASSUME NEW p \in Seq(Byte), NEW cmd \in Commands, p # <<>>, p[1] = cmd,
           NEW L, IsUint16(L), Holds(p, 1, Uint16(L))
    PROVE  Panics(p) <=> /\ L + Added(cmd) >= 65536
                         /\ Len(p) - 1 >= Wrap16(L + Added(cmd))
<1> DEFINE data == From(p, 1)
<1>1. Uint16(L) \in Seq(Byte) /\ Len(Uint16(L)) = 2 /\ 0 + 1 = 1 /\ 0 \in Nat
  BY Uint16Bytes
<1>2. /\ data \in Seq(Byte) /\ Len(data) = Len(p) - 1
      /\ Holds(data, 0, Uint16(L))
  BY <1>1, DataHold
<1>3. Len(data) >= 2
  BY <1>1, <1>2, LenProperties DEF Holds
<1> HIDE DEF data
<1>4. IdSize(data) = L
  BY <1>2, <1>1, Uint16Holds DEF IdSize
<1> QED
  BY <1>2, <1>3, <1>4 DEF Panics, data

\* What the client means is what the server does: a request of any size that fits
\* its fields, built by the page, is the request that its handler parses, unless its
\* id leaves no room in 16 bits for what the handler adds to its size.  Then the
\* handler panics (server.go:183, 240, 337): no request is taken for another one.
THEOREM RequestsAreUnderstood ==
    ASSUME NEW r \in Request, IsRequest(r)
    PROVE  LET p == buildPayload(r)
           IN  /\ p \in Seq(Byte)
               /\ Panics(p) <=> Len(r.id) + Added(r.cmd) >= 65536
               /\ ~Panics(p) => Parse(p) = r
<1> DEFINE p == buildPayload(r)
           L == Len(r.id)
           N == Len(r.data)
<1>1. L \in Nat /\ N \in Nat /\ L < 65536 /\ IsUint16(L) /\ r.cmd \in Commands
  BY LenProperties DEF Request, IsRequest, IsUint16
<1>2. /\ p \in Seq(Byte) /\ Len(p) \in Nat /\ p[1] = r.cmd
      /\ Holds(p, 1, Uint16(L))
      /\ Len(p) >= 1 + L + Added(r.cmd)
      /\ IsUint16(L + Added(r.cmd)) => Parse(p) = r
  <2>1. CASE r.cmd \in SessionCommands
    <3>1. Begins(r, 3 + L) /\ (IsUint16(L + 2) => Parse(p) = r)
      BY <2>1, SessionUnderstood
    <3> HIDE DEF L, N
    <3> QED
      BY <1>1, <2>1, <3>1 DEF Begins, Added, L
  <2>2. CASE r.cmd = CMD_INIT_UPLOAD
    <3>1. Begins(r, 11 + L) /\ (IsUint16(L + 10) => Parse(p) = r)
      BY <2>2, InitUnderstood
    <3>2. Added(r.cmd) = 10
      BY <2>2 DEF Added, SessionCommands, CMD_INIT_UPLOAD
    <3> HIDE DEF L, N
    <3> QED
      BY <1>1, <3>1, <3>2 DEF Begins, L
  <2>3. CASE r.cmd = CMD_UPLOAD_CHUNK
    <3>1. Begins(r, 11 + L + N) /\ (IsUint16(L + 10) => Parse(p) = r)
      BY <2>3, ChunkUnderstood
    <3>2. Added(r.cmd) = 10
      BY <2>3 DEF Added, SessionCommands, CMD_UPLOAD_CHUNK
    <3> HIDE DEF L, N
    <3> QED
      BY <1>1, <3>1, <3>2 DEF Begins, L
  <2> QED
    BY <1>1, <2>1, <2>2, <2>3 DEF Commands
<1>3. Added(r.cmd) \in {2, 10}
  BY DEF Added
<1> HIDE DEF p, L
<1>4. p # <<>>
  BY <1>1, <1>2, <1>3
<1>5. Panics(p) <=> /\ L + Added(r.cmd) >= 65536
                    /\ Len(p) - 1 >= Wrap16(L + Added(r.cmd))
  BY <1>1, <1>2, <1>4, PanicsIf
<1>6. Wrap16(L + Added(r.cmd)) <= L + Added(r.cmd)
  BY <1>1, <1>3 DEF Wrap16
<1>7. Wrap16(L + Added(r.cmd)) \in Nat
  BY <1>1, <1>3 DEF Wrap16
<1>8. Panics(p) <=> L + Added(r.cmd) >= 65536
  BY <1>1, <1>2, <1>3, <1>5, <1>6, <1>7
<1>9. ~Panics(p) => IsUint16(L + Added(r.cmd))
  BY <1>1, <1>3, <1>8 DEF IsUint16
<1> QED
  BY <1>2, <1>8, <1>9 DEF p, L

\* A parser that gets less than the request's length does not answer with a part
\* of it.
LEMMA CutHolds ==
    ASSUME NEW q \in Seq(Byte), NEW n \in 0 .. Len(q)
    PROVE  LET p == SubSeq(q, 1, n)
           IN  /\ p \in Seq(Byte) /\ Len(p) = n
               /\ n >= 1 => p[1] = q[1]
               /\ \A at \in Nat, s \in Seq(Byte) :
                     Holds(q, at, s) /\ at + Len(s) <= n => Holds(p, at, s)
<1> DEFINE p == SubSeq(q, 1, n)
<1>1. p = Slice(q, 0, n) /\ n \in Nat /\ 0 <= n /\ n <= Len(q) /\ n - 0 = n
  BY LenProperties DEF Slice
<1> HIDE DEF p
<1>2. /\ p \in Seq(Byte) /\ Len(p) = n
      /\ \A at \in Nat, s \in Seq(Byte) :
            Holds(q, 0 + at, s) /\ at + Len(s) <= n => Holds(p, at, s)
  BY <1>1, HoldsSlice
<1>3. \A at \in Nat : 0 + at = at
  OBVIOUS
<1>4. ASSUME n >= 1 PROVE p[1] = q[1]
  <2> DEFINE s == <<q[1]>>
  <2>1. s \in Seq(Byte) /\ Len(s) = 1 /\ s[1] = q[1]
    <3>1. q[1] \in Byte
      BY <1>1, <1>4, ElementOfSeq, LenProperties
    <3> QED
      BY <3>1
  <2>2. Holds(q, 0, s) /\ 0 + Len(s) <= n
    BY <1>1, <1>4, <2>1 DEF Holds
  <2> HIDE DEF s
  <2>3. Holds(p, 0, s)
    BY <1>2, <1>3, <2>1, <2>2
  <2>4. p[0 + 1] = s[1]
    BY <2>1, <2>3 DEF Holds
  <2> QED
    BY <2>1, <2>4
<1> QED
  BY <1>2, <1>3, <1>4 DEF p

\* A request that is cut short anywhere is refused, or panics its handler where the
\* 16-bit sum passes for less than the length: the handlers never take a part of a
\* file name, a session id or a chunk for the whole.
THEOREM CutRequestsAreRefused ==
    ASSUME NEW r \in Request, IsRequest(r),
           NEW n \in 0 .. Len(buildPayload(r)), n # Len(buildPayload(r))
    PROVE  LET p == SubSeq(buildPayload(r), 1, n)
           IN  ~Panics(p) => Parse(p) = NotUnderstood
<1> DEFINE q == buildPayload(r)
           p == SubSeq(q, 1, n)
           data == From(p, 1)
           L == Len(r.id)
           N == Len(r.data)
<1>1. /\ r.cmd \in Commands /\ r.id \in Seq(Byte) /\ r.data \in Seq(Byte)
      /\ IsUint16(L) /\ IsUint32(r.size)
      /\ r.cmd = CMD_UPLOAD_CHUNK => r.size = N
  BY DEF Request, IsRequest
<1>2. L \in Nat /\ N \in Nat /\ L < 65536
  BY <1>1, LenProperties DEF IsUint16
<1>3. /\ q \in Seq(Byte) /\ q[1] = r.cmd /\ Holds(q, 1, Uint16(L))
      /\ r.cmd \in SessionCommands => Len(q) = 3 + L
      /\ r.cmd = CMD_INIT_UPLOAD => Len(q) = 11 + L
      /\ r.cmd = CMD_UPLOAD_CHUNK => Len(q) = 11 + L + N
      /\ r.cmd = CMD_UPLOAD_CHUNK => Holds(q, 7 + L, Uint32(r.size))
  BY <1>1, SessionUnderstood, InitUnderstood, ChunkUnderstood DEF Commands, Begins
<1>4. n \in Nat /\ n < Len(q)
  BY <1>3, LenProperties
<1> HIDE DEF q, L, N
<1>5. /\ p \in Seq(Byte) /\ Len(p) = n
      /\ n >= 1 => p[1] = r.cmd
      /\ \A at \in Nat, s \in Seq(Byte) :
            Holds(q, at, s) /\ at + Len(s) <= n => Holds(p, at, s)
  <2>1. n \in 0 .. Len(q)
    BY DEF q
  <2> QED
    BY <1>3, <2>1, CutHolds
<1> HIDE DEF p
<1>6. CASE n = 0
  <2>1. p = <<>>
    BY <1>5, <1>6, EmptySeq
  <2> QED
    BY <2>1 DEF Parse, p, q
<1>7. CASE n >= 1
  <2>1. data \in Seq(Byte) /\ Len(data) = n - 1
    <3>1. From(p, 1) = Slice(p, 1, Len(p)) /\ 1 <= Len(p) /\ Len(p) \in Nat
      BY <1>4, <1>5, <1>7 DEF From, Slice
    <3>2. /\ Slice(p, 1, Len(p)) \in Seq(Byte)
          /\ Len(Slice(p, 1, Len(p))) = Len(p) - 1
      BY <1>5, <3>1, HoldsSlice
    <3> QED
      BY <1>5, <3>1, <3>2
  <2>2. Parse(p) = IF r.cmd = CMD_INIT_UPLOAD THEN ParseInit(data)
                   ELSE IF r.cmd = CMD_UPLOAD_CHUNK THEN ParseChunk(data)
                   ELSE ParseSession(r.cmd, data)
    <3>1. p # <<>>
      BY <1>5, <1>7, EmptySeq
    <3> QED
      BY <1>1, <1>5, <1>7, <3>1 DEF Parse, Commands
  <2>3. \A at \in Nat, s \in Seq(Byte) :
            Holds(q, at + 1, s) /\ at + 1 + Len(s) <= n => Holds(data, at, s)
    <3>1. ASSUME NEW at \in Nat, NEW s \in Seq(Byte),
                 Holds(q, at + 1, s), at + 1 + Len(s) <= n
          PROVE  Holds(data, at, s)
      <4>1. at + 1 \in Nat
        OBVIOUS
      <4>2. Holds(p, at + 1, s)
        BY <1>5, <3>1, <4>1
      <4> QED
        BY <1>5, <4>2, DataHold
    <3> QED
      BY <3>1
  <2> HIDE DEF data
  <2>4. CASE n < 3
    <3>1. ~(Len(data) >= 2) /\ Len(data) < 2
      BY <1>4, <2>1, <2>4
    <3> QED
      BY <2>2, <3>1 DEF ParseInit, ParseChunk, ParseSession, HasNumbers, p, q
  <2>5. CASE n >= 3
    <3>1. IdSize(data) = L
      <4>1. Uint16(L) \in Seq(Byte) /\ Len(Uint16(L)) = 2 /\ 0 \in Nat
        BY <1>1, Uint16Bytes
      <4>2. Holds(q, 0 + 1, Uint16(L)) /\ 0 + 1 + Len(Uint16(L)) <= n
        BY <1>3, <1>4, <2>5, <4>1
      <4>3. Holds(data, 0, Uint16(L))
        BY <2>3, <4>1, <4>2
      <4> QED
        BY <1>1, <2>1, <4>3, Uint16Holds DEF IdSize
    <3>2. CASE L + Added(r.cmd) >= 65536
      <4>1. /\ p # <<>> /\ Uint16(L) \in Seq(Byte) /\ Len(Uint16(L)) = 2
            /\ 1 + Len(Uint16(L)) <= n
        <5>1. Uint16(L) \in Seq(Byte) /\ Len(Uint16(L)) = 2
          BY <1>1, Uint16Bytes
        <5>2. p # <<>>
          BY <1>5, <1>7, EmptySeq
        <5> QED
          BY <1>4, <2>5, <5>1, <5>2
      <4>2. Holds(p, 1, Uint16(L))
        BY <1>3, <1>5, <4>1
      <4>3. Panics(p) <=> /\ L + Added(r.cmd) >= 65536
                          /\ Len(p) - 1 >= Wrap16(L + Added(r.cmd))
        <5>1. p \in Seq(Byte) /\ p # <<>> /\ p[1] = r.cmd
          BY <1>5, <1>7, <4>1
        <5>2. r.cmd \in Commands /\ IsUint16(L)
          BY <1>1
        <5> QED
          BY <4>2, <5>1, <5>2, PanicsIf
      <4>4. ASSUME ~Panics(p) PROVE Parse(p) = NotUnderstood
        <5>1. Wrap16(L + Added(r.cmd)) \in Nat /\ Added(r.cmd) \in {2, 10}
          BY <1>2 DEF Wrap16, Added
        <5>2. ~(Len(data) >= Wrap16(L + Added(r.cmd)))
          BY <1>5, <2>1, <3>2, <4>3, <4>4
        <5>3. CASE r.cmd \in SessionCommands
          <6>1. L + Added(r.cmd) = 2 + L
            BY <1>2, <5>3 DEF Added
          <6>2. Len(data) < Wrap16(2 + IdSize(data))
            BY <2>1, <1>4, <3>1, <5>1, <5>2, <6>1
          <6>3. r.cmd # CMD_INIT_UPLOAD /\ r.cmd # CMD_UPLOAD_CHUNK
            BY <5>3 DEF SessionCommands, CMD_INIT_UPLOAD, CMD_UPLOAD_CHUNK
          <6> QED
            BY <2>2, <6>2, <6>3 DEF ParseSession
        <5>4. CASE r.cmd \in {CMD_INIT_UPLOAD, CMD_UPLOAD_CHUNK}
          <6>1. L + Added(r.cmd) = 2 + L + 4 + 4
            BY <1>2, <5>4 DEF Added, SessionCommands, CMD_INIT_UPLOAD, CMD_UPLOAD_CHUNK
          <6>2. ~(Len(data) >= Wrap16(2 + IdSize(data) + 4 + 4))
            BY <3>1, <5>2, <6>1
          <6> QED
            BY <2>2, <5>4, <6>2 DEF ParseInit, ParseChunk, HasNumbers
        <5> QED
          BY <1>1, <5>3, <5>4 DEF Commands
      <4> QED
        BY <4>4 DEF p, q
    <3>3. CASE r.cmd \in SessionCommands /\ ~(L + Added(r.cmd) >= 65536)
      <4>1. Wrap16(2 + L) = 2 + L
        BY <1>2, <3>3 DEF Wrap16, Added
      <4>2. Len(data) < Wrap16(2 + IdSize(data))
        BY <1>2, <1>3, <1>4, <2>1, <3>1, <3>3, <4>1
      <4>3. r.cmd # CMD_INIT_UPLOAD /\ r.cmd # CMD_UPLOAD_CHUNK
        BY <3>3 DEF SessionCommands, CMD_INIT_UPLOAD, CMD_UPLOAD_CHUNK
      <4> QED
        BY <2>2, <4>2, <4>3 DEF ParseSession, p, q
    <3>4. ASSUME r.cmd \in {CMD_INIT_UPLOAD, CMD_UPLOAD_CHUNK},
                 ~(L + Added(r.cmd) >= 65536)
          PROVE  /\ Wrap16(2 + L + 4) = 6 + L
                 /\ Wrap16(2 + L + 4 + 4) = 10 + L /\ Wrap16(2 + L + 8) = 10 + L
                 /\ n < 11 + L => Parse(p) = NotUnderstood
      <4>1. L + 10 < 65536
        BY <1>2, <3>4 DEF Added, SessionCommands, CMD_INIT_UPLOAD, CMD_UPLOAD_CHUNK
      <4>2. /\ Wrap16(2 + L + 4) = 6 + L
            /\ Wrap16(2 + L + 4 + 4) = 10 + L /\ Wrap16(2 + L + 8) = 10 + L
        BY <1>2, <4>1 DEF Wrap16
      <4>3. ASSUME n < 11 + L PROVE Parse(p) = NotUnderstood
        <5>1. ~(Len(data) >= Wrap16(2 + IdSize(data) + 4 + 4))
          BY <1>2, <1>4, <2>1, <3>1, <4>2, <4>3
        <5> QED
          BY <2>2, <3>4, <5>1 DEF ParseInit, ParseChunk, HasNumbers
      <4> QED
        BY <4>2, <4>3
    <3>5. CASE r.cmd = CMD_INIT_UPLOAD /\ ~(L + Added(r.cmd) >= 65536)
      <4>1. n < 11 + L
        BY <1>3, <1>4, <3>5
      <4> QED
        BY <3>4, <3>5, <4>1 DEF p, q
    <3>6. CASE r.cmd = CMD_UPLOAD_CHUNK /\ ~(L + Added(r.cmd) >= 65536)
      <4>1. CASE n < 11 + L
        BY <3>4, <3>6, <4>1 DEF p, q
      <4>2. CASE ~(n < 11 + L)
        <5>1. /\ Uint32(r.size) \in Seq(Byte) /\ Len(Uint32(r.size)) = 4
              /\ 6 + L \in Nat /\ 6 + L + 1 = 7 + L
          BY <1>1, <1>2, Uint32Bytes
        <5>2. Holds(data, 6 + L, Uint32(r.size))
          <6>1. 6 + L + 1 + Len(Uint32(r.size)) <= n
            BY <1>2, <1>4, <4>2, <5>1
          <6> QED
            <7>1. Holds(q, 6 + L + 1, Uint32(r.size))
              BY <1>3, <3>6, <5>1
            <7> QED
              BY <2>3, <5>1, <6>1, <7>1
        <5>3. Second(data) = N
          BY <1>1, <2>1, <3>1, <3>4, <3>6, <5>1, <5>2, Uint32Holds DEF Second
        <5>4. Len(data) < Wrap16(2 + IdSize(data) + 8) + Second(data)
          BY <1>2, <1>3, <1>4, <2>1, <3>1, <3>4, <3>6, <5>3
        <5>5. r.cmd # CMD_INIT_UPLOAD
          BY <3>6 DEF CMD_INIT_UPLOAD, CMD_UPLOAD_CHUNK
        <5> QED
          BY <2>2, <3>6, <5>4, <5>5 DEF ParseChunk, p, q
      <4> QED
        BY <4>1, <4>2
    <3> QED
      BY <1>1, <3>2, <3>3, <3>5, <3>6 DEF Commands
  <2> QED
    BY <1>4, <2>4, <2>5
<1> QED
  BY <1>4, <1>6, <1>7

-----------------------------------------------------------------------------
(* Framing: where requests begin and end.                                  *)

IsMessage(m) ==
    /\ m.token \in Seq(Byte) /\ m.payload \in Seq(Byte)
    /\ IsUint32(Len(m.token)) /\ IsUint32(Len(m.payload))

LEMMA MessageHolds ==
    ASSUME NEW m, IsMessage(m), NEW b \in Seq(Byte), NEW at \in Nat
    PROVE  LET s == buildMessage(m)
               T == Len(m.token)
           IN  /\ s \in Seq(Byte) /\ Len(s) = 8 + T + Len(m.payload)
               /\ Holds(b, at, s) => /\ Holds(b, at, Uint32(T))
                                     /\ Holds(b, at + 4, m.token)
                                     /\ Holds(b, at + (4 + T), Uint32(Len(m.payload)))
                                     /\ Holds(b, at + (8 + T), m.payload)
<1> DEFINE T == Len(m.token)
           P == Len(m.payload)
           x == Uint32(T)
           y == Uint32(P)
           A == x \o m.token
           B == A \o y
           s == B \o m.payload
<1>1. /\ x \in Seq(Byte) /\ Len(x) = 4 /\ y \in Seq(Byte) /\ Len(y) = 4
      /\ m.token \in Seq(Byte) /\ m.payload \in Seq(Byte)
  BY Uint32Bytes DEF IsMessage
<1>2. T \in Nat /\ P \in Nat
  BY <1>1, LenProperties
<1> HIDE DEF x, y
<1>3. A \in Seq(Byte) /\ Len(A) = 4 + T
  <2>1. A \in Seq(Byte) /\ Len(A) = Len(x) + Len(m.token)
    BY <1>1, ConcatProperties
  <2> QED
    BY <1>1, <2>1
<1> HIDE DEF A
<1>4. B \in Seq(Byte) /\ Len(B) = 8 + T
  <2>1. B \in Seq(Byte) /\ Len(B) = Len(A) + Len(y)
    BY <1>1, <1>3, ConcatProperties
  <2> QED
    BY <1>1, <1>2, <1>3, <2>1
<1> HIDE DEF B
<1>5. s \in Seq(Byte) /\ Len(s) = 8 + T + P
  <2>1. s \in Seq(Byte) /\ Len(s) = Len(B) + Len(m.payload)
    BY <1>1, <1>4, ConcatProperties
  <2> QED
    BY <1>4, <2>1
<1>6. ASSUME Holds(b, at, s)
      PROVE  /\ Holds(b, at, x) /\ Holds(b, at + 4, m.token)
             /\ Holds(b, at + (4 + T), y) /\ Holds(b, at + (8 + T), m.payload)
  <2>1. Holds(b, at, B) /\ Holds(b, at + Len(B), m.payload)
    BY <1>1, <1>4, <1>6, HoldsConcat
  <2>2. Holds(b, at, A) /\ Holds(b, at + Len(A), y)
    BY <1>1, <1>3, <2>1, HoldsConcat DEF B
  <2>3. Holds(b, at, x) /\ Holds(b, at + Len(x), m.token)
    BY <1>1, <2>2, HoldsConcat DEF A
  <2> QED
    BY <1>1, <1>3, <1>4, <2>1, <2>2, <2>3
<1>7. buildMessage(m) = s
  BY DEF buildMessage, x, y, A, B
<1> HIDE DEF s
<1> QED
  BY <1>5, <1>6, <1>7 DEF x, y

\* OnTraffic finds the size of the token as soon as 4 bytes are there, knows when
\* the message is complete, and then has its token and its payload.
LEMMA Framing ==
    ASSUME NEW b \in Seq(Byte), NEW from \in Nat, NEW to \in Nat,
           from <= to, to <= Len(b),
           NEW m, IsMessage(m), Holds(b, from, buildMessage(m))
    PROVE  LET c == Slice(b, from, to)
           IN  /\ Len(c) >= 4 => TokenSize(c) = Len(m.token)
               /\ IsComplete(c) <=> Len(c) >= Len(buildMessage(m))
               /\ IsComplete(c) => /\ Token(c) = m.token /\ Payload(c) = m.payload
                                   /\ TotalSize(c) = Len(buildMessage(m))
<1> DEFINE c == Slice(b, from, to)
           T == Len(m.token)
           P == Len(m.payload)
<1>1. /\ m.token \in Seq(Byte) /\ m.payload \in Seq(Byte)
      /\ IsUint32(T) /\ IsUint32(P) /\ T \in Nat /\ P \in Nat
      /\ Uint32(T) \in Seq(Byte) /\ Len(Uint32(T)) = 4
      /\ Uint32(P) \in Seq(Byte) /\ Len(Uint32(P)) = 4
  BY Uint32Bytes, LenProperties DEF IsMessage
<1>2. /\ Len(buildMessage(m)) = 8 + T + P
      /\ Holds(b, from, Uint32(T)) /\ Holds(b, from + 4, m.token)
      /\ Holds(b, from + (4 + T), Uint32(P)) /\ Holds(b, from + (8 + T), m.payload)
  BY MessageHolds
<1>3. /\ c \in Seq(Byte) /\ Len(c) \in Nat
      /\ \A at \in Nat, s \in Seq(Byte) :
            Holds(b, from + at, s) /\ at + Len(s) <= Len(c) => Holds(c, at, s)
  BY HoldsSlice, LenProperties
<1> HIDE DEF c
<1>4. ASSUME Len(c) >= 4 PROVE TokenSize(c) = T
  <2>1. Holds(c, 0, Uint32(T))
    <3>1. 0 \in Nat /\ from + 0 = from /\ 0 + 4 <= Len(c)
      BY <1>3, <1>4
    <3>2. Holds(b, from + 0, Uint32(T)) /\ 0 + Len(Uint32(T)) <= Len(c)
      BY <1>1, <1>2, <3>1
    <3> QED
      BY <1>1, <1>3, <3>1, <3>2
  <2> QED
    BY <1>1, <1>3, <2>1, Uint32Holds DEF TokenSize
<1> HIDE DEF T, P
<1>5. ASSUME Len(c) >= 8 + T
      PROVE  HeaderSize(c) = 8 + T /\ PayloadSize(c) = P /\ Token(c) = m.token
  <2>1. TokenSize(c) = T
    BY <1>1, <1>3, <1>4, <1>5
  <2>2. /\ 4 \in Nat /\ 4 + T \in Nat
        /\ 4 + Len(m.token) <= Len(c) /\ 4 + T + Len(Uint32(P)) <= Len(c)
    BY <1>1, <1>3, <1>5 DEF T
  <2>3. Holds(c, 4, m.token) /\ Holds(c, 4 + T, Uint32(P))
    BY <1>1, <1>2, <1>3, <2>2
  <2>4. PayloadSize(c) = P
    BY <1>1, <1>3, <2>1, <2>2, <2>3, Uint32Holds DEF PayloadSize
  <2>5. Token(c) = m.token
    BY <1>1, <1>3, <2>1, <2>3, SliceHolds DEF Token, T
  <2>6. HeaderSize(c) = 8 + T
    BY <1>1, <2>1 DEF HeaderSize
  <2> QED
    BY <2>4, <2>5, <2>6
<1>6. ASSUME Len(c) >= 8 + T + P
      PROVE  IsComplete(c) /\ Payload(c) = m.payload /\ TotalSize(c) = 8 + T + P
  <2>1. HeaderSize(c) = 8 + T /\ PayloadSize(c) = P
    BY <1>1, <1>3, <1>5, <1>6
  <2>2. TotalSize(c) = 8 + T + P
    BY <2>1 DEF TotalSize
  <2>3. 8 + T \in Nat /\ 8 + T + P <= Len(c) /\ P = Len(m.payload)
    <3>1. 8 + T \in Nat /\ 8 + T + P <= Len(c)
      BY <1>1, <1>3, <1>6
    <3> QED
      BY <3>1 DEF P
  <2>4. Holds(c, 8 + T, m.payload)
    BY <1>1, <1>2, <1>3, <2>3
  <2>5. Payload(c) = m.payload
    <3>1. Slice(c, 8 + T, 8 + T + Len(m.payload)) = m.payload
      BY <1>1, <1>3, <2>3, <2>4, SliceHolds
    <3> QED
      BY <2>1, <2>2, <2>3, <3>1 DEF Payload
  <2>6. IsComplete(c)
    BY <1>1, <1>3, <1>6, <2>1, <2>2 DEF IsComplete
  <2> QED
    BY <2>2, <2>5, <2>6
<1>7. ASSUME IsComplete(c) PROVE Len(c) >= 8 + T + P
  <2>1. TokenSize(c) = T /\ HeaderSize(c) = 8 + T /\ Len(c) >= 8 + T
    BY <1>1, <1>4, <1>7 DEF IsComplete, HeaderSize
  <2>2. TotalSize(c) = 8 + T + P
    BY <1>5, <2>1 DEF TotalSize
  <2> QED
    BY <1>7, <2>2 DEF IsComplete
<1>8. IsComplete(c) => Token(c) = m.token
  BY <1>1, <1>3, <1>5, <1>7
<1> QED
  BY <1>2, <1>4, <1>6, <1>7, <1>8 DEF c, T, P

-----------------------------------------------------------------------------
(* The part of a connection's bytes that the buffer has.                   *)

LEMMA SliceProperties ==
    ASSUME NEW b \in Seq(Byte), NEW from \in Nat, NEW to \in Nat,
           from <= to, to <= Len(b)
    PROVE  /\ Slice(b, from, to) \in Seq(Byte)
           /\ Len(Slice(b, from, to)) = to - from
           /\ \A i \in 1 .. to - from : Slice(b, from, to)[i] = b[from + i]
<1> DEFINE c == Slice(b, from, to)
<1>1. \A i \in from + 1 .. to : b[i] \in Byte
  BY ElementOfSeq, LenProperties
<1>2. \A i \in 1 .. to - (from + 1) + 1 : c[i] = b[from + 1 + i - 1]
  BY <1>1, SubSeqProperties DEF Slice
<1>3. c \in Seq(Byte) /\ Len(c) = to - from
  BY HoldsSlice
<1> HIDE DEF c
<1>4. ASSUME NEW i \in 1 .. to - from PROVE c[i] = b[from + i]
  <2>1. i \in 1 .. to - (from + 1) + 1 /\ from + 1 + i - 1 = from + i
    OBVIOUS
  <2>2. c[i] = b[from + 1 + i - 1]
    BY <1>2, <2>1
  <2> QED
    BY <2>1, <2>2
<1> QED
  BY <1>3, <1>4 DEF c

\* More bytes come behind.
LEMMA SliceOfLonger ==
    ASSUME NEW b \in Seq(Byte), NEW t \in Seq(Byte), NEW from \in Nat, NEW to \in Nat,
           from <= to, to <= Len(b)
    PROVE  Slice(b \o t, from, to) = Slice(b, from, to)
<1> DEFINE bt == b \o t
<1>1. /\ bt \in Seq(Byte) /\ Len(bt) = Len(b) + Len(t)
      /\ \A i \in 1 .. Len(b) + Len(t) :
            bt[i] = IF i <= Len(b) THEN b[i] ELSE t[i - Len(b)]
  BY ConcatProperties
<1>2. Len(b) \in Nat /\ Len(t) \in Nat
  BY LenProperties
<1> HIDE DEF bt
<1>3. to <= Len(bt)
  BY <1>1, <1>2
<1>4. /\ Slice(bt, from, to) \in Seq(Byte) /\ Len(Slice(bt, from, to)) = to - from
      /\ \A i \in 1 .. to - from : Slice(bt, from, to)[i] = bt[from + i]
  BY <1>1, <1>3, SliceProperties
<1>5. /\ Slice(b, from, to) \in Seq(Byte) /\ Len(Slice(b, from, to)) = to - from
      /\ \A i \in 1 .. to - from : Slice(b, from, to)[i] = b[from + i]
  BY SliceProperties
<1>6. ASSUME NEW i \in 1 .. to - from PROVE bt[from + i] = b[from + i]
  <2>1. from + i \in 1 .. Len(b) + Len(t) /\ from + i <= Len(b)
    BY <1>2
  <2> QED
    BY <1>1, <2>1
<1> QED
  <2>1. to - from \in Nat
    OBVIOUS
  <2>2. \A i \in 1 .. to - from : Slice(bt, from, to)[i] = Slice(b, from, to)[i]
    BY <1>4, <1>5, <1>6
  <2>3. Len(Slice(bt, from, to)) = Len(Slice(b, from, to))
    BY <1>4, <1>5
  <2>4. \A i \in 1 .. Len(Slice(bt, from, to)) :
            Slice(bt, from, to)[i] = Slice(b, from, to)[i]
    BY <1>4, <2>2
  <2>5. Slice(bt, from, to) = Slice(b, from, to)
    BY <1>4, <1>5, <2>3, <2>4, SeqEqual
  <2> QED
    BY <2>5 DEF bt

LEMMA HoldsInLonger ==
    ASSUME NEW b \in Seq(Byte), NEW t \in Seq(Byte), NEW at \in Nat,
           NEW s \in Seq(Byte), Holds(b, at, s)
    PROVE  Holds(b \o t, at, s)
<1>1. /\ Len(b \o t) = Len(b) + Len(t)
      /\ \A i \in 1 .. Len(b) + Len(t) :
            (b \o t)[i] = IF i <= Len(b) THEN b[i] ELSE t[i - Len(b)]
  BY ConcatProperties
<1>2. /\ Len(b) \in Nat /\ Len(t) \in Nat /\ Len(s) \in Nat
      /\ at + Len(s) <= Len(b)
  BY LenProperties DEF Holds
<1>3. ASSUME NEW k \in 1 .. Len(s) PROVE (b \o t)[at + k] = s[k]
  <2> DEFINE j == at + k
  <2>1. j \in 1 .. Len(b) + Len(t) /\ j <= Len(b)
    BY <1>2
  <2> HIDE DEF j
  <2>2. (b \o t)[j] = b[j]
    BY <1>1, <2>1
  <2>3. b[at + k] = s[k]
    BY DEF Holds
  <2> QED
    BY <2>2, <2>3 DEF j
<1> QED
  BY <1>1, <1>2, <1>3 DEF Holds

LEMMA HoldsAtEnd ==
    ASSUME NEW b \in Seq(Byte), NEW t \in Seq(Byte)
    PROVE  Holds(b \o t, Len(b), t)
<1>1. /\ Len(b \o t) = Len(b) + Len(t)
      /\ \A i \in 1 .. Len(b) + Len(t) :
            (b \o t)[i] = IF i <= Len(b) THEN b[i] ELSE t[i - Len(b)]
  BY ConcatProperties
<1>2. Len(b) \in Nat /\ Len(t) \in Nat
  BY LenProperties
<1>3. ASSUME NEW k \in 1 .. Len(t) PROVE (b \o t)[Len(b) + k] = t[k]
  <2> DEFINE j == Len(b) + k
  <2>1. j \in 1 .. Len(b) + Len(t) /\ ~(j <= Len(b)) /\ j - Len(b) = k
    BY <1>2
  <2> HIDE DEF j
  <2>2. (b \o t)[j] = t[j - Len(b)]
    BY <1>1, <2>1
  <2> QED
    BY <2>1, <2>2 DEF j
<1> QED
  BY <1>1, <1>2, <1>3 DEF Holds

\* The buffer grows at its end.
LEMMA SliceGrows ==
    ASSUME NEW b \in Seq(Byte), NEW from \in Nat, NEW mid \in Nat, NEW to \in Nat,
           from <= mid, mid <= to, to <= Len(b)
    PROVE  Slice(b, from, mid) \o SubSeq(b, mid + 1, to) = Slice(b, from, to)
<1>1. Len(b) \in Nat
  BY LenProperties
<1>2. /\ from + 1 \in 1 .. Len(b) + 1 /\ mid \in (from + 1) - 1 .. Len(b)
      /\ to \in mid .. Len(b)
  BY <1>1
<1> QED
  BY <1>2, ConcatAdjacentSubSeq DEF Slice

\* And a request is taken off its front.
LEMMA SliceShrinks ==
    ASSUME NEW b \in Seq(Byte), NEW from \in Nat, NEW to \in Nat, NEW n \in Nat,
           from + n <= to, to <= Len(b)
    PROVE  From(Slice(b, from, to), n) = Slice(b, from + n, to)
<1> DEFINE c == Slice(b, from, to)
           d == Slice(b, from + n, to)
<1>1. from + n \in Nat /\ from <= to
  OBVIOUS
<1>2. /\ c \in Seq(Byte) /\ Len(c) = to - from
      /\ \A i \in 1 .. to - from : c[i] = b[from + i]
  BY <1>1, SliceProperties
<1>3. /\ d \in Seq(Byte) /\ Len(d) = to - (from + n)
      /\ \A i \in 1 .. to - (from + n) : d[i] = b[from + n + i]
  BY <1>1, SliceProperties
<1> HIDE DEF c, d
<1>4. n <= Len(c) /\ Len(c) \in Nat
  BY <1>2
<1>5. From(c, n) = Slice(c, n, Len(c))
  BY DEF From, Slice
<1>6. /\ From(c, n) \in Seq(Byte) /\ Len(From(c, n)) = Len(c) - n
      /\ \A i \in 1 .. Len(c) - n : From(c, n)[i] = c[n + i]
  <2> DEFINE l == Len(c)
  <2>1. l \in Nat /\ n <= l /\ l <= Len(c)
    BY <1>4
  <2> HIDE DEF l
  <2>2. /\ Slice(c, n, l) \in Seq(Byte) /\ Len(Slice(c, n, l)) = l - n
        /\ \A i \in 1 .. l - n : Slice(c, n, l)[i] = c[n + i]
    BY <1>2, <2>1, SliceProperties
  <2> QED
    BY <1>5, <2>2 DEF l
<1>7. Len(From(c, n)) = Len(d)
  BY <1>2, <1>3, <1>6
<1>8. ASSUME NEW i \in 1 .. Len(d) PROVE From(c, n)[i] = d[i]
  <2>1. i \in 1 .. Len(c) - n /\ i \in 1 .. to - (from + n) /\ n + i \in 1 .. to - from
    BY <1>2, <1>3
  <2>2. From(c, n)[i] = c[n + i] /\ c[n + i] = b[from + (n + i)]
    BY <1>2, <1>6, <2>1
  <2>3. d[i] = b[from + n + i] /\ from + n + i = from + (n + i)
    BY <1>3, <2>1
  <2> QED
    BY <2>2, <2>3
<1> QED
  BY <1>3, <1>6, <1>7, <1>8, SeqEqual DEF c, d

-----------------------------------------------------------------------------
(* The inductive invariant.                                                *)

\* What OnTraffic may answer.
Replies == {AuthFailed, Refused} \cup {Answer(Parse(p)) : p \in Seq(Byte)}

Typed ==
    /\ sent \in 0 .. Len(Messages)
    /\ wire \in Seq(Byte) /\ starts \in Seq(Nat) /\ Len(starts) = sent + 1
    /\ conn \in {"open", "closed"} /\ loop \in BOOLEAN
    /\ buffer \in Seq(Byte) /\ answers \in Seq(Replies)
    /\ clientSent \in Nat /\ backendSent \in Nat
    /\ backendGot \in Seq(Nat) /\ clientGot \in Seq(Nat)

\* The client has written its requests one behind the other.
Written ==
    /\ starts[sent + 1] = Len(wire) /\ clientSent = Len(wire)
    /\ \A k \in 1 .. sent + 1 : starts[k] <= Len(wire)
    /\ \A k \in 1 .. sent :
          /\ Holds(wire, starts[k], buildMessage(Messages[k]))
          /\ starts[k + 1] = starts[k] + Len(buildMessage(Messages[k]))

\* Nothing arrives that was not sent, and no answer is given without a request.
Flow ==
    /\ Len(backendGot) <= clientSent
    /\ Len(clientGot) <= backendSent
    /\ backendSent <= Len(answers)
    /\ Len(answers) <= sent

\* While the connection is open the buffer starts where a request starts.
InPlace ==
    /\ loop => conn = "open"
    /\ conn = "open" =>
          /\ starts[Len(answers) + 1] <= Len(backendGot)
          /\ buffer = Slice(wire, starts[Len(answers) + 1], Len(backendGot))

TrafficInv == Typed /\ Written /\ Flow /\ InPlace

LEMMA MessagesTyped ==
    ASSUME NEW k \in 1 .. Len(Messages)
    PROVE  /\ IsMessage(Messages[k])
           /\ buildMessage(Messages[k]) \in Seq(Byte)
           /\ Len(buildMessage(Messages[k])) \in Nat
<1> DEFINE M == [token : Seq(Byte), payload : Seq(Byte), request : Request]
<1>1. /\ Messages \in Seq(M)
      /\ \A i \in DOMAIN Messages : /\ IsUint32(Len(Messages[i].token))
                                    /\ IsUint32(Len(Messages[i].payload))
  BY MessagesAssumption DEF MessagesAssumption
<1>2. k \in DOMAIN Messages /\ Messages[k] \in M
  <2> HIDE DEF M
  <2> QED
    BY <1>1, LenProperties, ElementOfSeq
<1>3. IsMessage(Messages[k])
  BY <1>1, <1>2 DEF IsMessage
<1>4. buildMessage(Messages[k]) \in Seq(Byte)
  <2>1. <<>> \in Seq(Byte) /\ 0 \in Nat
    OBVIOUS
  <2> QED
    BY <1>3, <2>1, MessageHolds
<1> QED
  BY <1>3, <1>4, LenProperties

LEMMA InitTraffic == Init => TrafficInv
<1> SUFFICES ASSUME Init PROVE TrafficInv
  OBVIOUS
<1>1. /\ sent = 0 /\ wire = <<>> /\ starts = <<0>> /\ conn = "open"
      /\ buffer = <<>> /\ loop = FALSE /\ answers = <<>>
      /\ clientSent = 0 /\ backendGot = <<>> /\ backendSent = 0 /\ clientGot = <<>>
  BY DEF Init, Stream!Init
<1>2. Len(Messages) \in Nat
  BY MessagesAssumption, LenProperties DEF MessagesAssumption
<1>3. Typed
  <2>1. sent \in 0 .. Len(Messages)
    BY <1>1, <1>2
  <2>2. <<>> \in Seq(Replies) /\ <<>> \in Seq(Byte) /\ <<>> \in Seq(Nat)
    OBVIOUS
  <2>3. starts \in Seq(Nat) /\ Len(starts) = sent + 1
    BY <1>1
  <2> QED
    BY <1>1, <2>1, <2>2, <2>3 DEF Typed
<1>4. Written /\ Flow
  BY <1>1 DEF Written, Flow
<1>5. InPlace
  <2>1. starts[Len(answers) + 1] = 0 /\ Len(backendGot) = 0
    BY <1>1
  <2>2. Slice(wire, 0, 0) = <<>>
    BY <1>1, SubSeqEmpty DEF Slice
  <2> QED
    BY <1>1, <2>1, <2>2 DEF InPlace
<1> QED
  BY <1>3, <1>4, <1>5 DEF TrafficInv

\* DuplexStream's bytes are numbers; only how many there are matters here.
LEMMA Delivered ==
    ASSUME NEW got \in Seq(Nat), NEW n \in Nat
    PROVE  /\ got \o Stream!NextBytes(got, n) \in Seq(Nat)
           /\ Len(got \o Stream!NextBytes(got, n)) = Len(got) + n
<1> DEFINE next == Stream!NextBytes(got, n)
<1>1. next \in Seq(Nat) /\ Len(next) = n
  <2>1. Len(got) \in Nat
    BY LenProperties
  <2>2. \A k \in 1 .. n : Len(got) + k \in Nat
    BY <2>1
  <2> QED
    BY <2>1, <2>2 DEF Stream!NextBytes
<1> HIDE DEF next
<1> QED
  BY <1>1, ConcatProperties DEF next

\* The client appends a request; nothing moves in what it wrote before.
LEMMA ClientSendInv ==
    ASSUME TrafficInv, ClientSend
    PROVE  TrafficInv'
<1> DEFINE k == sent + 1
           s == buildMessage(Messages[k])
<1>1. Typed /\ Written /\ Flow /\ InPlace
  BY DEF TrafficInv
<1>2. /\ sent < Len(Messages) /\ sent' = k /\ wire' = wire \o s
      /\ starts' = Append(starts, Len(wire'))
      /\ clientSent' = clientSent + (Len(wire') - Len(wire))
      /\ UNCHANGED <<conn, buffer, loop, answers, backendGot, backendSent, clientGot>>
  BY DEF ClientSend, Stream!ClientSend, server
<1>3. /\ sent \in Nat /\ Len(Messages) \in Nat /\ k \in 1 .. Len(Messages)
  <2>1. Len(Messages) \in Nat
    BY MessagesAssumption, LenProperties DEF MessagesAssumption
  <2> QED
    BY <1>1, <1>2, <2>1 DEF Typed
<1>4. s \in Seq(Byte) /\ Len(s) \in Nat
  BY <1>3, MessagesTyped
<1> HIDE DEF s
<1>5. /\ wire \in Seq(Byte) /\ Len(wire) \in Nat
      /\ wire' \in Seq(Byte) /\ Len(wire') = Len(wire) + Len(s)
  BY <1>1, <1>2, <1>4, ConcatProperties, LenProperties DEF Typed
<1>6. /\ starts \in Seq(Nat) /\ Len(starts) = k
      /\ starts' \in Seq(Nat) /\ Len(starts') = k + 1
      /\ \A i \in 1 .. k : starts'[i] = starts[i]
      /\ starts'[k + 1] = Len(wire')
  <2>1. starts \in Seq(Nat) /\ Len(starts) = k /\ Len(wire') \in Nat
    BY <1>1, <1>4, <1>5 DEF Typed
  <2> QED
    BY <1>2, <2>1, AppendProperties
<1>7. Typed'
  <2>1. clientSent' \in Nat
    BY <1>1, <1>2, <1>4, <1>5 DEF Typed
  <2>2. sent' \in 0 .. Len(Messages) /\ Len(starts') = sent' + 1
    BY <1>2, <1>3, <1>6
  <2> QED
    BY <1>1, <1>2, <1>5, <1>6, <2>1, <2>2 DEF Typed
<1>8. Written'
  <2>1. starts'[sent' + 1] = Len(wire') /\ clientSent' = Len(wire')
    BY <1>1, <1>2, <1>4, <1>5, <1>6 DEF Written
  <2>2. ASSUME NEW i \in 1 .. sent' + 1
        PROVE  starts'[i] <= Len(wire')
    <3>1. CASE i = k + 1
      BY <1>4, <1>5, <1>6, <3>1
    <3>2. CASE i \in 1 .. k
      <4>1. starts[i] <= Len(wire) /\ starts'[i] = starts[i]
        BY <1>1, <1>6, <3>2 DEF Written
      <4>2. starts[i] \in Nat
        BY <1>6, <3>2, ElementOfSeq
      <4> QED
        BY <1>4, <1>5, <4>1, <4>2
    <3>3. i = k + 1 \/ i \in 1 .. k
      BY <1>2, <1>3
    <3> QED
      BY <3>1, <3>2, <3>3
  <2>3. ASSUME NEW i \in 1 .. sent'
        PROVE  /\ Holds(wire', starts'[i], buildMessage(Messages[i]))
               /\ starts'[i + 1] = starts'[i] + Len(buildMessage(Messages[i]))
    <3>1. CASE i = k
      <4>1. starts'[i] = Len(wire) /\ starts'[i + 1] = Len(wire) + Len(s)
        BY <1>1, <1>3, <1>5, <1>6, <3>1 DEF Written
      <4>2. Holds(wire', Len(wire), s)
        BY <1>2, <1>4, <1>5, HoldsAtEnd
      <4> QED
        BY <3>1, <4>1, <4>2 DEF s
    <3>2. CASE i \in 1 .. sent
      <4>1. /\ i \in 1 .. k /\ i + 1 \in 1 .. k /\ i \in 1 .. Len(Messages)
        BY <1>3, <3>2
      <4>2. /\ Holds(wire, starts[i], buildMessage(Messages[i]))
            /\ starts[i + 1] = starts[i] + Len(buildMessage(Messages[i]))
        BY <1>1, <3>2 DEF Written
      <4>3. starts[i] \in Nat /\ buildMessage(Messages[i]) \in Seq(Byte)
        BY <1>6, <4>1, ElementOfSeq, MessagesTyped
      <4>4. Holds(wire \o s, starts[i], buildMessage(Messages[i]))
        BY <1>4, <1>5, <4>2, <4>3, HoldsInLonger
      <4> QED
        BY <1>2, <1>6, <4>1, <4>2, <4>4
    <3>3. i = k \/ i \in 1 .. sent
      BY <1>2, <1>3
    <3> QED
      BY <3>1, <3>2, <3>3
  <2> QED
    BY <2>1, <2>2, <2>3 DEF Written
<1>9. Flow'
  <2>1. Len(backendGot) \in Nat /\ Len(answers) \in Nat
    BY <1>1, LenProperties DEF Typed
  <2>2. clientSent \in Nat /\ clientSent' = clientSent + Len(s)
    BY <1>1, <1>2, <1>4, <1>5 DEF Typed
  <2>3. Len(backendGot) <= clientSent' /\ Len(answers) <= sent'
    BY <1>1, <1>2, <1>3, <1>4, <2>1, <2>2 DEF Flow
  <2> QED
    BY <1>1, <1>2, <2>3 DEF Flow
<1>10. InPlace'
  <2>1. ASSUME conn = "open"
        PROVE  /\ starts'[Len(answers) + 1] <= Len(backendGot)
               /\ buffer = Slice(wire', starts'[Len(answers) + 1], Len(backendGot))
    <3>1. Len(answers) \in Nat /\ Len(backendGot) \in Nat
      BY <1>1, LenProperties DEF Typed
    <3>2. Len(answers) + 1 \in 1 .. k /\ Len(backendGot) <= Len(wire)
      BY <1>1, <1>3, <3>1 DEF Flow, Written
    <3>3. /\ starts'[Len(answers) + 1] = starts[Len(answers) + 1]
          /\ starts[Len(answers) + 1] \in Nat
      BY <1>6, <3>2, ElementOfSeq
    <3>4. /\ starts[Len(answers) + 1] <= Len(backendGot)
          /\ buffer = Slice(wire, starts[Len(answers) + 1], Len(backendGot))
      BY <1>1, <2>1 DEF InPlace
    <3>5. Slice(wire \o s, starts[Len(answers) + 1], Len(backendGot)) =
          Slice(wire, starts[Len(answers) + 1], Len(backendGot))
      BY <1>4, <1>5, <3>1, <3>2, <3>3, <3>4, SliceOfLonger
    <3> QED
      BY <1>2, <3>3, <3>4, <3>5
  <2> QED
    BY <1>1, <1>2, <2>1 DEF InPlace
<1> QED
  BY <1>7, <1>8, <1>9, <1>10 DEF TrafficInv

\* What is left in the buffer begins the next request: its token's size is read
\* right, and if it is complete it is read as it was written.
LEMMA NextRequest ==
    ASSUME TrafficInv, loop, Len(buffer) >= 4
    PROVE  LET k == Len(answers) + 1
           IN  /\ k \in 1 .. sent /\ k \in 1 .. Len(Messages)
               /\ TokenSize(buffer) = Len(Messages[k].token)
               /\ IsComplete(buffer) =>
                     /\ Token(buffer) = Messages[k].token
                     /\ Payload(buffer) = Messages[k].payload
                     /\ starts[k] + TotalSize(buffer) = starts[k + 1]
                     /\ starts[k + 1] <= Len(backendGot)
                     /\ TotalSize(buffer) \in Nat
<1> DEFINE k == Len(answers) + 1
           from == starts[k]
           to == Len(backendGot)
<1>1. Typed /\ Written /\ Flow /\ InPlace
  BY DEF TrafficInv
<1>2. /\ sent \in Nat /\ Len(Messages) \in Nat /\ sent <= Len(Messages)
      /\ Len(answers) \in Nat /\ to \in Nat /\ k \in 1 .. sent + 1
      /\ wire \in Seq(Byte) /\ Len(wire) \in Nat
  <2>1. Len(Messages) \in Nat
    BY MessagesAssumption, LenProperties DEF MessagesAssumption
  <2> QED
    BY <1>1, <2>1, LenProperties DEF Typed, Flow
<1>3. /\ from \in Nat /\ from <= to /\ to <= Len(wire)
      /\ buffer = Slice(wire, from, to)
  <2>1. starts[k] \in Nat
    BY <1>1, <1>2, ElementOfSeq DEF Typed
  <2> QED
    BY <1>1, <2>1 DEF InPlace, Flow, Written
<1> HIDE DEF from, to
<1>4. Len(buffer) = to - from
  BY <1>2, <1>3, SliceProperties
<1>5. k \in 1 .. sent
  <2>1. CASE k = sent + 1
    <3>1. from = Len(wire)
      BY <1>1, <2>1 DEF Written, from
    <3> QED
      BY <1>2, <1>3, <1>4, <3>1
  <2> QED
    BY <1>2, <2>1
<1>6. k \in 1 .. Len(Messages)
  BY <1>2, <1>5
<1>7. /\ IsMessage(Messages[k]) /\ Len(buildMessage(Messages[k])) \in Nat
      /\ Holds(wire, from, buildMessage(Messages[k]))
      /\ starts[k + 1] = from + Len(buildMessage(Messages[k]))
  BY <1>1, <1>5, <1>6, MessagesTyped DEF Written, from
<1>8. /\ TokenSize(buffer) = Len(Messages[k].token)
      /\ IsComplete(buffer) <=> Len(buffer) >= Len(buildMessage(Messages[k]))
      /\ IsComplete(buffer) => /\ Token(buffer) = Messages[k].token
                               /\ Payload(buffer) = Messages[k].payload
                               /\ TotalSize(buffer) = Len(buildMessage(Messages[k]))
  <2> HIDE DEF k
  <2>1. LET c == Slice(wire, from, to)
        IN  /\ Len(c) >= 4 => TokenSize(c) = Len(Messages[k].token)
            /\ IsComplete(c) <=> Len(c) >= Len(buildMessage(Messages[k]))
            /\ IsComplete(c) => /\ Token(c) = Messages[k].token
                                /\ Payload(c) = Messages[k].payload
                                /\ TotalSize(c) = Len(buildMessage(Messages[k]))
    <3>1. /\ wire \in Seq(Byte) /\ from \in Nat /\ to \in Nat
          /\ from <= to /\ to <= Len(wire)
      BY <1>2, <1>3
    <3>2. IsMessage(Messages[k]) /\ Holds(wire, from, buildMessage(Messages[k]))
      BY <1>7
    <3> QED
      BY <3>1, <3>2, Framing
  <2> QED
    BY <1>3, <2>1
<1>9. ASSUME IsComplete(buffer)
      PROVE  /\ from + TotalSize(buffer) = starts[k + 1] /\ starts[k + 1] <= to
             /\ TotalSize(buffer) \in Nat
  <2> DEFINE l == Len(buildMessage(Messages[k]))
  <2>1. l \in Nat /\ TotalSize(buffer) = l /\ starts[k + 1] = from + l /\ l <= to - from
    BY <1>4, <1>7, <1>8, <1>9
  <2> HIDE DEF l
  <2> QED
    BY <1>2, <1>3, <2>1
<1> QED
  BY <1>5, <1>6, <1>8, <1>9 DEF from, to

\* The bytes that have come are put behind what was left.
LEMMA OnTrafficInv ==
    ASSUME TrafficInv, NEW n \in Nat, OnTraffic(n)
    PROVE  TrafficInv'
<1>1. Typed /\ Written /\ Flow /\ InPlace
  BY DEF TrafficInv
<1>2. /\ conn = "open" /\ loop' = TRUE /\ n <= clientSent - Len(backendGot)
      /\ backendGot' = backendGot \o Stream!NextBytes(backendGot, n)
      /\ buffer' = buffer \o SubSeq(wire, Len(backendGot) + 1, Len(backendGot'))
      /\ UNCHANGED <<sent, wire, starts, conn, answers, clientSent, backendSent, clientGot>>
  BY DEF OnTraffic, Arrived, Stream!DeliverToBackend, client
<1>3. /\ backendGot' \in Seq(Nat) /\ Len(backendGot') = Len(backendGot) + n
      /\ Len(backendGot) \in Nat /\ Len(wire) \in Nat /\ wire \in Seq(Byte)
      /\ Len(backendGot') <= Len(wire) /\ clientSent = Len(wire)
  BY <1>1, <1>2, Delivered, LenProperties DEF Typed, Written
<1> DEFINE from == starts[Len(answers) + 1]
<1>4. /\ from \in Nat /\ from <= Len(backendGot)
      /\ buffer = Slice(wire, from, Len(backendGot))
  <2>1. Len(answers) + 1 \in 1 .. Len(starts)
    BY <1>1, LenProperties DEF Typed, Flow
  <2> QED
    BY <1>1, <1>2, <2>1, ElementOfSeq DEF Typed, InPlace
<1> HIDE DEF from
<1>5. buffer' = Slice(wire, from, Len(backendGot')) /\ from <= Len(backendGot')
  <2> DEFINE mid == Len(backendGot)
             to == Len(backendGot')
  <2>1. /\ mid \in Nat /\ to \in Nat /\ from <= mid /\ mid <= to /\ to <= Len(wire)
        /\ from <= to
    BY <1>3, <1>4
  <2>2. buffer' = Slice(wire, from, mid) \o SubSeq(wire, mid + 1, to)
    BY <1>2, <1>4
  <2> HIDE DEF mid, to
  <2>3. Slice(wire, from, mid) \o SubSeq(wire, mid + 1, to) = Slice(wire, from, to)
    <3>1. wire \in Seq(Byte) /\ from \in Nat
      BY <1>3, <1>4
    <3> QED
      BY <2>1, <3>1, SliceGrows
  <2> QED
    BY <2>1, <2>2, <2>3 DEF to
<1>6. Typed'
  <2>1. Len(backendGot') \in Nat
    BY <1>3
  <2>2. buffer' \in Seq(Byte)
    BY <1>3, <1>4, <1>5, <2>1, SliceProperties
  <2> QED
    BY <1>1, <1>2, <1>3, <2>2 DEF Typed
<1>7. Written' /\ Flow'
  BY <1>1, <1>2, <1>3 DEF Written, Flow
<1>8. InPlace'
  BY <1>2, <1>5 DEF InPlace, from
<1> QED
  BY <1>6, <1>7, <1>8 DEF TrafficInv

\* One turn of the loop takes one request off the buffer and answers it.
LEMMA HandleInv ==
    ASSUME TrafficInv, Handle, ~HandlerPanics
    PROVE  TrafficInv'
<1> DEFINE k == Len(answers) + 1
           from == starts[k]
           n == TotalSize(buffer)
           to == Len(backendGot)
           reply == IF Token(buffer) \in ValidTokens
                    THEN Answer(Parse(Payload(buffer))) ELSE AuthFailed
<1>1. Typed /\ Written /\ Flow /\ InPlace
  BY DEF TrafficInv
<1>2. /\ loop /\ IsComplete(buffer) /\ Len(buffer) >= 4
      /\ answers' = Append(answers, reply) /\ buffer' = From(buffer, n)
      /\ UNCHANGED <<sent, wire, starts, conn, loop, clientSent, backendGot,
                     backendSent, clientGot>>
  BY DEF Handle, IsComplete, client, stream
<1>3. /\ k \in 1 .. sent /\ from + n = starts[k + 1] /\ starts[k + 1] <= to
      /\ n \in Nat /\ Payload(buffer) = Messages[k].payload /\ k \in 1 .. Len(Messages)
  BY <1>2, NextRequest
<1>4. reply \in Replies
  <2>1. Payload(buffer) \in Seq(Byte)
    BY <1>3, MessagesTyped DEF IsMessage
  <2> QED
    BY <2>1 DEF Replies
<1> HIDE DEF reply
<1>5. /\ Len(answers) \in Nat
      /\ answers' \in Seq(Replies) /\ Len(answers') = k /\ sent \in Nat
  BY <1>1, <1>2, <1>4, AppendProperties, LenProperties DEF Typed
<1>6. /\ from \in Nat /\ to \in Nat /\ to <= Len(wire) /\ wire \in Seq(Byte)
      /\ buffer = Slice(wire, from, to)
  <2>1. k \in 1 .. Len(starts)
    BY <1>1, <1>3 DEF Typed
  <2> QED
    BY <1>1, <1>2, <2>1, ElementOfSeq, LenProperties DEF Typed, Flow, Written, InPlace
<1> HIDE DEF from, n, to
<1>7. buffer' = Slice(wire, from + n, to) /\ from + n \in Nat /\ from + n <= to
  BY <1>2, <1>3, <1>6, SliceShrinks
<1>8. Typed'
  <2>1. buffer' \in Seq(Byte)
    BY <1>6, <1>7, SliceProperties
  <2> QED
    BY <1>1, <1>2, <1>5, <2>1 DEF Typed
<1>9. Written' /\ Flow'
  BY <1>1, <1>2, <1>3, <1>5 DEF Written, Flow, Typed
<1>10. InPlace'
  BY <1>1, <1>2, <1>3, <1>5, <1>7 DEF InPlace, to
<1> QED
  BY <1>8, <1>9, <1>10 DEF TrafficInv

LEMMA CloseConnInv ==
    ASSUME TrafficInv, CloseConn
    PROVE  TrafficInv'
<1>1. Typed /\ Written /\ Flow /\ InPlace
  BY DEF TrafficInv
<1>2. /\ loop /\ Len(buffer) >= 4 /\ answers' = Append(answers, Refused)
      /\ conn' = "closed" /\ loop' = FALSE
      /\ UNCHANGED <<sent, wire, starts, buffer, clientSent, backendGot, backendSent,
                     clientGot>>
  BY DEF CloseConn, TokenTooLong, client, stream
<1>3. Len(answers) + 1 \in 1 .. sent
  BY <1>2, NextRequest
<1>4. /\ Len(answers) \in Nat /\ Refused \in Replies
      /\ answers' \in Seq(Replies) /\ Len(answers') = Len(answers) + 1
  <2>1. Refused \in Replies /\ Len(answers) \in Nat /\ answers \in Seq(Replies)
    BY <1>1, LenProperties DEF Replies, Typed
  <2> QED
    BY <1>2, <2>1, AppendProperties
<1>5. Typed'
  BY <1>1, <1>2, <1>4 DEF Typed
<1>6. Written' /\ Flow'
  BY <1>1, <1>2, <1>3, <1>4 DEF Written, Flow, Typed
<1>7. InPlace'
  BY <1>2 DEF InPlace
<1> QED
  BY <1>5, <1>6, <1>7 DEF TrafficInv

\* The steps that leave the buffer alone, the turn that panics among them.
LEMMA OtherInv ==
    ASSUME TrafficInv,
           \/ Disconnect \/ Return \/ RunWrite \/ UNCHANGED vars
           \/ Handle /\ HandlerPanics
           \/ \E n \in Nat : DeliverAnswers(n)
    PROVE  TrafficInv'
<1>1. Typed /\ Written /\ Flow /\ InPlace
  BY DEF TrafficInv
<1>2. /\ Len(answers) \in Nat /\ Len(clientGot) \in Nat
      /\ UNCHANGED <<sent, wire, starts, buffer, answers, clientSent, backendGot>>
  <2>1. Len(answers) \in Nat /\ Len(clientGot) \in Nat
    BY <1>1, LenProperties DEF Typed
  <2> QED
    BY <2>1 DEF Disconnect, Return, Handle, RunWrite, DeliverAnswers, Stream!BackendSend,
         Stream!DeliverToClient, vars, client, server, stream
<1>3. /\ conn' = conn \/ (conn' = "closed" /\ ~loop')
      /\ loop' = loop \/ loop' = FALSE
  BY DEF Disconnect, Return, Handle, RunWrite, DeliverAnswers, vars, client, server, stream
<1>4. /\ backendSent' \in Nat /\ clientGot' \in Seq(Nat)
      /\ Len(clientGot') <= backendSent' /\ backendSent' <= Len(answers)
  <2>1. CASE RunWrite
    <3>1. /\ backendSent < Len(answers) /\ backendSent' = backendSent + 1
          /\ clientGot' = clientGot
      BY <2>1 DEF RunWrite, Stream!BackendSend
    <3>2. /\ backendSent \in Nat /\ clientGot \in Seq(Nat)
          /\ Len(clientGot) <= backendSent
      BY <1>1 DEF Typed, Flow
    <3> QED
      BY <1>2, <3>1, <3>2
  <2>2. ASSUME NEW n \in Nat, DeliverAnswers(n)
        PROVE  /\ backendSent' \in Nat /\ clientGot' \in Seq(Nat)
               /\ Len(clientGot') <= backendSent' /\ backendSent' <= Len(answers)
    <3>1. /\ n <= backendSent - Len(clientGot) /\ backendSent' = backendSent
          /\ clientGot' = clientGot \o Stream!NextBytes(clientGot, n)
      BY <2>2 DEF DeliverAnswers, Stream!DeliverToClient
    <3>2. clientGot' \in Seq(Nat) /\ Len(clientGot') = Len(clientGot) + n
      BY <1>1, <3>1, Delivered DEF Typed
    <3> QED
      BY <1>1, <1>2, <3>1, <3>2 DEF Typed, Flow
  <2>3. CASE Disconnect \/ Return \/ (Handle /\ HandlerPanics) \/ UNCHANGED vars
    BY <1>1, <2>3 DEF Disconnect, Return, Handle, vars, stream, Typed, Flow
  <2> QED
    BY <2>1, <2>2, <2>3
<1>5. Typed'
  BY <1>1, <1>2, <1>3, <1>4 DEF Typed
<1>6. Written' /\ Flow'
  BY <1>1, <1>2, <1>4 DEF Written, Flow
<1>7. InPlace'
  BY <1>1, <1>2, <1>3 DEF InPlace, Typed
<1> QED
  BY <1>5, <1>6, <1>7 DEF TrafficInv

LEMMA TrafficStep == TrafficInv /\ [Next]_vars => TrafficInv'
<1> SUFFICES ASSUME TrafficInv, [Next]_vars PROVE TrafficInv'
  OBVIOUS
<1>1. CASE ClientSend
  BY <1>1, ClientSendInv
<1>2. CASE Disconnect \/ Rest \/ UNCHANGED vars
  BY <1>2, OtherInv DEF Rest
<1>3. CASE EventLoop
  <2>1. CASE CloseConn
    BY <2>1, CloseConnInv
  <2>2. CASE Handle
    BY <2>2, HandleInv, OtherInv
  <2>3. CASE Return \/ RunWrite
    BY <2>3, OtherInv
  <2>4. ASSUME NEW n \in Coming, OnTraffic(n) PROVE TrafficInv'
    <3>1. n \in Nat
      BY LenProperties DEF Coming, TrafficInv, Typed
    <3> QED
      BY <2>4, <3>1, OnTrafficInv
  <2> QED
    BY <1>3, <2>1, <2>2, <2>3, <2>4 DEF EventLoop
<1>4. ASSUME NEW n \in 1 .. backendSent - Len(clientGot), DeliverAnswers(n)
      PROVE  TrafficInv'
  <2>1. n \in Nat
    BY LenProperties DEF TrafficInv, Typed
  <2> QED
    BY <1>4, <2>1, OtherInv
<1> QED
  BY <1>1, <1>2, <1>3, <1>4 DEF Next

LEMMA TrafficInvHolds == Spec => []TrafficInv
  BY InitTraffic, TrafficStep, PTL DEF Spec

\* BufferIsRemainder: for requests of any number and size, and however the network
\* cuts them, the buffer never loses its place in the client's stream.
THEOREM BufferKeepsItsPlace == Spec => []BufferIsRemainder
<1>1. TrafficInv => BufferIsRemainder
  BY DEF TrafficInv, InPlace, BufferIsRemainder
<1> QED
  BY <1>1, TrafficInvHolds, PTL

-----------------------------------------------------------------------------
(* OnTraffic implements RequestStream.                                     *)

\* What the answers ought to be, as RequestStream is told.
DueAnswers == [k \in DOMAIN Messages |-> DueTo(Messages[k])]

LEMMA DueProperties ==
    /\ Len(DueAnswers) = Len(Messages) /\ Len(Messages) \in Nat
    /\ \A k \in 1 .. Len(Messages) : DueAnswers[k] = DueTo(Messages[k])
<1>1. DOMAIN Messages = 1 .. Len(Messages) /\ Len(Messages) \in Nat
  BY MessagesAssumption, LenProperties DEF MessagesAssumption
<1>2. DueAnswers = [k \in 1 .. Len(Messages) |-> DueTo(Messages[k])]
  BY <1>1 DEF DueAnswers
<1> QED
  BY <1>1, <1>2

\* A payload that is answered is understood as it is meant, or refused if it is no
\* request.
LEMMA MeantIsParsed ==
    ASSUME NEW k \in 1 .. Len(Messages), ~Panics(Messages[k].payload)
    PROVE  Meant(Messages[k]) = Parse(Messages[k].payload)
<1> DEFINE M == [token : Seq(Byte), payload : Seq(Byte), request : Request]
           m == Messages[k]
<1>1. Messages \in Seq(M)
  BY MessagesAssumption DEF MessagesAssumption
<1>2. k \in DOMAIN Messages /\ m \in M
  <2> HIDE DEF M
  <2> QED
    BY <1>1, LenProperties, ElementOfSeq
<1> DEFINE r == m.request
           q == buildPayload(r)
<1>3. \/ IsRequest(r) /\ \E n \in 0 .. Len(q) : m.payload = SubSeq(q, 1, n)
      \/ m.payload # <<>> /\ m.payload[1] \notin Commands
  BY <1>2, MessagesAssumption DEF MessagesAssumption
<1>4. r \in Request
  BY <1>2
<1>0. ~Panics(m.payload)
  OBVIOUS
<1> HIDE DEF m, r
<1>5. IsRequest(r) => /\ q \in Seq(Byte) /\ (~Panics(q) => Parse(q) = r)
                      /\ q # <<>> /\ q[1] \in Commands
  <2>1. ASSUME IsRequest(r) PROVE \E length \in Nat \ {0} : Begins(r, length)
    <3> DEFINE L == Len(r.id)
               N == Len(r.data)
    <3>1. L \in Nat /\ N \in Nat
      BY <1>4, LenProperties DEF Request
    <3> HIDE DEF L, N
    <3>2. /\ 3 + L \in Nat \ {0} /\ 11 + L \in Nat \ {0}
          /\ 11 + L + N \in Nat \ {0}
      BY <3>1
    <3> QED
      BY <1>4, <2>1, <3>2, SessionUnderstood, InitUnderstood, ChunkUnderstood
         DEF IsRequest, Commands, L, N
  <2>2. ASSUME IsRequest(r) PROVE q # <<>> /\ q[1] \in Commands
    <3>1. PICK length \in Nat \ {0} : Begins(r, length)
      BY <2>1, <2>2
    <3>2. Len(q) # 0 /\ q[1] = r.cmd
      BY <3>1 DEF Begins
    <3>3. Len(<<>>) = 0
      OBVIOUS
    <3> QED
      BY <2>2, <3>2, <3>3 DEF IsRequest
  <2> QED
    BY <1>4, <2>2, RequestsAreUnderstood
<1> HIDE DEF q
<1>6. ASSUME IsRequest(r), m.payload = q PROVE Meant(m) = Parse(m.payload)
  BY <1>0, <1>5, <1>6 DEF Meant, r, q
<1>7. ASSUME ~(IsRequest(r) /\ m.payload = q) PROVE Meant(m) = Parse(m.payload)
  <2>1. Parse(m.payload) = NotUnderstood
    <3>1. CASE m.payload # <<>> /\ m.payload[1] \notin Commands
      BY <3>1 DEF Parse, Commands
    <3>2. ASSUME IsRequest(r), NEW n \in 0 .. Len(q), m.payload = SubSeq(q, 1, n)
          PROVE  Parse(m.payload) = NotUnderstood
      <4>1. n # Len(q)
        <5>1. SubSeq(q, 1, Len(q)) = q
          BY <1>5, <3>2, SubSeqFull
        <5> QED
          BY <1>7, <3>2, <5>1
      <4> QED
        BY <1>0, <1>4, <3>2, <4>1, CutRequestsAreRefused DEF q
    <3> QED
      BY <1>3, <3>1, <3>2
  <2> QED
    BY <1>7, <2>1 DEF Meant, r, q
<1> QED
  BY <1>6, <1>7 DEF m

\* What OnTraffic answers is what is due.
LEMMA AnswerIsDue ==
    ASSUME TrafficInv, (Handle /\ ~HandlerPanics) \/ CloseConn
    PROVE  /\ Len(answers) < sent
           /\ answers' = Append(answers, DueAnswers[Len(answers) + 1])
           /\ UNCHANGED <<sent, clientGot>>
<1> DEFINE k == Len(answers) + 1
           m == Messages[k]
<1>1. loop /\ Len(buffer) >= 4 /\ UNCHANGED <<sent, clientGot>>
  BY DEF Handle, CloseConn, IsComplete, TokenTooLong, client, stream
<1>2. /\ k \in 1 .. sent /\ k \in 1 .. Len(Messages)
      /\ TokenSize(buffer) = Len(m.token)
      /\ IsComplete(buffer) => Token(buffer) = m.token /\ Payload(buffer) = m.payload
  BY <1>1, NextRequest
<1>3. Len(answers) < sent
  BY <1>2, LenProperties DEF TrafficInv, Typed
<1>4. DueAnswers[k] = DueTo(m)
  BY <1>2, DueProperties
<1>5. CASE CloseConn
  <2>1. DueTo(m) = Refused
    BY <1>2, <1>5 DEF CloseConn, TokenTooLong, DueTo
  <2> QED
    BY <1>1, <1>3, <1>4, <1>5, <2>1 DEF CloseConn
<1>6. CASE Handle /\ ~HandlerPanics
  <2>1. IsComplete(buffer) /\ ~(Len(m.token) > MaxTokenSize)
    BY <1>1, <1>2, <1>6 DEF Handle, TokenTooLong
  <2>2. m.token \in ValidTokens => Meant(m) = Parse(m.payload)
    BY <1>2, <1>6, <2>1, MeantIsParsed DEF HandlerPanics
  <2>3. answers' = Append(answers, IF Token(buffer) \in ValidTokens
                                   THEN Answer(Parse(Payload(buffer))) ELSE AuthFailed)
    BY <1>6 DEF Handle
  <2>4. answers' = Append(answers, DueTo(m))
    BY <1>2, <2>1, <2>2, <2>3 DEF DueTo
  <2> QED
    BY <1>1, <1>3, <1>4, <2>4
<1> QED
  BY <1>5, <1>6

\* ImplementsRequestStream: each request is answered once, in its order, and as the
\* client meant it, for requests of any number and size and any cuts.
THEOREM TrafficIsRequestStream == Spec => ImplementsRequestStream
<1> USE DEF DueAnswers
<1>1. Init => Requests!Init
  BY DEF Init, Stream!Init, Requests!Init
<1>2. ASSUME TrafficInv, [Next]_vars PROVE [Requests!Next]_(Requests!vars)
  <2>1. CASE ClientSend
    <3>1. sent < Len(DueAnswers) /\ sent' = sent + 1 /\ UNCHANGED <<answers, clientGot>>
      BY <2>1, DueProperties DEF ClientSend, Stream!ClientSend, server
    <3> QED
      BY <3>1 DEF Requests!Next, Requests!Send
  <2>2. CASE (Handle /\ ~HandlerPanics) \/ CloseConn
    BY <1>2, <2>2, AnswerIsDue DEF Requests!Next, Requests!Answer
  <2>3. ASSUME NEW n \in 1 .. backendSent - Len(clientGot), DeliverAnswers(n)
        PROVE  Requests!Receive
    <3>1. /\ n \in Nat /\ n > 0 /\ n <= backendSent - Len(clientGot)
          /\ Len(clientGot) \in Nat /\ Len(answers) \in Nat
          /\ backendSent \in Nat /\ backendSent <= Len(answers)
      BY <1>2, <2>3, LenProperties DEF TrafficInv, Typed, Flow
    <3>2. /\ clientGot' = clientGot \o Stream!NextBytes(clientGot, n)
          /\ UNCHANGED <<sent, answers>>
      BY <2>3 DEF DeliverAnswers, Stream!DeliverToClient, client, server
    <3>3. Len(clientGot') = Len(clientGot) + n
      BY <1>2, <3>1, <3>2, Delivered DEF TrafficInv, Typed
    <3> QED
      BY <3>1, <3>2, <3>3 DEF Requests!Receive
  <2>4. CASE UNCHANGED <<sent, answers, clientGot>>
    BY <2>4 DEF Requests!vars
  <2>5. ASSUME NEW n \in Coming, OnTraffic(n) PROVE UNCHANGED <<sent, answers, clientGot>>
    BY <2>5 DEF OnTraffic, Stream!DeliverToBackend, client
  <2>6. ASSUME \/ Disconnect \/ Return \/ RunWrite \/ Rest \/ UNCHANGED vars
               \/ Handle /\ HandlerPanics
        PROVE  UNCHANGED <<sent, answers, clientGot>>
    BY <2>6 DEF Disconnect, Return, Handle, RunWrite, Rest, Stream!BackendSend, vars,
         client, server, stream
  <2> QED
    BY <1>2, <2>1, <2>2, <2>3, <2>4, <2>5, <2>6 DEF Next, EventLoop, Requests!Next
<1> QED
  BY <1>1, <1>2, TrafficInvHolds, PTL DEF Spec, ImplementsRequestStream, Requests!Spec
=============================================================================
