--------------------------- MODULE BootFrameProofs ---------------------------
(***************************************************************************)
(* Theorems about BootFrame for every length of a block that the frame's   *)
(* two length bytes can hold, every size of buf_decrypt that holds one,    *)
(* and every content of the requests and of the replies.                   *)
(***************************************************************************)
EXTENDS BootFrame, TLAPS

Bytes == Seq(Byte)

-----------------------------------------------------------------------------
(* Sequences of bytes.                                                     *)

LEMMA SameSequence ==
  ASSUME NEW s \in Bytes, NEW t \in Bytes, Len(s) = Len(t),
         \A i \in 1 .. Len(s) : s[i] = t[i]
  PROVE  s = t
BY DEF Bytes

LEMMA LenIs == \A s \in Bytes : Len(s) \in Nat /\ \A i \in 1 .. Len(s) : s[i] \in Byte
BY DEF Bytes

\* The provers know \o too well: they unfold it where its facts are enough.
Cat(s, t) == s \o t

LEMMA Joined ==
  ASSUME NEW s \in Bytes, NEW t \in Bytes
  PROVE  /\ Cat(s, t) \in Bytes /\ Len(Cat(s, t)) = Len(s) + Len(t)
         /\ \A i \in 1 .. Len(s) : Cat(s, t)[i] = s[i]
         /\ \A i \in 1 .. Len(t) : Cat(s, t)[Len(s) + i] = t[i]
BY DEF Bytes, Cat

LEMMA ByteIs == \A b : b \in Byte <=> b \in Nat /\ b <= 255
BY DEF Byte

Binary(w, u, x, t, y, r, z, q) ==
  w + 2 * u + 4 * x + 8 * t + 16 * y + 32 * r + 64 * z + 128 * q

LEMMA BitsOf ==
  ASSUME NEW w \in {0, 1}, NEW u \in {0, 1}, NEW x \in {0, 1}, NEW t \in {0, 1},
         NEW y \in {0, 1}, NEW r \in {0, 1}, NEW z \in {0, 1}, NEW q \in {0, 1},
         NEW b, b = Binary(w, u, x, t, y, r, z, q)
  PROVE  Bit(b, 1) = w /\ Bit(b, 4) = x /\ Bit(b, 16) = y /\ Bit(b, 64) = z
<1>1. b % 2 = w /\ b \div 1 = b
  BY DEF Binary
<1>2. b \div 4 = x + 2 * t + 4 * y + 8 * r + 16 * z + 32 * q
  BY DEF Binary
<1>3. b \div 16 = y + 2 * r + 4 * z + 8 * q
  BY DEF Binary
<1>4. b \div 64 = z + 2 * q
  BY DEF Binary
<1>5. (b \div 4) % 2 = x /\ (b \div 16) % 2 = y /\ (b \div 64) % 2 = z
  BY <1>2, <1>3, <1>4
<1>6. QED
  BY <1>1, <1>5 DEF Bit

LEMMA InBinary ==
  ASSUME NEW b \in Byte
  PROVE  \E w, u, x, t, y, r, z, q \in {0, 1} : b = Binary(w, u, x, t, y, r, z, q)
<1>1. b \in Nat /\ b <= 255
  BY ByteIs
<1> DEFINE B(k) == (b \div k) % 2
<1>2. \A k \in {1, 2, 4, 8, 16, 32, 64, 128} : B(k) \in {0, 1}
  BY <1>1
<1>3. b = Binary(B(1), B(2), B(4), B(8), B(16), B(32), B(64), B(128))
  BY <1>1 DEF Binary
<1> HIDE DEF B
<1>4. QED
  BY <1>2, <1>3

LEMMA MaskedTwice ==
  ASSUME NEW b \in Byte
  PROVE  Masked[b] \in Byte /\ Masked[Masked[b]] = b
<1>1. PICK w, u, x, t, y, r, z, q \in {0, 1} : b = Binary(w, u, x, t, y, r, z, q)
  BY InBinary
<1> DEFINE c == Binary(1 - w, u, 1 - x, t, 1 - y, r, 1 - z, q)
<1>2. 1 - w \in {0, 1} /\ 1 - x \in {0, 1} /\ 1 - y \in {0, 1} /\ 1 - z \in {0, 1}
  OBVIOUS
<1>3. c \in Byte /\ b \in Nat
  BY ByteIs DEF Binary
<1>4. Masked[b] = b + 85 - 2 * (w + 4 * x + 16 * y + 64 * z)
  BY <1>1, BitsOf DEF Masked
<1>5. Masked[b] = c
  BY <1>1, <1>4 DEF Binary
<1>6. Bit(c, 1) = 1 - w /\ Bit(c, 4) = 1 - x /\ Bit(c, 16) = 1 - y /\ Bit(c, 64) = 1 - z
  <2> HIDE DEF c
  <2>1. QED BY <1>2, BitsOf DEF c
<1>7. Masked[c] = c + 85 - 2 * ((1 - w) + 4 * (1 - x) + 16 * (1 - y) + 64 * (1 - z))
  <2> HIDE DEF c
  <2>1. QED BY <1>3, <1>6 DEF Masked
<1>8. Masked[c] = b
  BY <1>1, <1>7 DEF Binary
<1>9. QED
  BY <1>3, <1>5, <1>8

LEMMA CryptBytes ==
  ASSUME NEW s \in Bytes
  PROVE  /\ Crypt(s) \in Bytes /\ Len(Crypt(s)) = Len(s)
         /\ \A i \in 1 .. Len(s) : Crypt(s)[i] = Masked[s[i]]
<1>1. DOMAIN s = 1 .. Len(s) /\ Len(s) \in Nat /\ \A i \in 1 .. Len(s) : s[i] \in Byte
  BY DEF Bytes
<1>2. Crypt(s) = [i \in 1 .. Len(s) |-> Masked[s[i]]]
  BY <1>1 DEF Crypt
<1>3. \A i \in 1 .. Len(s) : Masked[s[i]] \in Byte
  BY <1>1, MaskedTwice
<1>4. QED
  BY <1>1, <1>2, <1>3 DEF Bytes

LEMMA CryptTwice ==
  ASSUME NEW s \in Bytes
  PROVE  Crypt(Crypt(s)) = s
<1>1. Crypt(s) \in Bytes /\ Len(Crypt(s)) = Len(s)
      /\ \A i \in 1 .. Len(s) : Crypt(s)[i] = Masked[s[i]]
  BY CryptBytes
<1>2. /\ Crypt(Crypt(s)) \in Bytes /\ Len(Crypt(Crypt(s))) = Len(s)
      /\ \A i \in 1 .. Len(s) : Crypt(Crypt(s))[i] = Masked[Crypt(s)[i]]
  BY <1>1, CryptBytes
<1>3. \A i \in 1 .. Len(s) : s[i] \in Byte
  BY DEF Bytes
<1>4. \A i \in 1 .. Len(s) : Crypt(Crypt(s))[i] = s[i]
  BY <1>1, <1>2, <1>3, MaskedTwice
<1>5. QED
  BY <1>2, <1>4, SameSequence

LEMMA OverBytes ==
  ASSUME NEW buf \in Bytes, NEW s \in Bytes
  PROVE  /\ Over(buf, s) \in Bytes
         /\ Len(Over(buf, s)) = IF Len(buf) > Len(s) THEN Len(buf) ELSE Len(s)
         /\ \A i \in 1 .. Len(s) : Over(buf, s)[i] = s[i]
<1> DEFINE r == SubSeq(buf, Len(s) + 1, Len(buf))
<1>1. Len(buf) \in Nat /\ Len(s) \in Nat
  BY DEF Bytes
<1>2. r \in Bytes /\ Len(r) = IF Len(buf) > Len(s) THEN Len(buf) - Len(s) ELSE 0
  BY <1>1 DEF Bytes
<1> HIDE DEF r
<1>3. Cat(s, r) \in Bytes /\ Len(Cat(s, r)) = Len(s) + Len(r)
      /\ \A i \in 1 .. Len(s) : Cat(s, r)[i] = s[i]
  BY <1>2, Joined
<1>4. Over(buf, s) = Cat(s, r)
  BY DEF Over, r, Cat
<1>5. QED
  BY <1>1, <1>2, <1>3, <1>4

\* A header of four bytes, a text and a trailer of two.
LEMMA Enclosed ==
  ASSUME NEW h \in Bytes, Len(h) = 4, NEW t \in Bytes, NEW e \in Bytes, Len(e) = 2
  PROVE  /\ Cat(Cat(h, t), e) \in Bytes /\ Len(Cat(Cat(h, t), e)) = Len(t) + 6
         /\ \A i \in 1 .. 4 : Cat(Cat(h, t), e)[i] = h[i]
         /\ \A i \in 1 .. Len(t) : Cat(Cat(h, t), e)[i + 4] = t[i]
<1> DEFINE f == Cat(h, t)
<1>1. /\ f \in Bytes /\ Len(f) = 4 + Len(t) /\ Len(t) \in Nat
      /\ \A i \in 1 .. 4 : f[i] = h[i]
      /\ \A i \in 1 .. Len(t) : f[4 + i] = t[i]
  <2> HIDE DEF f
  <2>1. /\ f \in Bytes /\ Len(f) = Len(h) + Len(t)
        /\ \A i \in 1 .. Len(h) : f[i] = h[i]
        /\ \A i \in 1 .. Len(t) : f[Len(h) + i] = t[i]
    BY Joined, Zenon DEF f
  <2>2. Len(t) \in Nat
    BY LenIs
  <2>3. QED
    BY <2>1, <2>2
<1> HIDE DEF f
<1>2. /\ Cat(f, e) \in Bytes /\ Len(Cat(f, e)) = Len(f) + Len(e)
      /\ \A i \in 1 .. Len(f) : Cat(f, e)[i] = f[i]
  BY <1>1, Joined, Zenon
<1>3. ASSUME NEW i \in 1 .. 4 PROVE Cat(f, e)[i] = h[i]
  BY <1>1, <1>2
<1>4. ASSUME NEW i \in 1 .. Len(t) PROVE Cat(f, e)[i + 4] = t[i]
  <2>1. i + 4 = 4 + i /\ i + 4 \in 1 .. Len(f)
    BY <1>1
  <2>2. QED
    BY <1>1, <1>2, <2>1
<1>5. QED
  BY <1>1, <1>2, <1>3, <1>4 DEF f

LEMMA FrameBytes ==
  ASSUME NEW m \in Bytes, Len(m) >= 1, Len(m) < NoFrame
  PROVE  /\ build_crypt_msg(m) \in Bytes /\ Len(build_crypt_msg(m)) = Len(m) + 5
         /\ build_crypt_msg(m)[2] = Crypt(m)[1]
         /\ build_crypt_msg(m)[3] * 256 + build_crypt_msg(m)[4] = Len(m)
         /\ \A i \in 2 .. Len(m) : build_crypt_msg(m)[i + 3] = Crypt(m)[i]
<1> DEFINE c == Crypt(m)
           h == <<Flag, c[1], Len(c) \div 256, Len(c) % 256>>
           e == <<0, Flag>>
           t == Tail(c)
           b == Cat(Cat(h, t), e)
<1>1. c \in Bytes /\ Len(c) = Len(m) /\ Len(m) >= 1 /\ Len(m) < NoFrame /\ Len(m) \in Nat
  BY CryptBytes, LenIs
<1> HIDE DEF c
<1>2. /\ Len(c) \div 256 \in Byte /\ Len(c) % 256 \in Byte
      /\ (Len(c) \div 256) * 256 + (Len(c) % 256) = Len(c)
  BY <1>1, ByteIs DEF NoFrame
<1>3. h \in Bytes /\ Len(h) = 4 /\ h[2] = c[1] /\ h[3] * 256 + h[4] = Len(c)
  <2>1. c[1] \in Byte /\ Flag \in Byte
    BY <1>1, LenIs, ByteIs DEF Flag
  <2>2. QED
    BY <1>2, <2>1 DEF Bytes
<1>4. e \in Bytes /\ Len(e) = 2
  <2>1. 0 \in Byte /\ Flag \in Byte
    BY ByteIs DEF Flag
  <2>2. QED
    BY <2>1 DEF Bytes
<1>5. t \in Bytes /\ Len(t) = Len(c) - 1 /\ \A i \in 1 .. Len(c) - 1 : t[i] = c[i + 1]
  BY <1>1 DEF Bytes
<1> HIDE DEF h, e, t
<1>6. /\ b \in Bytes /\ Len(b) = Len(c) + 5
      /\ \A i \in 1 .. 4 : b[i] = h[i]
      /\ \A i \in 1 .. Len(c) - 1 : b[i + 4] = t[i]
  BY <1>1, <1>3, <1>4, <1>5, Enclosed
<1>7. build_crypt_msg(m) = b
  BY DEF build_crypt_msg, c, h, e, t, Cat
<1> HIDE DEF b
<1>8. ASSUME NEW i \in 2 .. Len(m) PROVE b[i + 3] = c[i]
  <2>1. i - 1 \in 1 .. Len(c) - 1 /\ (i - 1) + 4 = i + 3 /\ (i - 1) + 1 = i
    BY <1>1
  <2>2. b[(i - 1) + 4] = t[i - 1] /\ t[i - 1] = c[(i - 1) + 1]
    BY <1>5, <1>6, <2>1
  <2>3. QED
    BY <2>1, <2>2
<1>9. b[2] = h[2] /\ b[3] = h[3] /\ b[4] = h[4]
  BY <1>6
<1>10. QED
  BY <1>1, <1>3, <1>6, <1>7, <1>8, <1>9 DEF c

\* The first byte and the rest.
LEMMA FirstAndRest ==
  ASSUME NEW x \in Bytes, Len(x) = 1, NEW r \in Bytes,
         NEW c \in Bytes, Len(c) = Len(r) + 1, x[1] = c[1],
         \A i \in 1 .. Len(r) : r[i] = c[i + 1]
  PROVE  Cat(x, r) = c
<1> DEFINE u == Cat(x, r)
<1>1. /\ u \in Bytes /\ Len(u) = Len(x) + Len(r)
      /\ \A i \in 1 .. Len(x) : u[i] = x[i]
      /\ \A i \in 1 .. Len(r) : u[Len(x) + i] = r[i]
  BY Joined, Zenon
<1>2. Len(r) \in Nat
  BY LenIs
<1> HIDE DEF u
<1>3. ASSUME NEW i \in 1 .. Len(c) PROVE u[i] = c[i]
  <2>1. CASE i = 1
    BY <1>1, <2>1
  <2>2. CASE i # 1
    <3>1. i - 1 \in 1 .. Len(r) /\ (i - 1) + 1 = i /\ 1 + (i - 1) = i
      BY <1>2, <2>2
    <3>2. u[1 + (i - 1)] = r[i - 1] /\ r[i - 1] = c[(i - 1) + 1]
      BY <1>1, <3>1
    <3>3. QED
      BY <3>1, <3>2
  <2>3. QED
    BY <2>1, <2>2
<1>4. u = c
  BY <1>1, <1>2, <1>3, SameSequence
<1>5. QED
  BY <1>4 DEF u

\* What either end decrypts at the start of a frame's buffer is the message,
\* whatever follows the frame, and whether or not it knows the length.
LEMMA Decrypts ==
  ASSUME NEW m \in Bytes, Len(m) >= 1, Len(m) < NoFrame,
         NEW src \in Bytes, Len(src) >= Len(m) + 5,
         \A i \in 1 .. Len(m) + 5 : src[i] = build_crypt_msg(m)[i],
         NEW n \in {Len(m) + 5, NoFrame}
  PROVE  decrypt_msg(src, n) = m
<1> DEFINE c == Crypt(m)
           b == build_crypt_msg(m)
           L == Len(m)
           len == IF n > 6 THEN src[3] * 256 + src[4] ELSE 1
           r == SubSeq(src, 5, L + 3)
           x == <<src[2]>>
           u == Cat(x, r)
<1>1. m \in Bytes /\ L \in Nat /\ L >= 1 /\ L < NoFrame /\ c \in Bytes /\ Len(c) = L
      /\ Len(src) \in Nat
  BY CryptBytes, LenIs
<1>2. /\ b[2] = c[1] /\ b[3] * 256 + b[4] = L
      /\ \A i \in 2 .. L : b[i + 3] = c[i]
  BY FrameBytes
<1>3. \A i \in 1 .. L + 5 : src[i] = b[i]
  OBVIOUS
<1> HIDE DEF b, c
<1>4. src[2] = c[1] /\ src[3] * 256 + src[4] = L
  <2>1. 2 \in 1 .. L + 5 /\ 3 \in 1 .. L + 5 /\ 4 \in 1 .. L + 5
    BY <1>1
  <2>2. QED
    BY <1>2, <1>3, <2>1
<1>5. len = L
  BY <1>1, <1>4 DEF NoFrame
<1>6. r \in Bytes /\ Len(r) = L - 1 /\ \A i \in 1 .. L - 1 : r[i] = src[i + 4]
  BY <1>1 DEF Bytes
<1>7. ASSUME NEW i \in 1 .. L - 1 PROVE r[i] = c[i + 1]
  <2>1. i + 1 \in 2 .. L /\ i + 4 \in 1 .. L + 5 /\ (i + 1) + 3 = i + 4
    BY <1>1
  <2>2. QED
    BY <1>2, <1>3, <1>6, <2>1
<1>8. x \in Bytes /\ Len(x) = 1 /\ x[1] = src[2]
  <2>1. src[2] \in Byte
    BY <1>1, <1>4, LenIs
  <2>2. QED
    BY <2>1 DEF Bytes
<1>9. decrypt_msg(src, n) = Crypt(u)
  <2>1. decrypt_msg(src, n) = Crypt(Cat(x, SubSeq(src, 5, len + 3)))
    BY DEF decrypt_msg, AnnouncedLength, Cat
  <2> HIDE DEF len
  <2>2. QED
    BY <1>5, <2>1
<1>10. u = c
  <2> HIDE DEF r, x, L
  <2>1. Len(c) = Len(r) + 1 /\ x[1] = c[1]
    BY <1>1, <1>4, <1>6, <1>8
  <2>2. \A i \in 1 .. Len(r) : r[i] = c[i + 1]
    BY <1>6, <1>7
  <2>3. x \in Bytes /\ Len(x) = 1 /\ r \in Bytes /\ c \in Bytes
    BY <1>1, <1>6, <1>8
  <2> HIDE DEF u
  <2>4. Cat(x, r) = c
    BY <2>1, <2>2, <2>3, FirstAndRest
  <2>5. QED
    BY <2>4 DEF u
<1>11. QED
  BY <1>9, <1>10, CryptTwice DEF c

-----------------------------------------------------------------------------
(* The requests, one by one: their bytes, their lengths and those of their *)
(* replies, and which other requests a service has.                        *)

EnterSession == Request(16, <<2>>, 2, 2, FALSE, 0, 2)
AskSeed      == Request(39, <<1>>, 2, 6, FALSE, 1, 6)
SendKey      == Request(39, <<2>>, 6, 2, FALSE, 1, 2)
EraseStart   == Request(49, <<1, 255, 0>>, 12, 4, TRUE, 3, 4)
ErasePoll    == Request(49, <<3, 255, 0>>, 4, 5, TRUE, 3, 5)
CheckStart   == Request(49, <<1, 255, 1>>, 8, 4, TRUE, 3, 4)
CheckPoll    == Request(49, <<3, 255, 1>>, 4, 5, TRUE, 3, 5)
ReadHeader   == ReadOf(0, 8)
ReadRevision == ReadOf(1, 4)
WriteData    == Request(46, <<0, 0>>, 11, 3, TRUE, 2, 3)
Download     == Request(52, <<68>>, 10, 1, FALSE, 0, 1)
FullBlock    == Block(1, BlockSize)
LastBlock    == Block(2, 1)
ExitDownload == Request(55, <<>>, 1, 1, FALSE, 0, 1)
Reset        == Request(17, <<1>>, 2, 2, TRUE, 1, 2)

RequestBytes(q) ==
  /\ q.sid \in {16, 17, 34, 39, 46, 49, 52, 54, 55}
  /\ q.fixed \in Bytes /\ Len(q.fixed) \in 0 .. 3

RequestLengths(q) ==
  /\ q.len \in Nat /\ q.len >= 1 + Len(q.fixed)
  /\ q.len <= BufSize(q) /\ BufSize(q) >= 14 /\ q.len <= BlockSize + 2

\* What the call accepts is a reply that the service can give.
ReplyLengths(q) ==
  /\ q.reply \in 1 .. 11
  /\ q.echo \in 0 .. Len(q.fixed) /\ q.echo + 1 <= q.reply
  /\ q.reply = q.wanted \/ (~q.exact /\ q.reply > q.wanted)

\* The bytes after the service that tell its requests apart.
OfService(q) ==
  /\ q.sid = 16 => q = EnterSession
  /\ q.sid = 39 => (q = AskSeed /\ q.fixed[1] = 1) \/ (q = SendKey /\ q.fixed[1] = 2)
  /\ q.sid = 49 => \/ q = EraseStart /\ q.fixed[1] = 1 /\ q.fixed[3] = 0
                   \/ q = ErasePoll  /\ q.fixed[1] = 3 /\ q.fixed[3] = 0
                   \/ q = CheckStart /\ q.fixed[1] = 1 /\ q.fixed[3] = 1
                   \/ q = CheckPoll  /\ q.fixed[1] = 3 /\ q.fixed[3] = 1
  /\ q.sid = 34 => (q = ReadHeader /\ q.fixed[2] = 0) \/ (q = ReadRevision /\ q.fixed[2] = 1)
  /\ q.sid = 46 => q = WriteData
  /\ q.sid = 52 => q = Download
  /\ q.sid = 54 => (q = FullBlock /\ q.fixed[1] = 1) \/ (q = LastBlock /\ q.fixed[1] = 2)
  /\ q.sid = 55 => q = ExitDownload
  /\ q.sid = 17 => q = Reset
  /\ Len(q.fixed) = CASE q.sid \in {16, 17, 39, 52, 54} -> 1 [] q.sid \in {34, 46} -> 2
                      [] q.sid = 49 -> 3 [] OTHER -> 0

LEMMA RequestFacts ==
  ASSUME NEW q \in Requests
  PROVE  RequestBytes(q) /\ RequestLengths(q) /\ ReplyLengths(q) /\ OfService(q)
<1> DEFINE Facts == RequestBytes(q) /\ RequestLengths(q) /\ ReplyLengths(q) /\ OfService(q)
<1> USE FrameAssumption DEF Request, ReadOf, Block, BufSize,
                            RequestBytes, RequestLengths, ReplyLengths
<1>1. \A b \in {0, 1, 2, 3, 68, 255} : b \in Byte
  BY ByteIs
<1>2. ASSUME q = EnterSession PROVE Facts
  BY <1>1, <1>2 DEF Bytes, OfService, EnterSession
<1>3. ASSUME q = AskSeed PROVE Facts
  BY <1>1, <1>3 DEF Bytes, OfService, AskSeed
<1>4. ASSUME q = SendKey PROVE Facts
  BY <1>1, <1>4 DEF Bytes, OfService, SendKey
<1>5. ASSUME q = EraseStart PROVE Facts
  BY <1>1, <1>5 DEF Bytes, OfService, EraseStart
<1>6. ASSUME q = ErasePoll PROVE Facts
  BY <1>1, <1>6 DEF Bytes, OfService, ErasePoll
<1>7. ASSUME q = CheckStart PROVE Facts
  BY <1>1, <1>7 DEF Bytes, OfService, CheckStart
<1>8. ASSUME q = CheckPoll PROVE Facts
  BY <1>1, <1>8 DEF Bytes, OfService, CheckPoll
<1>9. ASSUME q = ReadHeader PROVE Facts
  BY <1>1, <1>9 DEF Bytes, OfService, ReadHeader
<1>10. ASSUME q = ReadRevision PROVE Facts
  BY <1>1, <1>10 DEF Bytes, OfService, ReadRevision
<1>11. ASSUME q = WriteData PROVE Facts
  BY <1>1, <1>11 DEF Bytes, OfService, WriteData
<1>12. ASSUME q = Download PROVE Facts
  BY <1>1, <1>12 DEF Bytes, OfService, Download
<1>13. ASSUME q = FullBlock PROVE Facts
  BY <1>1, <1>13 DEF Bytes, OfService, FullBlock
<1>14. ASSUME q = LastBlock PROVE Facts
  BY <1>1, <1>14 DEF Bytes, OfService, LastBlock
<1>15. ASSUME q = ExitDownload PROVE Facts
  BY <1>1, <1>15 DEF Bytes, OfService, ExitDownload
<1>16. ASSUME q = Reset PROVE Facts
  BY <1>1, <1>16 DEF Bytes, OfService, Reset
<1>17. QED
  BY <1>2, <1>3, <1>4, <1>5, <1>6, <1>7, <1>8, <1>9, <1>10, <1>11, <1>12, <1>13, <1>14,
     <1>15, <1>16
     DEF Requests, EnterSession, AskSeed, SendKey, EraseStart, ErasePoll,
         CheckStart, CheckPoll, ReadHeader, ReadRevision, WriteData, Download, FullBlock,
         LastBlock, ExitDownload, Reset

\* What the proofs use of a request.
LEMMA RequestNumbers ==
  ASSUME NEW q \in Requests
  PROVE  /\ q.sid \in Byte /\ q.sid + 64 \in Byte /\ q.sid < 60
         /\ q.fixed \in Bytes /\ Len(q.fixed) \in Nat
         /\ q.len \in Nat /\ q.len >= 1 + Len(q.fixed) /\ q.len >= 1
         /\ q.len <= BufSize(q) /\ q.len <= BlockSize + 2 /\ BufSize(q) >= 14
         /\ q.reply \in Nat /\ 1 <= q.reply /\ q.reply <= 11
         /\ q.echo \in Nat /\ q.echo <= Len(q.fixed) /\ q.echo + 1 <= q.reply
         /\ q.reply = q.wanted \/ (~q.exact /\ q.reply > q.wanted)
<1>1. RequestBytes(q) /\ RequestLengths(q) /\ ReplyLengths(q)
  BY RequestFacts
<1>2. q.sid \in Nat /\ q.sid < 60
  BY <1>1 DEF RequestBytes
<1>3. q.sid \in Byte /\ q.sid + 64 \in Byte
  BY <1>2, ByteIs
<1>4. q.fixed \in Bytes /\ Len(q.fixed) \in Nat
  BY <1>1 DEF RequestBytes
<1>5. /\ q.len \in Nat /\ q.len >= 1 + Len(q.fixed)
      /\ q.len <= BufSize(q) /\ BufSize(q) >= 14 /\ q.len <= BlockSize + 2
  BY <1>1 DEF RequestLengths
<1>6. /\ q.reply \in Nat /\ 1 <= q.reply /\ q.reply <= 11
      /\ q.reply = q.wanted \/ (~q.exact /\ q.reply > q.wanted)
  BY <1>1 DEF ReplyLengths
<1>7. q.echo \in Nat /\ q.echo <= Len(q.fixed) /\ q.echo + 1 <= q.reply
  BY <1>1, <1>4, <1>6 DEF ReplyLengths
<1>8. q.len >= 1
  BY <1>4, <1>5
<1>9. QED
  BY <1>2, <1>3, <1>4, <1>5, <1>6, <1>7, <1>8

\* The service and the bytes after it tell which request it is.
LEMMA SameRequest ==
  ASSUME NEW q \in Requests, NEW r \in Requests, q.sid = r.sid,
         \A i \in 1 .. Len(r.fixed) : q.fixed[i] = r.fixed[i]
  PROVE  q = r
<1>1. OfService(q) /\ OfService(r) /\ q.sid \in {16, 17, 34, 39, 46, 49, 52, 54, 55}
  BY RequestFacts DEF RequestBytes
<1>2. /\ q.sid \in {39, 49, 54} => q.fixed[1] = r.fixed[1]
      /\ q.sid = 34 => q.fixed[2] = r.fixed[2]
      /\ q.sid = 49 => q.fixed[3] = r.fixed[3]
  BY <1>1 DEF OfService
<1>3. CASE q.sid \in {16, 17, 46, 52, 55}
  BY <1>1, <1>3 DEF OfService
<1>4. CASE q.sid = 39
  BY <1>1, <1>2, <1>4 DEF OfService
<1>5. CASE q.sid = 34
  BY <1>1, <1>2, <1>5 DEF OfService
<1>6. CASE q.sid = 54
  BY <1>1, <1>2, <1>6 DEF OfService
<1>7. CASE q.sid = 49
  <2>1. /\ q = EraseStart \/ q = ErasePoll \/ q = CheckStart \/ q = CheckPoll
        /\ r = EraseStart \/ r = ErasePoll \/ r = CheckStart \/ r = CheckPoll
        /\ q.fixed[1] = r.fixed[1] /\ q.fixed[3] = r.fixed[3]
    BY <1>1, <1>2, <1>7 DEF OfService
  <2>2. /\ EraseStart.fixed[1] = 1 /\ EraseStart.fixed[3] = 0
        /\ ErasePoll.fixed[1] = 3 /\ ErasePoll.fixed[3] = 0
        /\ CheckStart.fixed[1] = 1 /\ CheckStart.fixed[3] = 1
        /\ CheckPoll.fixed[1] = 3 /\ CheckPoll.fixed[3] = 1
    BY DEF EraseStart, ErasePoll, CheckStart, CheckPoll, Request
  <2>3. QED
    BY <2>1, <2>2
<1>8. QED
  BY <1>1, <1>3, <1>4, <1>5, <1>6, <1>7

-----------------------------------------------------------------------------
(* The messages: a request, and the replies a service can give to it.      *)

\* m is a request of the call q.
Asks(q, m) ==
  /\ q \in Requests /\ m \in Bytes /\ Len(m) = q.len /\ m[1] = q.sid
  /\ \A i \in 1 .. Len(q.fixed) : m[1 + i] = q.fixed[i]

\* m is a reply to the call q, that says what came of it.
Answers(q, m, result) ==
  /\ m \in Bytes /\ Len(m) >= 1 /\ Len(m) <= 11
  /\ \/ /\ result = Positive /\ Len(m) = q.reply /\ m[1] = q.sid + 64
        /\ \A i \in 1 .. q.echo : m[1 + i] = q.fixed[i]
     \/ /\ result \in Byte /\ Len(m) = 3
        /\ m[1] = Refused /\ m[2] = q.sid /\ m[3] = result

LEMMA SameBytes ==
  ASSUME NEW n \in Nat, NEW b \in Byte
  PROVE  Same(n, b) \in Bytes /\ Len(Same(n, b)) = n
BY DEF Same, Bytes

LEMMA OneByte ==
  ASSUME NEW b \in Byte
  PROVE  <<b>> \in Bytes /\ Len(<<b>>) = 1 /\ <<b>>[1] = b
BY DEF Bytes

\* A first byte, bytes that are looked at, and others.
InThree(a, x, r, t) ==
  /\ a \in Bytes /\ Len(a) = 1 + Len(r) + Len(t) /\ a[1] = x[1]
  /\ \A i \in 1 .. Len(r) : a[1 + i] = r[i]

LEMMA ThreeParts ==
  ASSUME NEW x \in Bytes, Len(x) = 1, NEW r \in Bytes, NEW t \in Bytes
  PROVE  InThree(Cat(Cat(x, r), t), x, r, t)
<1> DEFINE f == Cat(x, r)
<1>1. /\ f \in Bytes /\ Len(f) = Len(x) + Len(r)
      /\ \A i \in 1 .. Len(x) : f[i] = x[i]
      /\ \A i \in 1 .. Len(r) : f[Len(x) + i] = r[i]
  BY Joined, Zenon
<1> HIDE DEF f
<1>2. /\ Cat(f, t) \in Bytes /\ Len(Cat(f, t)) = Len(f) + Len(t)
      /\ \A i \in 1 .. Len(f) : Cat(f, t)[i] = f[i]
  BY <1>1, Joined, Zenon
<1>3. Len(r) \in Nat /\ Len(t) \in Nat
  BY LenIs
<1>4. ASSUME NEW i \in 1 .. Len(r) PROVE Cat(f, t)[1 + i] = r[i]
  <2>1. 1 + i \in 1 .. Len(f) /\ Len(x) + i = 1 + i
    BY <1>1, <1>3
  <2>2. QED
    BY <1>1, <1>2, <2>1
<1>5. Cat(f, t)[1] = x[1]
  BY <1>1, <1>2, <1>3
<1>6. QED
  BY <1>1, <1>2, <1>3, <1>4, <1>5 DEF f, InThree

LEMMA SubBytes ==
  ASSUME NEW s \in Bytes, NEW k \in Nat, NEW n \in Nat, 1 <= k, k <= n + 1, n <= Len(s)
  PROVE  /\ SubSeq(s, k, n) \in Bytes /\ Len(SubSeq(s, k, n)) = n - k + 1
         /\ \A i \in 1 .. n - k + 1 : SubSeq(s, k, n)[i] = s[k + i - 1]
BY DEF Bytes

LEMMA MessageAsks ==
  ASSUME NEW q \in Requests, NEW fill \in Fills
  PROVE  Asks(q, Message(q, fill))
<1> DEFINE x == <<q.sid>>
           n == q.len - 1 - Len(q.fixed)
           t == Same(n, fill)
<1>1. /\ q.sid \in Byte /\ q.fixed \in Bytes /\ Len(q.fixed) \in Nat
      /\ q.len \in Nat /\ q.len >= 1 + Len(q.fixed)
  BY RequestNumbers
<1>2. n \in Nat /\ q.len = 1 + Len(q.fixed) + n
  BY <1>1
<1>3. x \in Bytes /\ Len(x) = 1 /\ x[1] = q.sid
  BY <1>1, OneByte
<1> HIDE DEF x, n
<1>4. t \in Bytes /\ Len(t) = n
  BY <1>2, SameBytes, FrameAssumption
<1> HIDE DEF t
<1> DEFINE m == Cat(Cat(x, q.fixed), t)
<1>5. /\ m \in Bytes /\ Len(m) = 1 + Len(q.fixed) + Len(t) /\ m[1] = x[1]
      /\ \A i \in 1 .. Len(q.fixed) : m[1 + i] = q.fixed[i]
  <2>1. InThree(m, x, q.fixed, t)
    BY <1>1, <1>3, <1>4, ThreeParts
  <2> HIDE DEF m
  <2>2. QED
    BY <2>1 DEF InThree
<1>6. Message(q, fill) = m
  BY DEF Message, Cat, x, t, n
<1> HIDE DEF m
<1>7. QED
  BY <1>2, <1>3, <1>4, <1>5, <1>6 DEF Asks

\* The request is known by its first bytes.
LEMMA RequestKnown ==
  ASSUME NEW q, NEW m, Asks(q, m), NEW p \in Requests,
         SubSeq(m, 1, 1 + Len(p.fixed)) = <<p.sid>> \o p.fixed, Len(m) = p.len
  PROVE  p = q
<1> DEFINE x == <<p.sid>>
           f == Cat(x, p.fixed)
<1>1. /\ p.sid \in Byte /\ p.fixed \in Bytes /\ Len(p.fixed) \in Nat
      /\ 1 + Len(p.fixed) <= Len(m) /\ m \in Bytes /\ q \in Requests
  BY RequestFacts, ByteIs, LenIs DEF RequestBytes, RequestLengths, Asks
<1>2. x \in Bytes /\ Len(x) = 1 /\ x[1] = p.sid
  BY <1>1, OneByte
<1>3. SubSeq(m, 1, 1 + Len(p.fixed)) = f
  BY DEF Cat
<1> HIDE DEF x
<1>4. /\ Len(f) = Len(x) + Len(p.fixed)
      /\ \A i \in 1 .. Len(x) : f[i] = x[i]
      /\ \A i \in 1 .. Len(p.fixed) : f[Len(x) + i] = p.fixed[i]
  BY <1>1, <1>2, Joined, Zenon
<1>5. \A i \in 1 .. 1 + Len(p.fixed) : SubSeq(m, 1, 1 + Len(p.fixed))[i] = m[i]
  <2> DEFINE n == 1 + Len(p.fixed)
  <2>1. n \in Nat /\ 1 <= n + 1 /\ n <= Len(m) /\ n - 1 + 1 = n
    BY <1>1
  <2> HIDE DEF n
  <2>2. \A i \in 1 .. n : SubSeq(m, 1, n)[i] = m[i]
    BY <1>1, <2>1 DEF Bytes
  <2>3. QED
    BY <2>2 DEF n
<1> HIDE DEF f
<1>6. \A i \in 1 .. 1 + Len(p.fixed) : m[i] = f[i]
  BY <1>3, <1>5
<1>7. m[1] = p.sid /\ \A i \in 1 .. Len(p.fixed) : m[1 + i] = p.fixed[i]
  BY <1>1, <1>2, <1>4, <1>6
<1>8. q.sid = p.sid
  BY <1>7 DEF Asks
<1>9. Len(q.fixed) = Len(p.fixed)
  BY <1>1, <1>8, RequestFacts DEF OfService, RequestBytes
<1>10. \A i \in 1 .. Len(p.fixed) : q.fixed[i] = p.fixed[i]
  BY <1>7, <1>9 DEF Asks
<1>11. QED
  BY <1>1, <1>8, <1>10, SameRequest

\* The reply of a service that agrees: what it keeps of the request is what
\* the host looks at.
AgreedReply(q, m, fill) ==
  LET kept == SubSeq(m, 2, IF q.reply < q.len THEN q.reply ELSE q.len)
  IN  <<q.sid + 64>> \o kept \o Same(q.reply - 1 - Len(kept), fill)

LEMMA AgreedAnswers ==
  ASSUME NEW q, NEW m, Asks(q, m), NEW fill \in Fills
  PROVE  Answers(q, AgreedReply(q, m, fill), Positive)
<1> DEFINE x == <<q.sid + 64>>
           k == IF q.reply < q.len THEN q.reply ELSE q.len
           kept == SubSeq(m, 2, k)
           t == Same(q.reply - 1 - Len(kept), fill)
           a == Cat(Cat(x, kept), t)
<1>1. /\ q.sid + 64 \in Byte /\ q.fixed \in Bytes /\ Len(q.fixed) \in Nat
      /\ q.len \in Nat /\ q.len >= 1 + Len(q.fixed)
      /\ q.reply \in Nat /\ 1 <= q.reply /\ q.reply <= 11
      /\ q.echo \in Nat /\ q.echo <= Len(q.fixed) /\ q.echo + 1 <= q.reply
  BY RequestNumbers DEF Asks
<1>2. /\ k \in Nat /\ 1 <= k /\ k <= q.len /\ k <= q.reply /\ q.echo + 1 <= k
  BY <1>1
<1>3. m \in Bytes /\ Len(m) = q.len /\ \A i \in 1 .. Len(q.fixed) : m[1 + i] = q.fixed[i]
  BY DEF Asks
<1>4. x \in Bytes /\ Len(x) = 1 /\ x[1] = q.sid + 64
  BY <1>1, OneByte
<1> HIDE DEF x, k
<1>5. kept \in Bytes /\ Len(kept) = k - 1 /\ \A i \in 1 .. k - 1 : kept[i] = m[1 + i]
  <2> HIDE DEF t, a
  <2>1. /\ kept \in Bytes /\ Len(kept) = k - 2 + 1
        /\ \A i \in 1 .. k - 2 + 1 : kept[i] = m[2 + i - 1]
    BY <1>2, <1>3, <1>1, SubBytes
  <2> HIDE DEF kept
  <2>2. k - 2 + 1 = k - 1 /\ \A i \in 1 .. k - 1 : 2 + i - 1 = 1 + i
    BY <1>2
  <2>3. QED
    BY <2>1, <2>2
<1> HIDE DEF kept
<1>6. t \in Bytes /\ Len(t) = q.reply - 1 - Len(kept)
  <2>1. q.reply - 1 - Len(kept) \in Nat
    BY <1>1, <1>2, <1>5
  <2>2. QED
    BY <1>5, <2>1, SameBytes, FrameAssumption
<1> HIDE DEF t
<1>7. /\ a \in Bytes /\ Len(a) = 1 + Len(kept) + Len(t) /\ a[1] = x[1]
      /\ \A i \in 1 .. Len(kept) : a[1 + i] = kept[i]
  <2>1. x \in Bytes /\ Len(x) = 1 /\ kept \in Bytes /\ t \in Bytes
    BY <1>4, <1>5, <1>6
  <2>2. InThree(a, x, kept, t)
    BY <2>1, ThreeParts
  <2> HIDE DEF a
  <2>3. QED
    BY <2>2 DEF InThree
<1>8. AgreedReply(q, m, fill) = a
  BY DEF AgreedReply, Cat, a, x, t, kept, k
<1> HIDE DEF a
<1>9. \A i \in 1 .. q.echo : a[1 + i] = q.fixed[i]
  <2>1. \A i \in 1 .. q.echo : i \in 1 .. k - 1 /\ i \in 1 .. Len(q.fixed)
    BY <1>1, <1>2
  <2>2. QED
    BY <1>3, <1>5, <1>6, <1>7, <2>1
<1>10. Len(a) = q.reply
  <2>1. Len(kept) \in Nat
    BY <1>5, LenIs
  <2>2. QED
    BY <1>1, <1>6, <1>7, <2>1
<1>11. QED
  BY <1>1, <1>4, <1>7, <1>8, <1>9, <1>10 DEF Answers

LEMMA RefusalAnswers ==
  ASSUME NEW q \in Requests, NEW nrc \in Refusals
  PROVE  Answers(q, <<Refused, q.sid, nrc>>, nrc)
<1>1. Refused \in Byte /\ q.sid \in Byte /\ nrc \in Byte
  BY RequestFacts, ByteIs, FrameAssumption DEF RequestBytes, Refused
<1>2. QED
  BY <1>1 DEF Answers, Bytes

-----------------------------------------------------------------------------
(* What a call makes of the bytes it decrypted.                            *)

Starts(buf, m) == Len(buf) >= Len(m) /\ \A i \in 1 .. Len(m) : buf[i] = m[i]

LEMMA VerdictOnAnswer ==
  ASSUME NEW q \in Requests, NEW m, NEW result, Answers(q, m, result),
         NEW buf \in Bytes, Starts(buf, m)
  PROVE  Verdict(q, buf, Len(m)) = result
<1>1. /\ m \in Bytes /\ Len(m) \in Nat /\ Len(m) >= 1 /\ Len(m) <= Len(buf) /\ Len(buf) \in Nat
      /\ buf[1] = m[1]
  BY LenIs DEF Answers, Starts
<1>2. CASE /\ result = Positive /\ Len(m) = q.reply /\ m[1] = q.sid + 64
           /\ \A i \in 1 .. q.echo : m[1 + i] = q.fixed[i]
  <2>1. /\ q.echo \in Nat /\ q.echo <= Len(q.fixed) /\ q.echo + 1 <= Len(m)
        /\ q.fixed \in Bytes /\ Len(q.fixed) \in Nat
        /\ Len(m) = q.wanted \/ (~q.exact /\ Len(m) > q.wanted)
    BY <1>2, RequestNumbers
  <2> DEFINE s == SubSeq(buf, 2, q.echo + 1)
             t == SubSeq(q.fixed, 1, q.echo)
  <2>2. /\ s \in Bytes /\ Len(s) = q.echo
        /\ \A i \in 1 .. q.echo : s[i] = buf[1 + i]
    <3> DEFINE e == q.echo + 1
    <3>1. e \in Nat /\ 2 <= e + 1 /\ e <= Len(buf) /\ e - 2 + 1 = q.echo
      <4>1. Len(m) \in Nat /\ Len(buf) \in Nat /\ Len(m) <= Len(buf)
        BY <1>1
      <4>2. q.echo \in Nat /\ q.echo + 1 <= Len(m)
        BY <2>1
      <4>3. QED
        BY <4>1, <4>2
    <3>2. \A i \in 1 .. q.echo : 2 + i - 1 = 1 + i
      BY <2>1
    <3> HIDE DEF e
    <3>3. /\ SubSeq(buf, 2, e) \in Bytes /\ Len(SubSeq(buf, 2, e)) = e - 2 + 1
          /\ \A i \in 1 .. e - 2 + 1 : SubSeq(buf, 2, e)[i] = buf[2 + i - 1]
      BY <3>1, SubBytes
    <3>4. QED
      BY <3>1, <3>2, <3>3 DEF e
  <2>3. /\ t \in Bytes /\ Len(t) = q.echo
        /\ \A i \in 1 .. q.echo : t[i] = q.fixed[i]
    <3>1. /\ 1 <= q.echo + 1 /\ q.echo - 1 + 1 = q.echo
          /\ \A i \in 1 .. q.echo : 1 + i - 1 = i
      BY <2>1
    <3>2. /\ t \in Bytes /\ Len(t) = q.echo - 1 + 1
          /\ \A i \in 1 .. q.echo - 1 + 1 : t[i] = q.fixed[1 + i - 1]
      BY <2>1, <3>1, SubBytes
    <3> HIDE DEF t
    <3>3. QED
      BY <3>1, <3>2
  <2> HIDE DEF s, t
  <2>4. \A i \in 1 .. q.echo : 1 + i \in 1 .. Len(m)
    BY <1>1, <2>1
  <2>5. \A i \in 1 .. q.echo : s[i] = t[i]
    BY <1>2, <2>2, <2>3, <2>4 DEF Starts
  <2>6. s = t
    BY <2>2, <2>3, <2>5, SameSequence
  <2>7. Accepts(q, buf, Len(m))
    BY <1>1, <1>2, <2>1, <2>6 DEF Accepts, s, t
  <2>8. q.sid \in Nat /\ q.sid < 60
    BY RequestNumbers, ByteIs
  <2>9. ~Refuses(q, buf, Len(m))
    BY <1>1, <1>2, <2>8 DEF Refuses, Refused
  <2>10. QED
    BY <1>2, <2>7, <2>9 DEF Verdict
<1>3. CASE /\ result \in Byte /\ Len(m) = 3
           /\ m[1] = Refused /\ m[2] = q.sid /\ m[3] = result
  <2>1. buf[1] = Refused /\ buf[2] = q.sid /\ buf[3] = result
    BY <1>1, <1>3 DEF Starts
  <2>2. q.sid \in Nat /\ q.sid < 60
    BY RequestNumbers, ByteIs
  <2>3. ~Accepts(q, buf, Len(m))
    BY <2>1, <2>2 DEF Accepts, Refused
  <2>4. Refuses(q, buf, Len(m))
    BY <1>3, <2>1 DEF Refuses
  <2>5. Verdict(q, buf, Len(m)) = buf[3]
    BY <2>3, <2>4 DEF Verdict
  <2>6. QED
    BY <2>1, <2>5
<1>4. QED
  BY <1>2, <1>3 DEF Answers

\* A request is no reply to itself.
LEMMA VerdictOnItself ==
  ASSUME NEW q \in Requests, NEW m, Asks(q, m), NEW buf \in Bytes, Starts(buf, m), NEW n
  PROVE  Verdict(q, buf, n) = Failed
<1>1. m \in Bytes /\ Len(m) \in Nat /\ Len(m) >= 1 /\ m[1] = q.sid
  BY RequestNumbers DEF Asks
<1>2. buf[1] = q.sid
  BY <1>1 DEF Starts
<1>3. q.sid \in Nat /\ q.sid < 60
  BY RequestNumbers, ByteIs
<1>4. ~Accepts(q, buf, n) /\ ~Refuses(q, buf, n)
  BY <1>2, <1>3 DEF Accepts, Refuses, Refused
<1>5. QED
  BY <1>4 DEF Verdict

LEMMA OverStarts ==
  ASSUME NEW buf \in Bytes, NEW m \in Bytes
  PROVE  Over(buf, m) \in Bytes /\ Starts(Over(buf, m), m)
<1>1. Len(buf) \in Nat /\ Len(m) \in Nat
  BY LenIs
<1>2. QED
  BY <1>1, OverBytes DEF Starts

LEMMA Prefix ==
  ASSUME NEW buf \in Bytes, NEW m \in Bytes, Starts(buf, m)
  PROVE  SubSeq(buf, 1, Len(m)) = m
<1> DEFINE s == SubSeq(buf, 1, Len(m))
<1>1. Len(m) \in Nat /\ Len(m) <= Len(buf) /\ \A i \in 1 .. Len(m) : buf[i] = m[i]
  BY LenIs DEF Starts
<1>2. /\ s \in Bytes /\ Len(s) = Len(m) - 1 + 1
      /\ \A i \in 1 .. Len(m) - 1 + 1 : s[i] = buf[1 + i - 1]
  <2>1. 1 \in Nat /\ 1 <= 1 /\ 1 <= Len(m) + 1
    BY <1>1
  <2>2. QED
    BY <1>1, <2>1, SubBytes
<1> HIDE DEF s
<1>3. Len(m) - 1 + 1 = Len(m) /\ \A i \in 1 .. Len(m) : 1 + i - 1 = i
  BY <1>1
<1>4. Len(s) = Len(m) /\ \A i \in 1 .. Len(s) : s[i] = m[i]
  BY <1>1, <1>2, <1>3
<1>5. s = m
  BY <1>2, <1>4, SameSequence
<1>6. QED
  BY <1>5 DEF s

LEMMA LengthsOfAsks ==
  ASSUME NEW q, NEW m, Asks(q, m)
  PROVE  /\ m \in Bytes /\ Len(m) \in Nat /\ Len(m) >= 1 /\ Len(m) < NoFrame
         /\ Len(m) <= BufSize(q) /\ Len(m) <= PlainSize
<1>1. m \in Bytes /\ q \in Requests /\ Len(m) = q.len
  BY DEF Asks
<1>2. q.len \in Nat /\ q.len >= 1 /\ q.len <= BufSize(q) /\ q.len <= BlockSize + 2
  BY <1>1, RequestNumbers
<1>3. /\ BlockSize \in Nat /\ PlainSize \in Nat
      /\ BlockSize + 2 < NoFrame /\ BlockSize + 2 <= PlainSize
  BY FrameAssumption DEF NoFrame
<1>4. NoFrame \in Nat
  BY DEF NoFrame
<1>5. QED
  BY <1>1, <1>2, <1>3, <1>4

LEMMA LengthsOfAnswers ==
  ASSUME NEW q, NEW m, NEW result, Answers(q, m, result)
  PROVE  /\ m \in Bytes /\ Len(m) \in Nat /\ Len(m) >= 1 /\ Len(m) <= 11
         /\ Len(m) < NoFrame /\ result \in Int /\ result >= 0
<1>1. result \in Int /\ result >= 0
  BY ByteIs DEF Answers, Positive
<1>2. m \in Bytes /\ Len(m) >= 1 /\ Len(m) <= 11 /\ Len(m) \in Nat
  BY LenIs DEF Answers
<1>3. QED
  BY <1>1, <1>2 DEF NoFrame

-----------------------------------------------------------------------------
(* The invariant: where the request or the reply is, and what is left in   *)
(* the buffers.                                                            *)

HostType ==
  /\ calls \in Nat
  /\ calls = 0 => host_call.step = "idle"
  /\ calls > 0 =>
       /\ host_call \in [step: {"idle", "send", "wait"}, q: Requests, sent: Bytes,
                         verdict: Int, buf: Bytes, buf_crypt: Bytes]
       /\ Asks(host_call.q, host_call.sent)
       /\ Len(host_call.buf) <= BufSize(host_call.q)
       /\ Len(host_call.buf_crypt) <= BufSize(host_call.q) + 5

DeviceType ==
  /\ device \in [len: Nat, buf_decrypt: Bytes, buf_crypt: Bytes]
  /\ Len(device.buf_decrypt) <= PlainSize /\ Len(device.buf_crypt) <= 16

\* Nothing is under way, and the device waits for a request.
Quiet == wire = <<>> /\ device.len = 0

\* The call's buffers are as it made them.
Own ==
  /\ host_call.buf = Crypt(host_call.sent)
  /\ host_call.buf_crypt = build_crypt_msg(host_call.sent)

\* The request is under way, or heard.
Asked ==
  /\ outcome = Pending /\ wire = build_crypt_msg(host_call.sent)
  /\ \/ device.len = 0
     \/ device.len = Len(host_call.sent) /\ RequestHeard = host_call.sent

\* The reply is under way.
Answered ==
  /\ device.len = 0
  /\ \E m \in Bytes : wire = build_crypt_msg(m) /\ Answers(host_call.q, m, outcome)

Exchange ==
  /\ host_call.step \in {"idle", "send", "wait"}
  /\ host_call.step = "idle" => Quiet
  /\ host_call.step = "send" => Quiet /\ outcome = Pending /\ Own
  /\ host_call.step = "wait" => Own /\ (Asked \/ Answered)

FrameInv == HostType /\ DeviceType /\ Exchange /\ VerdictTrue

LEMMA CallUnderWay ==
  ASSUME FrameInv, host_call.step # "idle"
  PROVE  /\ calls \in Nat /\ calls > 0
         /\ host_call \in [step: {"idle", "send", "wait"}, q: Requests, sent: Bytes,
                           verdict: Int, buf: Bytes, buf_crypt: Bytes]
         /\ Asks(host_call.q, host_call.sent)
         /\ Len(host_call.buf) <= BufSize(host_call.q)
         /\ Len(host_call.buf_crypt) <= BufSize(host_call.q) + 5
BY DEF FrameInv, HostType

LEMMA Framed ==
  ASSUME NEW q, NEW m, Asks(q, m)
  PROVE  /\ Crypt(m) \in Bytes /\ Len(Crypt(m)) <= BufSize(q)
         /\ build_crypt_msg(m) \in Bytes /\ Len(build_crypt_msg(m)) <= BufSize(q) + 5
<1>1. m \in Bytes /\ Len(m) \in Nat /\ Len(m) >= 1 /\ Len(m) < NoFrame /\ Len(m) <= BufSize(q)
  BY LengthsOfAsks
<1>2. Crypt(m) \in Bytes /\ Len(Crypt(m)) = Len(m)
  BY <1>1, CryptBytes
<1>3. build_crypt_msg(m) \in Bytes /\ Len(build_crypt_msg(m)) = Len(m) + 5
  BY <1>1, FrameBytes
<1>4. BufSize(q) \in Nat
  BY FrameAssumption DEF BufSize
<1>5. QED
  BY <1>1, <1>2, <1>3, <1>4

LEMMA PrepareKeeps ==
  ASSUME FrameInv, NEW q \in Requests, NEW fill \in Fills, Prepare(q, fill)
  PROVE  FrameInv'
<1> DEFINE m == Message(q, fill)
<1>1. Asks(q, m)
  BY MessageAsks
<1> HIDE DEF m
<1>2. /\ m \in Bytes /\ Crypt(m) \in Bytes /\ Len(Crypt(m)) <= BufSize(q)
      /\ build_crypt_msg(m) \in Bytes /\ Len(build_crypt_msg(m)) <= BufSize(q) + 5
  BY <1>1, Framed DEF Asks
<1>3. /\ host_call' = [step |-> "send", q |-> q, sent |-> m, verdict |-> Pending,
                       buf |-> Crypt(m), buf_crypt |-> build_crypt_msg(m)]
      /\ calls' = calls + 1 /\ outcome' = Pending /\ device' = device /\ wire' = wire
      /\ host_call.step = "idle"
  BY DEF Prepare, m
<1>4. calls \in Nat /\ wire = <<>> /\ device.len = 0 /\ DeviceType
  BY <1>3 DEF FrameInv, HostType, Exchange, Quiet
<1>5. HostType'
  <2>1. Pending \in Int
    BY DEF Pending
  <2>2. calls' \in Nat /\ calls' > 0
    BY <1>3, <1>4
  <2>3. QED
    BY <1>1, <1>2, <1>3, <2>1, <2>2 DEF HostType
<1>6. DeviceType'
  BY <1>3, <1>4 DEF DeviceType
<1>7. Exchange'
  BY <1>3, <1>4 DEF Exchange, Quiet, Own
<1>8. VerdictTrue'
  BY <1>3 DEF VerdictTrue
<1>9. QED
  BY <1>5, <1>6, <1>7, <1>8 DEF FrameInv

LEMMA SendRequestKeeps ==
  ASSUME FrameInv, SendRequest
  PROVE  FrameInv'
<1>1. /\ host_call.step = "send" /\ wire' = build_crypt_msg(host_call.sent)
      /\ host_call' = [host_call EXCEPT !.step = "wait"]
      /\ device' = device /\ outcome' = outcome /\ calls' = calls
  BY DEF SendRequest
<1>2. /\ calls \in Nat /\ calls > 0
      /\ host_call \in [step: {"idle", "send", "wait"}, q: Requests, sent: Bytes,
                        verdict: Int, buf: Bytes, buf_crypt: Bytes]
      /\ Asks(host_call.q, host_call.sent)
      /\ Len(host_call.buf) <= BufSize(host_call.q)
      /\ Len(host_call.buf_crypt) <= BufSize(host_call.q) + 5
  BY <1>1, CallUnderWay
<1>3. device.len = 0 /\ outcome = Pending /\ Own /\ DeviceType
  BY <1>1 DEF FrameInv, Exchange, Quiet
<1>4. /\ host_call' \in [step: {"idle", "send", "wait"}, q: Requests, sent: Bytes,
                          verdict: Int, buf: Bytes, buf_crypt: Bytes]
      /\ host_call'.step = "wait" /\ host_call'.q = host_call.q
      /\ host_call'.sent = host_call.sent /\ host_call'.buf = host_call.buf
      /\ host_call'.buf_crypt = host_call.buf_crypt
  BY <1>1, <1>2
<1>5. HostType'
  BY <1>1, <1>2, <1>4 DEF HostType
<1>6. DeviceType'
  BY <1>1, <1>3 DEF DeviceType
<1>7. Own'
  BY <1>3, <1>4 DEF Own
<1>8. Asked'
  BY <1>1, <1>3, <1>4 DEF Asked
<1>9. Exchange' /\ VerdictTrue'
  BY <1>4, <1>7, <1>8 DEF Exchange, VerdictTrue
<1>10. QED
  BY <1>5, <1>6, <1>9 DEF FrameInv

\* The call ends with what it makes of the message it decrypts.
LEMMA ReturnKeeps ==
  ASSUME FrameInv, host_call.step \in {"send", "wait"}, device.len = 0,
         NEW src \in Bytes, Len(src) <= BufSize(host_call.q) + 5, NEW n, Return(src, n),
         NEW m \in Bytes, m = decrypt_msg(src, n), Len(m) <= BufSize(host_call.q),
         Verdict(host_call.q, Over(host_call.buf, m), Len(m)) = outcome', outcome' \in Int,
         wire' = <<>>, device' = device, calls' = calls
  PROVE  FrameInv'
<1>1. /\ calls \in Nat /\ calls > 0
      /\ host_call \in [step: {"idle", "send", "wait"}, q: Requests, sent: Bytes,
                        verdict: Int, buf: Bytes, buf_crypt: Bytes]
      /\ Asks(host_call.q, host_call.sent)
      /\ Len(host_call.buf) <= BufSize(host_call.q)
  BY CallUnderWay
<1> DEFINE b == Over(host_call.buf, m)
<1>2. b \in Bytes /\ Len(b) <= BufSize(host_call.q)
  <2>1. host_call.buf \in Bytes
    BY <1>1
  <2>2. b \in Bytes /\ Len(b) = IF Len(host_call.buf) > Len(m) THEN Len(host_call.buf) ELSE Len(m)
    BY <2>1, OverBytes
  <2> HIDE DEF b
  <2>3. QED
    BY <1>1, <2>2
<1>3. host_call' = [host_call EXCEPT !.step = "idle", !.buf = b, !.buf_crypt = src,
                           !.verdict = outcome']
  BY DEF Return
<1> HIDE DEF b
<1>4. /\ host_call' \in [step: {"idle", "send", "wait"}, q: Requests, sent: Bytes,
                          verdict: Int, buf: Bytes, buf_crypt: Bytes]
      /\ host_call'.step = "idle" /\ host_call'.q = host_call.q
      /\ host_call'.sent = host_call.sent /\ host_call'.buf = b
      /\ host_call'.buf_crypt = src /\ host_call'.verdict = outcome'
  BY <1>1, <1>2, <1>3
<1>5. HostType'
  BY <1>1, <1>2, <1>4 DEF HostType
<1>6. DeviceType'
  BY DEF FrameInv, DeviceType
<1>7. Exchange' /\ VerdictTrue'
  BY <1>4 DEF Exchange, Quiet, VerdictTrue
<1>8. QED
  BY <1>5, <1>6, <1>7 DEF FrameInv

\* What came over the wire is the reply, whatever the request's frame left
\* behind it.
LEMMA GetReplyKeeps ==
  ASSUME FrameInv, GetReply
  PROVE  FrameInv'
<1>1. /\ host_call.step = "wait" /\ outcome # Pending
      /\ Return(Over(host_call.buf_crypt, wire), Len(wire))
      /\ wire' = <<>> /\ device' = device /\ outcome' = outcome /\ calls' = calls
  BY DEF GetReply
<1>2. /\ host_call \in [step: {"idle", "send", "wait"}, q: Requests, sent: Bytes,
                        verdict: Int, buf: Bytes, buf_crypt: Bytes]
      /\ Len(host_call.buf_crypt) <= BufSize(host_call.q) + 5
  BY <1>1, CallUnderWay
<1>3. Answered
  BY <1>1 DEF FrameInv, Exchange, Asked
<1>4. PICK m \in Bytes : wire = build_crypt_msg(m) /\ Answers(host_call.q, m, outcome)
  BY <1>3 DEF Answered
<1>5. /\ Len(m) \in Nat /\ Len(m) >= 1 /\ Len(m) <= 11 /\ Len(m) < NoFrame
      /\ outcome \in Int
  BY <1>4, LengthsOfAnswers
<1>6. wire \in Bytes /\ Len(wire) = Len(m) + 5
  BY <1>4, <1>5, FrameBytes
<1> DEFINE src == Over(host_call.buf_crypt, wire)
<1>7. host_call.buf_crypt \in Bytes /\ host_call.buf \in Bytes /\ host_call.q \in Requests
  BY <1>2
<1>8. BufSize(host_call.q) \in Nat /\ BufSize(host_call.q) >= 14
  BY <1>7, RequestNumbers, FrameAssumption DEF BufSize
<1>9. /\ src \in Bytes /\ Len(src) <= BufSize(host_call.q) + 5
      /\ Len(src) >= Len(m) + 5 /\ \A i \in 1 .. Len(m) + 5 : src[i] = build_crypt_msg(m)[i]
  <2>1. /\ src \in Bytes
        /\ Len(src) = IF Len(host_call.buf_crypt) > Len(wire) THEN Len(host_call.buf_crypt)
                      ELSE Len(wire)
        /\ \A i \in 1 .. Len(wire) : src[i] = wire[i]
    BY <1>6, <1>7, OverBytes
  <2>2. Len(host_call.buf_crypt) \in Nat
    BY <1>7, LenIs
  <2> HIDE DEF src
  <2>3. Len(src) <= BufSize(host_call.q) + 5 /\ Len(src) >= Len(m) + 5
    BY <1>2, <1>5, <1>6, <1>8, <2>1, <2>2
  <2>4. \A i \in 1 .. Len(m) + 5 : src[i] = build_crypt_msg(m)[i]
    BY <1>4, <1>6, <2>1
  <2>5. QED
    BY <2>1, <2>3, <2>4
<1> HIDE DEF src
<1>10. decrypt_msg(src, Len(wire)) = m
  <2>1. Len(m) + 5 \in {Len(m) + 5, NoFrame}
    OBVIOUS
  <2>2. decrypt_msg(src, Len(m) + 5) = m
    BY <1>5, <1>9, <2>1, Decrypts
  <2>3. QED
    BY <1>6, <2>2
<1>11. Starts(Over(host_call.buf, m), m) /\ Over(host_call.buf, m) \in Bytes
  BY <1>7, OverStarts
<1>12. Verdict(host_call.q, Over(host_call.buf, m), Len(m)) = outcome
  BY <1>4, <1>7, <1>11, VerdictOnAnswer
<1>13. device.len = 0 /\ Return(src, Len(wire)) /\ Len(m) <= BufSize(host_call.q)
  BY <1>1, <1>3, <1>5, <1>8 DEF Answered, src
<1>14. QED
  BY <1>1, <1>5, <1>9, <1>10, <1>12, <1>13, ReturnKeeps

\* The call judges its own request.
LEMMA SocketFailsKeeps ==
  ASSUME FrameInv, SocketFails
  PROVE  FrameInv'
<1>1. /\ host_call.step \in {"send", "wait"} /\ device.len = 0
      /\ Return(host_call.buf_crypt, NoFrame)
      /\ wire' = <<>> /\ outcome' = Failed /\ device' = device /\ calls' = calls
  BY DEF SocketFails
<1>2. /\ host_call \in [step: {"idle", "send", "wait"}, q: Requests, sent: Bytes,
                        verdict: Int, buf: Bytes, buf_crypt: Bytes]
      /\ Asks(host_call.q, host_call.sent)
      /\ Len(host_call.buf_crypt) <= BufSize(host_call.q) + 5
  BY <1>1, CallUnderWay
<1>3. host_call.buf_crypt = build_crypt_msg(host_call.sent)
  BY <1>1 DEF FrameInv, Exchange, Own
<1> DEFINE m == host_call.sent
           src == host_call.buf_crypt
<1>4. /\ host_call.q \in Requests /\ m \in Bytes /\ src \in Bytes /\ host_call.buf \in Bytes
      /\ src = build_crypt_msg(m) /\ Asks(host_call.q, m)
      /\ Len(src) <= BufSize(host_call.q) + 5 /\ Return(src, NoFrame)
  BY <1>1, <1>2, <1>3
<1> HIDE DEF m, src
<1>5. /\ Len(m) \in Nat /\ Len(m) >= 1 /\ Len(m) < NoFrame /\ Len(m) <= BufSize(host_call.q)
  BY <1>4, LengthsOfAsks
<1>6. Len(src) = Len(m) + 5
  BY <1>4, <1>5, FrameBytes
<1>7. decrypt_msg(src, NoFrame) = m
  <2>1. NoFrame \in {Len(m) + 5, NoFrame} /\ Len(src) >= Len(m) + 5
    BY <1>5, <1>6
  <2>2. \A i \in 1 .. Len(m) + 5 : src[i] = build_crypt_msg(m)[i]
    BY <1>4
  <2>3. QED
    BY <1>4, <1>5, <2>1, <2>2, Decrypts
<1>8. Starts(Over(host_call.buf, m), m) /\ Over(host_call.buf, m) \in Bytes
  BY <1>4, OverStarts
<1>9. Verdict(host_call.q, Over(host_call.buf, m), Len(m)) = outcome'
  BY <1>1, <1>4, <1>8, VerdictOnItself
<1>10. outcome' \in Int
  BY <1>1 DEF Failed
<1>11. QED
  BY <1>1, <1>4, <1>5, <1>7, <1>9, <1>10, ReturnKeeps

LEMMA TaskStartsKeeps ==
  ASSUME FrameInv, TaskStarts
  PROVE  FrameInv'
<1>1. /\ host_call.step = "idle" /\ host_call' = NoHostCall /\ calls' = 0
      /\ device' = Fresh /\ wire' = wire
  BY DEF TaskStarts
<1>2. wire = <<>>
  BY <1>1 DEF FrameInv, Exchange, Quiet
<1>3. <<>> \in Bytes /\ Len(<<>>) = 0 /\ PlainSize \in Nat
  BY FrameAssumption DEF Bytes
<1>4. HostType' /\ DeviceType'
  BY <1>1, <1>3 DEF HostType, DeviceType, NoHostCall, Fresh
<1>5. Exchange' /\ VerdictTrue'
  BY <1>1, <1>2 DEF Exchange, Quiet, VerdictTrue, NoHostCall, Fresh
<1>6. QED
  BY <1>4, <1>5 DEF FrameInv

\* What is decrypted of the request is the request, over whatever the one
\* before left in buf_decrypt.
LEMMA DecryptKeeps ==
  ASSUME FrameInv, Decrypt
  PROVE  FrameInv'
<1> DEFINE d == decrypt_msg(wire, Len(wire))
           m == host_call.sent
<1>1. /\ wire # <<>> /\ outcome = Pending /\ device.len = 0
      /\ device' = [device EXCEPT !.buf_decrypt = Over(@, d), !.len = Len(d)]
      /\ host_call' = host_call /\ wire' = wire /\ outcome' = outcome /\ calls' = calls
  BY DEF Decrypt
<1>2. host_call.step = "wait" /\ Own /\ (Asked \/ Answered)
  BY <1>1 DEF FrameInv, Exchange, Quiet
<1>3. Asked
  <2>1. ASSUME Answered PROVE FALSE
    <3>1. PICK a \in Bytes : Answers(host_call.q, a, outcome)
      BY <2>1 DEF Answered
    <3>2. outcome >= 0
      BY <3>1, LengthsOfAnswers
    <3>3. QED
      BY <1>1, <3>2 DEF Pending
  <2>2. QED
    BY <1>2, <2>1
<1>4. Asks(host_call.q, m)
  BY <1>2, CallUnderWay
<1>5. wire = build_crypt_msg(m)
  BY <1>3 DEF Asked
<1> HIDE DEF m
<1>6. m \in Bytes /\ Len(m) \in Nat /\ Len(m) >= 1 /\ Len(m) < NoFrame /\ Len(m) <= PlainSize
  BY <1>4, LengthsOfAsks
<1>7. d = m
  <2>1. wire \in Bytes /\ Len(wire) = Len(m) + 5
    BY <1>5, <1>6, FrameBytes
  <2>2. Len(wire) >= Len(m) + 5 /\ Len(wire) \in {Len(m) + 5, NoFrame}
    BY <1>6, <2>1
  <2>3. \A i \in 1 .. Len(m) + 5 : wire[i] = build_crypt_msg(m)[i]
    BY <1>5
  <2>4. QED
    BY <1>6, <2>1, <2>2, <2>3, Decrypts
<1> HIDE DEF d
<1>8. device \in [len: Nat, buf_decrypt: Bytes, buf_crypt: Bytes]
      /\ Len(device.buf_decrypt) <= PlainSize /\ Len(device.buf_crypt) <= 16
  BY DEF FrameInv, DeviceType
<1> DEFINE b == Over(device.buf_decrypt, m)
<1>9. b \in Bytes /\ Len(b) <= PlainSize /\ Starts(b, m)
  <2>1. device.buf_decrypt \in Bytes
    BY <1>8
  <2>2. b \in Bytes /\ Starts(b, m)
        /\ Len(b) = IF Len(device.buf_decrypt) > Len(m) THEN Len(device.buf_decrypt) ELSE Len(m)
    BY <1>6, <2>1, OverBytes, OverStarts
  <2> HIDE DEF b
  <2>3. QED
    BY <1>6, <1>8, <2>2
<1>10. device' = [device EXCEPT !.buf_decrypt = b, !.len = Len(m)]
  BY <1>1, <1>7
<1> HIDE DEF b
<1>11. /\ device' \in [len: Nat, buf_decrypt: Bytes, buf_crypt: Bytes]
       /\ device'.len = Len(m) /\ device'.buf_decrypt = b
       /\ device'.buf_crypt = device.buf_crypt
  BY <1>6, <1>8, <1>9, <1>10
<1>12. DeviceType'
  BY <1>8, <1>9, <1>11 DEF DeviceType
<1>13. HostType' /\ VerdictTrue'
  BY <1>1 DEF FrameInv, HostType, VerdictTrue
<1>14. Own'
  BY <1>1, <1>2 DEF Own
<1>15. RequestHeard' = m
  <2>1. SubSeq(b, 1, Len(m)) = m
    BY <1>6, <1>9, Prefix
  <2>2. QED
    BY <1>11, <2>1 DEF RequestHeard
<1>16. Asked'
  BY <1>1, <1>3, <1>11, <1>15 DEF Asked, m
<1>17. Exchange'
  BY <1>1, <1>2, <1>14, <1>16 DEF Exchange
<1>18. QED
  BY <1>12, <1>13, <1>17 DEF FrameInv

\* A request that was heard is the host's.
LEMMA HeardRequest ==
  ASSUME FrameInv, device.len # 0
  PROVE  /\ host_call.step = "wait" /\ Own /\ host_call.q \in Requests
         /\ Asks(host_call.q, host_call.sent)
         /\ device.len = Len(host_call.sent) /\ RequestHeard = host_call.sent
<1>1. host_call.step = "wait" /\ Own /\ Asked
  BY DEF FrameInv, Exchange, Quiet, Answered
<1>2. Asks(host_call.q, host_call.sent)
  BY <1>1, CallUnderWay
<1>3. QED
  BY <1>1, <1>2 DEF Asked, Asks

LEMMA SendReplyKeeps ==
  ASSUME FrameInv, device.len # 0, NEW m, SendReply(m), Answers(host_call.q, m, outcome')
  PROVE  FrameInv'
<1>1. host_call.step = "wait" /\ Own
  BY HeardRequest
<1>2. m \in Bytes /\ Len(m) \in Nat /\ Len(m) >= 1 /\ Len(m) <= 11 /\ Len(m) < NoFrame
  BY LengthsOfAnswers
<1> DEFINE p == Over(device.buf_decrypt, Crypt(m))
           f == Over(device.buf_crypt, build_crypt_msg(m))
<1>3. /\ device' = [len |-> 0, buf_decrypt |-> p, buf_crypt |-> f]
      /\ wire' = build_crypt_msg(m) /\ host_call' = host_call /\ calls' = calls
  BY DEF SendReply
<1>4. device \in [len: Nat, buf_decrypt: Bytes, buf_crypt: Bytes]
      /\ Len(device.buf_decrypt) <= PlainSize /\ Len(device.buf_crypt) <= 16
  BY DEF FrameInv, DeviceType
<1>5. PlainSize \in Nat /\ 12 <= PlainSize
  BY FrameAssumption
<1>6. p \in Bytes /\ Len(p) <= PlainSize
  <2>1. device.buf_decrypt \in Bytes /\ Crypt(m) \in Bytes /\ Len(Crypt(m)) = Len(m)
    BY <1>2, <1>4, CryptBytes
  <2>2. /\ p \in Bytes
        /\ Len(p) = IF Len(device.buf_decrypt) > Len(Crypt(m)) THEN Len(device.buf_decrypt)
                    ELSE Len(Crypt(m))
    BY <2>1, OverBytes
  <2> HIDE DEF p
  <2>3. QED
    BY <1>2, <1>4, <1>5, <2>1, <2>2
<1>7. f \in Bytes /\ Len(f) <= 16
  <2>1. /\ device.buf_crypt \in Bytes /\ build_crypt_msg(m) \in Bytes
        /\ Len(build_crypt_msg(m)) = Len(m) + 5
    BY <1>2, <1>4, FrameBytes
  <2>2. /\ f \in Bytes
        /\ Len(f) = IF Len(device.buf_crypt) > Len(build_crypt_msg(m)) THEN Len(device.buf_crypt)
                    ELSE Len(build_crypt_msg(m))
    BY <2>1, OverBytes
  <2> HIDE DEF f
  <2>3. QED
    BY <1>2, <1>4, <2>1, <2>2
<1> HIDE DEF p, f
<1>8. DeviceType' /\ device'.len = 0
  BY <1>3, <1>6, <1>7 DEF DeviceType
<1>9. HostType' /\ VerdictTrue'
  <2>1. HostType'
    BY <1>3 DEF FrameInv, HostType
  <2>2. VerdictTrue'
    BY <1>1, <1>3 DEF VerdictTrue
  <2>3. QED
    BY <2>1, <2>2
<1>10. Answered'
  BY <1>2, <1>3, <1>8 DEF Answered
<1>11. Own'
  BY <1>1, <1>3 DEF Own
<1>12. Exchange'
  BY <1>1, <1>3, <1>10, <1>11 DEF Exchange
<1>13. QED
  BY <1>8, <1>9, <1>12 DEF FrameInv

LEMMA AgreeKeeps ==
  ASSUME FrameInv, NEW fill \in Fills, Agree(fill)
  PROVE  FrameInv'
<1>1. device.len # 0 /\ outcome' = Positive
  BY DEF Agree
<1>2. PICK p \in Requests :
        /\ device.len = p.len
        /\ SubSeq(RequestHeard, 1, 1 + Len(p.fixed)) = <<p.sid>> \o p.fixed
        /\ SendReply(AgreedReply(p, RequestHeard, fill))
  BY DEF Agree, AgreedReply
<1>3. /\ Asks(host_call.q, host_call.sent)
      /\ device.len = Len(host_call.sent) /\ RequestHeard = host_call.sent
  BY <1>1, HeardRequest
<1> DEFINE m == host_call.sent
<1>4. p = host_call.q
  <2>1. Asks(host_call.q, m) /\ Len(m) = p.len
        /\ SubSeq(m, 1, 1 + Len(p.fixed)) = <<p.sid>> \o p.fixed
    BY <1>2, <1>3
  <2> HIDE DEF m
  <2>2. QED
    BY <2>1, RequestKnown
<1>5. Answers(host_call.q, AgreedReply(host_call.q, m, fill), outcome')
  BY <1>1, <1>3, AgreedAnswers
<1>6. SendReply(AgreedReply(host_call.q, m, fill))
  BY <1>2, <1>3, <1>4
<1>7. QED
  BY <1>1, <1>5, <1>6, SendReplyKeeps

LEMMA RefuseKeeps ==
  ASSUME FrameInv, NEW nrc \in Refusals, Refuse(nrc)
  PROVE  FrameInv'
<1>1. /\ device.len # 0 /\ outcome' = nrc
      /\ SendReply(<<Refused, device.buf_decrypt[1], nrc>>)
  BY DEF Refuse
<1>2. /\ Asks(host_call.q, host_call.sent) /\ host_call.q \in Requests
      /\ device.len = Len(host_call.sent) /\ RequestHeard = host_call.sent
  BY <1>1, HeardRequest
<1>3. device.buf_decrypt[1] = host_call.q.sid
  <2> DEFINE b == device.buf_decrypt
             n == device.len
  <2>1. n \in Nat /\ n >= 1 /\ b \in Bytes
    BY <1>1 DEF FrameInv, DeviceType
  <2>2. RequestHeard = SubSeq(b, 1, n)
    BY DEF RequestHeard
  <2> HIDE DEF b, n
  <2>3. SubSeq(b, 1, n)[1] = b[1]
    BY <2>1 DEF Bytes
  <2>4. QED
    BY <1>2, <2>2, <2>3 DEF Asks, b
<1>4. Answers(host_call.q, <<Refused, device.buf_decrypt[1], nrc>>, outcome')
  BY <1>1, <1>2, <1>3, RefusalAnswers
<1>5. QED
  BY <1>1, <1>4, SendReplyKeeps

-----------------------------------------------------------------------------
(* The theorems.                                                           *)

LEMMA FrameInvInit == FrameInit => FrameInv
<1> SUFFICES ASSUME FrameInit PROVE FrameInv
  OBVIOUS
<1>1. <<>> \in Bytes /\ Len(<<>>) = 0 /\ PlainSize \in Nat
  BY FrameAssumption DEF Bytes
<1>2. HostType /\ DeviceType
  BY <1>1 DEF FrameInit, HostType, DeviceType, NoHostCall, Fresh
<1>3. Exchange /\ VerdictTrue
  BY DEF FrameInit, Exchange, Quiet, VerdictTrue, NoHostCall, Fresh
<1>4. QED
  BY <1>2, <1>3 DEF FrameInv

LEMMA FrameInvStep == FrameInv /\ [FrameNext]_frameVars => FrameInv'
<1> SUFFICES ASSUME FrameInv, [FrameNext]_frameVars PROVE FrameInv'
  OBVIOUS
<1>1. ASSUME NEW q \in Requests, NEW fill \in Fills, Prepare(q, fill) PROVE FrameInv'
  BY <1>1, PrepareKeeps
<1>2. CASE SendRequest
  BY <1>2, SendRequestKeeps
<1>3. CASE GetReply
  BY <1>3, GetReplyKeeps
<1>4. CASE SocketFails
  BY <1>4, SocketFailsKeeps
<1>5. CASE TaskStarts
  BY <1>5, TaskStartsKeeps
<1>6. CASE Decrypt
  BY <1>6, DecryptKeeps
<1>7. ASSUME NEW fill \in Fills, Agree(fill) PROVE FrameInv'
  BY <1>7, AgreeKeeps
<1>8. ASSUME NEW nrc \in Refusals, Refuse(nrc) PROVE FrameInv'
  BY <1>8, RefuseKeeps
<1>9. CASE UNCHANGED frameVars
  BY <1>9 DEF FrameInv, HostType, DeviceType, Exchange, Quiet, Own, Asked, Answered,
              RequestHeard, VerdictTrue, frameVars
<1>10. QED
  BY <1>1, <1>2, <1>3, <1>4, <1>5, <1>6, <1>7, <1>8, <1>9 DEF FrameNext

LEMMA FrameInvAlways == FrameSpec => []FrameInv
  BY FrameInvInit, FrameInvStep, PTL DEF FrameSpec

LEMMA AnnouncedIs ==
  ASSUME NEW m \in Bytes, Len(m) >= 1, Len(m) < NoFrame, wire = build_crypt_msg(m)
  PROVE  AnnouncedLength(wire) = Len(m) /\ AnnouncedLength(wire) + 5 = Len(wire)
<1>1. Len(build_crypt_msg(m)) = Len(m) + 5
      /\ build_crypt_msg(m)[3] * 256 + build_crypt_msg(m)[4] = Len(m)
  BY FrameBytes
<1>2. AnnouncedLength(wire) = Len(m)
  BY <1>1 DEF AnnouncedLength
<1>3. QED
  BY <1>1, <1>2

(***************************************************************************)
(* Every frame that the tool and the device send each other announces the  *)
(* bytes that it carries, which decrypt_msg relies on without a check, and *)
(* fits the buffers of both ends: for every block that a frame can hold,   *)
(* every size of buf_decrypt that holds one, and every content.  Frames of *)
(* other senders are no subject of the theorem.                            *)
(***************************************************************************)
THEOREM FramesOfBothEndsFit == FrameSpec => []FramesFit
<1>1. ASSUME FrameInv, wire # <<>>
      PROVE  /\ AnnouncedLength(wire) + 5 = Len(wire)
             /\ AnnouncedLength(wire) <= IF outcome = Pending THEN PlainSize ELSE BufSize(host_call.q)
  <2>1. host_call.step = "wait" /\ (Asked \/ Answered)
    BY <1>1 DEF FrameInv, Exchange, Quiet
  <2>2. CASE Asked
    <3>1. Asks(host_call.q, host_call.sent)
      BY <1>1, <2>1, CallUnderWay
    <3>2. /\ host_call.sent \in Bytes /\ Len(host_call.sent) >= 1
          /\ Len(host_call.sent) < NoFrame /\ Len(host_call.sent) <= PlainSize
      BY <3>1, LengthsOfAsks
    <3>3. AnnouncedLength(wire) = Len(host_call.sent) /\ AnnouncedLength(wire) + 5 = Len(wire)
      BY <2>2, <3>2, AnnouncedIs DEF Asked
    <3>4. QED
      BY <2>2, <3>2, <3>3 DEF Asked
  <2>3. CASE Answered
    <3>1. PICK m \in Bytes : wire = build_crypt_msg(m) /\ Answers(host_call.q, m, outcome)
      BY <2>3 DEF Answered
    <3>2. /\ Len(m) \in Nat /\ Len(m) >= 1 /\ Len(m) <= 11 /\ Len(m) < NoFrame
          /\ outcome >= 0
      BY <3>1, LengthsOfAnswers
    <3>3. AnnouncedLength(wire) = Len(m) /\ AnnouncedLength(wire) + 5 = Len(wire)
      BY <3>1, <3>2, AnnouncedIs
    <3>4. BufSize(host_call.q) \in Nat /\ 14 <= BufSize(host_call.q)
      BY FrameAssumption DEF BufSize
    <3>5. outcome # Pending
      BY <3>2 DEF Pending
    <3>6. QED
      BY <3>2, <3>3, <3>4, <3>5
  <2>4. QED
    BY <2>1, <2>2, <2>3
<1>2. FrameInv => FramesFit
  BY <1>1 DEF FrameInv, HostType, DeviceType, FramesFit
<1>3. QED
  BY <1>2, FrameInvAlways, PTL

(***************************************************************************)
(* boot_main_task dispatches on the bytes the host put in its request,     *)
(* for every length of the request and every content: masking twice is the *)
(* identity and the two length bytes hold the length.                      *)
(***************************************************************************)
THEOREM RequestsArriveIntact == FrameSpec => []HeardAsSent
<1>1. FrameInv => HeardAsSent
  BY HeardRequest DEF HeardAsSent
<1>2. QED
  BY <1>1, FrameInvAlways, PTL

(***************************************************************************)
(* A call of boot_comm.cpp returns what the service decided, or a failure  *)
(* when the socket failed, although it decrypts its own request then.      *)
(***************************************************************************)
THEOREM CallsReturnTheOutcome == FrameSpec => []VerdictTrue
<1>1. FrameInv => VerdictTrue
  BY DEF FrameInv
<1>2. QED
  BY <1>1, FrameInvAlways, PTL
=============================================================================
