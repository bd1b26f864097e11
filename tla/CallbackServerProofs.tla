------------------------- MODULE CallbackServerProofs -------------------------
(***************************************************************************)
(* Proofs about CallbackServer, for any bytes, texts and corporation.      *)
(* Decryption is shown to be exact: it gives the text back from whatever   *)
(* WeCom has laid out, and gives a text only if the bytes are laid out as  *)
(* WeCom does.  What the handler answers follows from the two.             *)
(***************************************************************************)
EXTENDS CallbackServer, SequenceTheorems, TLAPS

Byte == 0 .. 255

-----------------------------------------------------------------------------
\* Sequences, counted from where their parts begin

LEMMA Concatenated ==
  ASSUME NEW s \in Seq(Byte), NEW t \in Seq(Byte)
  PROVE  /\ s \o t \in Seq(Byte)
         /\ Len(s) \in Nat /\ Len(t) \in Nat
         /\ Len(s \o t) = Len(s) + Len(t)
         /\ \A i \in 1 .. Len(s) : (s \o t)[i] = s[i]
         /\ \A i \in 1 .. Len(t) : (s \o t)[Len(s) + i] = t[i]
<1> DEFINE st == s \o t
<1>1. /\ st \in Seq(Byte)
      /\ Len(st) = Len(s) + Len(t)
      /\ \A i \in 1 .. Len(s) + Len(t) : st[i] = IF i <= Len(s) THEN s[i] ELSE t[i - Len(s)]
  BY ConcatProperties
<1>2. Len(s) \in Nat /\ Len(t) \in Nat
  BY LenProperties
<1> HIDE DEF st
<1>3. ASSUME NEW i \in 1 .. Len(s) PROVE st[i] = s[i]
  <2>1. i \in 1 .. Len(s) + Len(t) /\ i <= Len(s)
    BY <1>2
  <2> QED BY <1>1, <2>1
<1>4. ASSUME NEW i \in 1 .. Len(t) PROVE st[Len(s) + i] = t[i]
  <2> DEFINE j == Len(s) + i
  <2>1. j \in 1 .. Len(s) + Len(t) /\ ~(j <= Len(s)) /\ j - Len(s) = i
    BY <1>2
  <2> HIDE DEF j
  <2>2. st[j] = t[i]
    BY <1>1, <2>1
  <2> QED BY <2>2 DEF j
<1>5. /\ st \in Seq(Byte) /\ Len(st) = Len(s) + Len(t)
      /\ \A i \in 1 .. Len(s) : st[i] = s[i]
      /\ \A i \in 1 .. Len(t) : st[Len(s) + i] = t[i]
  BY <1>1, <1>3, <1>4
<1> QED BY <1>2, <1>5 DEF st

LEMMA Sliced ==
  ASSUME NEW s \in Seq(Byte), NEW m \in Nat, NEW n \in Nat, m <= n, n <= Len(s)
  PROVE  /\ SubSeq(s, m + 1, n) \in Seq(Byte)
         /\ Len(SubSeq(s, m + 1, n)) = n - m
         /\ \A i \in 1 .. n - m : SubSeq(s, m + 1, n)[i] = s[m + i]
<1> DEFINE k == m + 1
           t == SubSeq(s, k, n)
<1>1. Len(s) \in Nat /\ \A i \in 1 .. Len(s) : s[i] \in Byte
  BY LenProperties, ElementOfSeq
<1>2. k \in Int /\ n \in Int /\ \A i \in k .. n : s[i] \in Byte
  BY <1>1
<1> HIDE DEF k
<1>3. /\ t \in Seq(Byte)
      /\ Len(t) = IF k <= n THEN n - k + 1 ELSE 0
      /\ \A i \in 1 .. n - k + 1 : t[i] = s[k + i - 1]
  BY <1>2, SubSeqProperties
<1> HIDE DEF t
<1>4. Len(t) = n - m
  BY <1>1, <1>3 DEF k
<1>5. ASSUME NEW i \in 1 .. n - m PROVE t[i] = s[m + i]
  <2>1. i \in 1 .. n - k + 1 /\ k + i - 1 = m + i
    BY DEF k
  <2> QED BY <1>3, <2>1
<1> QED BY <1>3, <1>4, <1>5 DEF k, t

-----------------------------------------------------------------------------
\* The length field

\* Four bytes hold any length that is not too large.
LEMMA LengthInBytes ==
  ASSUME NEW n \in Nat, Countable(n)
  PROVE  Uint32(n) \in Seq(Byte) /\ Len(Uint32(n)) = 4
<1> DEFINE a == n \div 16777216
           b == (n \div 65536) % 256
           c == (n \div 256) % 256
           d == n % 256
<1>1. a \in Byte /\ b \in Byte /\ c \in Byte /\ d \in Byte
  BY SMT DEF Byte, Countable
<1>2. Uint32(n) = <<a, b, c, d>>
  BY DEF Uint32
<1> HIDE DEF a, b, c, d
<1> QED BY <1>1, <1>2

LEMMA LengthReadBack ==
  ASSUME NEW n \in Nat, Countable(n), NEW bytes,
         \A i \in 1 .. 4 : bytes[16 + i] = Uint32(n)[i]
  PROVE  Uint32At(bytes, 16) = n
<1> DEFINE a == n \div 16777216
           b == (n \div 65536) % 256
           c == (n \div 256) % 256
           d == n % 256
<1>1. 16777216 * a + 65536 * b + 256 * c + d = n
  <2> DEFINE x == n \div 256
             y == n \div 65536
  <2>1. n = 256 * x + d /\ x \in Nat /\ d \in Nat
    BY SMT
  <2>2. x \div 256 = y /\ x = 256 * y + c /\ y \in Nat /\ c \in Nat
    BY SMT
  <2>3. y \div 256 = a /\ y = 256 * a + b /\ a \in Nat /\ b \in Nat
    BY SMT
  <2> HIDE DEF x, y, a, b, c, d
  <2> QED BY <2>1, <2>2, <2>3, SMT
<1>2. Uint32(n) = <<a, b, c, d>>
  BY DEF Uint32
<1> HIDE DEF a, b, c, d
<1>3. bytes[17] = a /\ bytes[18] = b /\ bytes[19] = c /\ bytes[20] = d
  BY <1>2
<1>4. Uint32At(bytes, 16) = 16777216 * a + 65536 * b + 256 * c + d
  BY <1>3, SMT DEF Uint32At
<1> QED BY <1>1, <1>4, SMT

\* The length read from four bytes is written as these four bytes.
LEMMA BytesOfLength ==
  ASSUME NEW bytes,
         bytes[17] \in Byte, bytes[18] \in Byte, bytes[19] \in Byte, bytes[20] \in Byte
  PROVE  /\ Uint32At(bytes, 16) \in Nat /\ Countable(Uint32At(bytes, 16))
         /\ Uint32(Uint32At(bytes, 16)) = <<bytes[17], bytes[18], bytes[19], bytes[20]>>
<1> DEFINE a == bytes[17]
           b == bytes[18]
           c == bytes[19]
           d == bytes[20]
           n == Uint32At(bytes, 16)
<1>1. n = 16777216 * a + 65536 * b + 256 * c + d
  BY SMT DEF Uint32At
<1>2. a \in 0 .. 255 /\ b \in 0 .. 255 /\ c \in 0 .. 255 /\ d \in 0 .. 255
  BY DEF Byte
<1> HIDE DEF a, b, c, d, n
<1>3. n \in Nat /\ Countable(n)
  BY <1>1, <1>2, SMT DEF Countable
<1>4. n \div 16777216 = a
  BY <1>1, <1>2, SMT
<1>5. n \div 65536 = 256 * a + b /\ (256 * a + b) % 256 = b
  BY <1>1, <1>2, SMT
<1>6. n \div 256 = 65536 * a + 256 * b + c /\ (65536 * a + 256 * b + c) % 256 = c
  BY <1>1, <1>2, SMT
<1>7. n % 256 = d
  BY <1>1, <1>2, SMT
<1>8. Uint32(n) = <<a, b, c, d>>
  BY <1>4, <1>5, <1>6, <1>7, SMT DEF Uint32
<1> QED BY <1>3, <1>8, SMT DEF a, b, c, d, n

-----------------------------------------------------------------------------
\* Padding

\* WeCom pads to multiples of 32, with 1 to 32 bytes.
LEMMA PaddingFits ==
  ASSUME NEW n \in Nat
  PROVE  PaddingOf(n) \in 1 .. 32 /\ (n + PaddingOf(n)) % 16 = 0
BY DEF PaddingOf

LEMMA Repeated ==
  ASSUME NEW b \in Byte, NEW n \in Nat
  PROVE  /\ Repeat(b, n) \in Seq(Byte) /\ Len(Repeat(b, n)) = n
         /\ \A i \in 1 .. n : Repeat(b, n)[i] = b
BY DEF Repeat

-----------------------------------------------------------------------------
\* The layout

\* Texts that the length field can count.
Texts == {s \in Seq(Byte) : Countable(Len(s))}

LEMMA LayoutParts ==
  ASSUME NEW text \in Texts
  PROVE  /\ Layout(text) \in Seq(Byte)
         /\ Len(Layout(text)) = 4 + Len(text) + Len(CorpID)
         /\ \A i \in 1 .. 4 : Layout(text)[i] = Uint32(Len(text))[i]
         /\ \A i \in 1 .. Len(text) : Layout(text)[4 + i] = text[i]
         /\ \A i \in 1 .. Len(CorpID) : Layout(text)[4 + Len(text) + i] = CorpID[i]
<1> DEFINE u == Uint32(Len(text))
           m == u \o text
           l == m \o CorpID
<1>1. text \in Seq(Byte) /\ Countable(Len(text))
  BY DEF Texts
<1>2. Len(text) \in Nat /\ Len(CorpID) \in Nat /\ CorpID \in Seq(Byte)
  BY <1>1, CorpIDAssumption DEF Byte
<1>3. u \in Seq(Byte) /\ Len(u) = 4
  BY <1>1, <1>2, LengthInBytes
<1>4. Layout(text) = l
  BY DEF Layout
<1> HIDE DEF u
<1>5. /\ m \in Seq(Byte) /\ Len(m) = Len(u) + Len(text)
      /\ \A i \in 1 .. Len(u) : m[i] = u[i]
      /\ \A i \in 1 .. Len(text) : m[Len(u) + i] = text[i]
  BY <1>1, <1>3, Concatenated, Zenon
<1> HIDE DEF m
<1>6. /\ l \in Seq(Byte) /\ Len(l) = Len(m) + Len(CorpID)
      /\ \A i \in 1 .. Len(m) : l[i] = m[i]
      /\ \A i \in 1 .. Len(CorpID) : l[Len(m) + i] = CorpID[i]
  BY <1>2, <1>5, Concatenated, Zenon
<1> HIDE DEF l
<1>7. \A i \in 1 .. 4 : l[i] = u[i]
  BY <1>2, <1>3, <1>5, <1>6
<1>8. \A i \in 1 .. Len(text) : l[4 + i] = text[i]
  <2> TAKE i \in 1 .. Len(text)
  <2>1. 4 + i \in 1 .. Len(m) /\ m[4 + i] = text[i]
    BY <1>2, <1>3, <1>5
  <2> QED BY <2>1, <1>6
<1>9. Len(m) = 4 + Len(text)
  BY <1>3, <1>5
<1> QED BY <1>4, <1>6, <1>7, <1>8, <1>9 DEF u

\* Decrypted bytes as WeCom makes them: 16 bytes that do not matter, the text with
\* its length and the corporation, the padding.
Heads == {s \in Seq(Byte) : Len(s) = 16}

Whole(head, text, padding) == head \o Layout(text) \o Repeat(padding, padding)

\* Where the text ends, and where the padding begins.
EndOf(text)  == 20 + Len(text)
BodyOf(text) == EndOf(text) + Len(CorpID)

\* What is where in bytes that are laid out so.
LaidOut(bytes, head, text, padding) ==
  /\ bytes \in Seq(Byte)
  /\ Len(bytes) = BodyOf(text) + padding
  /\ EndOf(text) \in Nat /\ BodyOf(text) \in Nat
  /\ 20 <= EndOf(text) /\ EndOf(text) <= BodyOf(text)
  /\ \A i \in 1 .. 16 : bytes[i] = head[i]
  /\ \A i \in 1 .. 4 : bytes[16 + i] = Uint32(Len(text))[i]
  /\ \A i \in 1 .. Len(text) : bytes[20 + i] = text[i]
  /\ \A i \in 1 .. Len(CorpID) : bytes[EndOf(text) + i] = CorpID[i]
  /\ \A i \in 1 .. padding : bytes[BodyOf(text) + i] = padding

LEMMA WholeParts ==
  ASSUME NEW head \in Heads, NEW text \in Texts, NEW padding \in 1 .. 32
  PROVE  LaidOut(Whole(head, text, padding), head, text, padding)
<1> DEFINE l == Layout(text)
           m == head \o l
           r == Repeat(padding, padding)
           whole == Whole(head, text, padding)
           end   == EndOf(text)
           body  == BodyOf(text)
<1>1. text \in Seq(Byte) /\ head \in Seq(Byte) /\ Len(head) = 16
  BY DEF Texts, Heads
<1>2. Len(text) \in Nat /\ Len(CorpID) \in Nat
      /\ end = 20 + Len(text) /\ body = end + Len(CorpID)
  BY <1>1, CorpIDAssumption DEF EndOf, BodyOf
<1>3. /\ l \in Seq(Byte) /\ Len(l) = 4 + Len(text) + Len(CorpID)
      /\ \A i \in 1 .. 4 : l[i] = Uint32(Len(text))[i]
      /\ \A i \in 1 .. Len(text) : l[4 + i] = text[i]
      /\ \A i \in 1 .. Len(CorpID) : l[4 + Len(text) + i] = CorpID[i]
  BY LayoutParts
<1>4. r \in Seq(Byte) /\ Len(r) = padding /\ \A i \in 1 .. padding : r[i] = padding
  <2>1. padding \in Byte /\ padding \in Nat
    BY DEF Byte
  <2> QED BY <2>1, Repeated, Zenon
<1>5. whole = m \o r
  BY DEF Whole
<1> HIDE DEF l, r, whole, end, body
<1>6. /\ m \in Seq(Byte) /\ Len(m) = Len(head) + Len(l)
      /\ \A i \in 1 .. Len(head) : m[i] = head[i]
      /\ \A i \in 1 .. Len(l) : m[Len(head) + i] = l[i]
  <2>1. head \in Seq(Byte)
    BY <1>1
  <2> QED BY <2>1, <1>3, Concatenated, Zenon
<1> HIDE DEF m
<1>7. /\ whole \in Seq(Byte) /\ Len(whole) = Len(m) + Len(r)
      /\ \A i \in 1 .. Len(m) : whole[i] = m[i]
      /\ \A i \in 1 .. Len(r) : whole[Len(m) + i] = r[i]
  <2>1. /\ m \o r \in Seq(Byte) /\ Len(m \o r) = Len(m) + Len(r)
        /\ \A i \in 1 .. Len(m) : (m \o r)[i] = m[i]
        /\ \A i \in 1 .. Len(r) : (m \o r)[Len(m) + i] = r[i]
    BY <1>4, <1>6, Concatenated, Zenon
  <2> QED BY <1>5, <2>1, Zenon
<1>8. Len(m) = body /\ body \in Nat /\ Len(head) = 16 /\ Len(l) = body - 16 /\ Len(r) = padding
  <2>1. Len(head) = 16 /\ Len(m) = Len(head) + Len(l) /\ Len(l) = 4 + Len(text) + Len(CorpID) /\ Len(r) = padding
    BY <1>1, <1>3, <1>4, <1>6, Zenon
  <2> QED BY <1>2, <2>1
<1>9. end \in Nat /\ body \in Nat /\ 20 <= end /\ end <= body
  BY <1>2
<1>10. \A i \in 1 .. body - 16 : whole[16 + i] = l[i]
  <2> TAKE i \in 1 .. body - 16
  <2> DEFINE k == 16 + i
  <2>1. k \in 1 .. Len(m) /\ i \in 1 .. Len(l)
    BY <1>8
  <2>2. m[k] = l[i]
    BY <2>1, <1>6, <1>8
  <2> HIDE DEF k
  <2>3. whole[k] = l[i]
    BY <2>1, <2>2, <1>7, Zenon
  <2> QED BY <2>3 DEF k
<1>11. \A i \in 1 .. 4 : whole[16 + i] = Uint32(Len(text))[i]
  <2>1. 1 .. 4 \subseteq 1 .. body - 16
    BY <1>2
  <2> QED BY <2>1, <1>3, <1>10, Zenon
<1>12. \A i \in 1 .. Len(text) : whole[20 + i] = text[i]
  <2> TAKE i \in 1 .. Len(text)
  <2> DEFINE k == 4 + i
  <2>1. k \in 1 .. body - 16 /\ 20 + i = 16 + k
    BY <1>2
  <2>2. l[k] = text[i]
    BY <1>3, Zenon
  <2> HIDE DEF k
  <2> QED BY <2>1, <2>2, <1>10, Zenon
<1>13. \A i \in 1 .. Len(CorpID) : whole[end + i] = CorpID[i]
  <2> TAKE i \in 1 .. Len(CorpID)
  <2> DEFINE k == 4 + Len(text) + i
  <2>1. k \in 1 .. body - 16 /\ end + i = 16 + k
    BY <1>2
  <2>2. l[k] = CorpID[i]
    BY <1>3, Zenon
  <2> HIDE DEF k
  <2> QED BY <2>1, <2>2, <1>10, Zenon
<1>14. \A i \in 1 .. 16 : whole[i] = head[i]
  <2>1. 1 .. 16 \subseteq 1 .. Len(m)
    BY <1>2, <1>8
  <2> QED BY <2>1, <1>6, <1>7, <1>8, Zenon
<1>15. \A i \in 1 .. padding : whole[body + i] = padding
  BY <1>4, <1>7, <1>8, Zenon
<1>16. Len(whole) = body + padding
  BY <1>7, <1>8, Zenon
<1> QED BY <1>7, <1>9, <1>11, <1>12, <1>13, <1>14, <1>15, <1>16, Zenon DEF LaidOut, whole, end, body

-----------------------------------------------------------------------------
\* Decryption

Aligned(bytes) == Len(bytes) % AESBlock = 0

\* Whatever WeCom lays out is read as the text it wrote.
LEMMA DecryptGivesBack ==
  ASSUME NEW head \in Heads,
         NEW text \in Texts,
         NEW padding \in 1 .. 32,
         Aligned(Whole(head, text, padding))
  PROVE  Decrypt(Whole(head, text, padding)) = {text}
<1> DEFINE bytes == Whole(head, text, padding)
           end   == EndOf(text)
           body  == BodyOf(text)
<1>1. end = 20 + Len(text) /\ body = end + Len(CorpID) /\ bytes = Whole(head, text, padding)
  BY DEF EndOf, BodyOf
<1>2. Aligned(bytes)
  OBVIOUS
<1>3. /\ bytes \in Seq(Byte)
      /\ Len(bytes) = body + padding
      /\ end \in Nat /\ body \in Nat /\ 20 <= end /\ end <= body
      /\ \A i \in 1 .. 4 : bytes[16 + i] = Uint32(Len(text))[i]
      /\ \A i \in 1 .. Len(text) : bytes[20 + i] = text[i]
      /\ \A i \in 1 .. Len(CorpID) : bytes[end + i] = CorpID[i]
      /\ \A i \in 1 .. padding : bytes[body + i] = padding
  <2>1. LaidOut(bytes, head, text, padding)
    BY WholeParts
  <2> QED BY <2>1, Zenon DEF LaidOut
<1> HIDE DEF bytes, end, body
<1>4. /\ Len(text) \in Nat /\ text \in Seq(Byte) /\ Countable(Len(text))
      /\ Len(CorpID) \in Nat /\ CorpID \in Seq(Byte)
  BY CorpIDAssumption DEF Byte, Texts
<1>5. bytes[Len(bytes)] = padding /\ Len(bytes) - padding = body
  <2>1. padding \in 1 .. padding /\ Len(bytes) = body + padding /\ Len(bytes) - padding = body
    BY <1>3
  <2> QED BY <2>1, <1>3, Zenon
<1>6. 20 + Uint32At(bytes, 16) = end
  <2>1. Uint32At(bytes, 16) = Len(text)
    BY <1>3, <1>4, LengthReadBack, Zenon
  <2> QED BY <2>1, <1>1
<1>7. Padded(bytes, padding)
  <2> SUFFICES ASSUME NEW i \in Len(bytes) - padding + 1 .. Len(bytes) PROVE bytes[i] = padding
    BY DEF Padded
  <2>1. i - body \in 1 .. padding /\ body + (i - body) = i
    BY <1>3
  <2> QED BY <2>1, <1>3
<1>8. SubSeq(bytes, end + 1, body) = CorpID
  <2> DEFINE s == SubSeq(bytes, end + 1, body)
  <2>1. body <= Len(bytes)
    BY <1>3
  <2>2. /\ s \in Seq(Byte) /\ Len(s) = body - end
        /\ \A i \in 1 .. body - end : s[i] = bytes[end + i]
    BY <1>3, <2>1, Sliced, Zenon
  <2>3. body - end = Len(CorpID)
    BY <1>1, <1>4
  <2> HIDE DEF s
  <2>4. s = CorpID
    BY <2>2, <2>3, <1>3, <1>4, SeqEqual
  <2> QED BY <2>4 DEF s
<1>9. SubSeq(bytes, 21, end) = text
  <2> DEFINE m == 20
             s == SubSeq(bytes, m + 1, end)
  <2>1. m \in Nat /\ m <= end /\ end <= Len(bytes)
    BY <1>3
  <2>2. end - m = Len(text) /\ s = SubSeq(bytes, 21, end) /\ m = 20
    BY <1>1, <1>4
  <2> HIDE DEF m
  <2>3. /\ s \in Seq(Byte) /\ Len(s) = end - m
        /\ \A i \in 1 .. end - m : s[i] = bytes[m + i]
    BY <1>3, <2>1, Sliced, Zenon
  <2> HIDE DEF s
  <2>4. s = text
    BY <2>3, <2>2, <1>3, <1>4, SeqEqual
  <2> QED BY <2>2, <2>4
<1>10. Len(bytes) > 0 /\ Len(bytes) % AESBlock = 0 /\ MayPad(padding) /\ padding <= Len(bytes)
      /\ body >= 20 /\ end <= body
  BY <1>3, <1>2 DEF Aligned, MayPad
<1>11. Decrypt(bytes) = {text}
  BY <1>5, <1>6, <1>7, <1>8, <1>9, <1>10 DEF Decrypt
<1> QED BY <1>1, <1>11

\* Bytes that give a text are laid out as WeCom does.
LEMMA DecryptIsExact ==
  ASSUME NEW bytes \in Seq(Byte), NEW text \in Decrypt(bytes)
  PROVE  /\ text \in Seq(Byte)
         /\ \E padding \in 1 .. 32 : bytes = Whole(SubSeq(bytes, 1, 16), text, padding)
<1> DEFINE padding == bytes[Len(bytes)]
           body    == Len(bytes) - padding
           length  == Uint32At(bytes, 16)
           end     == 20 + length
           head    == SubSeq(bytes, 1, 16)
           whole   == Whole(head, text, padding)
<1>1. /\ Len(bytes) > 0 /\ padding \in 1 .. 32 /\ padding <= Len(bytes)
      /\ Padded(bytes, padding) /\ body >= 20 /\ end <= body
      /\ SubSeq(bytes, end + 1, body) = CorpID
      /\ text = SubSeq(bytes, 21, end)
  BY DEF Decrypt, MayPad
<1> HIDE DEF padding
<1>2. Len(bytes) \in Nat /\ padding \in Nat /\ body \in Nat
  BY <1>1, LenProperties
<1>3. /\ length \in Nat /\ Countable(length)
      /\ Uint32(length) = <<bytes[17], bytes[18], bytes[19], bytes[20]>>
  <2>1. 17 \in 1 .. Len(bytes) /\ 18 \in 1 .. Len(bytes) /\ 19 \in 1 .. Len(bytes)
        /\ 20 \in 1 .. Len(bytes)
    BY <1>1, <1>2
  <2>2. bytes[17] \in Byte /\ bytes[18] \in Byte /\ bytes[19] \in Byte /\ bytes[20] \in Byte
    BY <2>1
  <2> QED BY <2>2, BytesOfLength, Zenon
<1> HIDE DEF length
<1>4. end \in Nat /\ Len(bytes) = body + padding
  BY <1>1, <1>2, <1>3
<1>5. /\ text \in Seq(Byte) /\ Len(text) = length
      /\ \A i \in 1 .. length : text[i] = bytes[20 + i]
  <2>1. 20 \in Nat /\ 20 <= end /\ end <= Len(bytes) /\ end - 20 = length
        /\ text = SubSeq(bytes, 20 + 1, end)
    BY <1>1, <1>2, <1>3, <1>4
  <2> HIDE DEF end
  <2>2. /\ text \in Seq(Byte) /\ Len(text) = end - 20
        /\ \A i \in 1 .. end - 20 : text[i] = bytes[20 + i]
    BY <1>4, <2>1, Sliced, Zenon
  <2> QED BY <2>1, <2>2
<1>6. /\ Len(CorpID) = body - end
      /\ \A i \in 1 .. body - end : CorpID[i] = bytes[end + i]
  <2>1. body <= Len(bytes)
    BY <1>1, <1>2, <1>4
  <2> HIDE DEF end, body
  <2> QED BY <2>1, <1>1, <1>2, <1>4, Sliced, Zenon
<1>7. /\ head \in Seq(Byte) /\ Len(head) = 16
      /\ \A i \in 1 .. 16 : head[i] = bytes[i]
  <2>1. 0 \in Nat /\ 16 \in Nat /\ 0 <= 16 /\ 16 <= Len(bytes) /\ 16 - 0 = 16
        /\ head = SubSeq(bytes, 0 + 1, 16)
    BY <1>1, <1>2
  <2> HIDE DEF head
  <2>2. /\ head \in Seq(Byte) /\ Len(head) = 16 - 0
        /\ \A i \in 1 .. 16 - 0 : head[i] = bytes[0 + i]
    BY <2>1, Sliced, Zenon
  <2> QED BY <2>1, <2>2
<1>8. /\ whole \in Seq(Byte)
      /\ Len(whole) = body + padding
      /\ \A i \in 1 .. 16 : whole[i] = head[i]
      /\ \A i \in 1 .. 4 : whole[16 + i] = Uint32(length)[i]
      /\ \A i \in 1 .. length : whole[20 + i] = text[i]
      /\ \A i \in 1 .. body - end : whole[end + i] = CorpID[i]
      /\ \A i \in 1 .. padding : whole[body + i] = padding
  <2>1. EndOf(text) = end /\ BodyOf(text) = body /\ body - end = Len(CorpID)
    BY <1>2, <1>4, <1>5, <1>6 DEF EndOf, BodyOf
  <2>2. text \in Texts /\ head \in Heads /\ padding \in 1 .. 32
    BY <1>1, <1>3, <1>5, <1>7 DEF Texts, Heads
  <2>3. /\ whole \in Seq(Byte)
        /\ Len(whole) = BodyOf(text) + padding
        /\ \A i \in 1 .. 16 : whole[i] = head[i]
        /\ \A i \in 1 .. 4 : whole[16 + i] = Uint32(Len(text))[i]
        /\ \A i \in 1 .. Len(text) : whole[20 + i] = text[i]
        /\ \A i \in 1 .. Len(CorpID) : whole[EndOf(text) + i] = CorpID[i]
        /\ \A i \in 1 .. padding : whole[BodyOf(text) + i] = padding
    <3>1. LaidOut(whole, head, text, padding)
      BY <2>2, WholeParts
    <3> HIDE DEF whole, head
    <3> QED BY <3>1, Zenon DEF LaidOut
  <2> HIDE DEF whole, head, end, body
  <2> QED BY <2>1, <2>3, <1>5
<1> HIDE DEF whole, head
<1>9. /\ bytes[17] = whole[17] /\ bytes[18] = whole[18] /\ bytes[19] = whole[19]
       /\ bytes[20] = whole[20]
  BY <1>3, <1>8
<1>10. ASSUME NEW i \in 1 .. Len(bytes) PROVE bytes[i] = whole[i]
  <2>1. CASE i \in 1 .. 16
    BY <2>1, <1>7, <1>8
  <2>2. CASE i \in 17 .. 20
    BY <2>2, <1>9
  <2>3. CASE i \in 21 .. end
    <3> DEFINE k == i - 20
    <3>1. k \in 1 .. length /\ i = 20 + k
      BY <2>3, <1>3
    <3> HIDE DEF k
    <3>2. text[k] = bytes[20 + k] /\ whole[20 + k] = text[k]
      BY <3>1, <1>5, <1>8, Zenon
    <3> QED BY <3>1, <3>2
  <2>4. CASE i \in end + 1 .. body
    <3> DEFINE k == i - end
    <3>1. k \in 1 .. body - end /\ i = end + k
      BY <2>4, <1>2, <1>4
    <3> HIDE DEF k, body, end
    <3>2. CorpID[k] = bytes[end + k] /\ whole[end + k] = CorpID[k]
      BY <3>1, <1>6, <1>8, Zenon
    <3> QED BY <3>1, <3>2
  <2>5. CASE i \in body + 1 .. Len(bytes)
    <3> DEFINE k == i - body
    <3>1. k \in 1 .. padding /\ i = body + k
      BY <2>5, <1>2, <1>4
    <3>2. bytes[i] = padding
      <4>1. Padded(bytes, padding)
        BY <1>1, Zenon
      <4> QED BY <2>5, <4>1 DEF Padded
    <3> HIDE DEF k, body
    <3>3. whole[body + k] = padding
      BY <3>1, <1>8, Zenon
    <3> QED BY <3>1, <3>2, <3>3
  <2>6. body >= 20 /\ end <= body
    BY <1>1, Zenon
  <2> QED BY <2>1, <2>2, <2>3, <2>4, <2>5, <2>6, <1>2, <1>3, <1>4
<1>11. bytes = whole
  BY <1>4, <1>8, <1>10, SeqEqual
<1> QED BY <1>1, <1>5, <1>11 DEF whole, head

-----------------------------------------------------------------------------
\* The handler

\* WeCom's bytes give WeCom's text.
LEMMA GenuineDecrypts == Genuine => Decrypt(request.bytes) = {request.text}
<1> SUFFICES ASSUME Genuine PROVE Decrypt(request.bytes) = {request.text}
  OBVIOUS
<1> DEFINE text == request.text
           head == Repeat(7, 16)
           front == head \o Layout(text)
           padding == PaddingOf(Len(front))
           whole == Whole(head, text, padding)
<1>1. text \in Texts /\ request.bytes = Encrypted(text)
  BY DEF Genuine, Texts, Byte
<1>2. head \in Heads
  <2>1. 7 \in Byte /\ 16 \in Nat
    BY DEF Byte
  <2>2. head \in Seq(Byte) /\ Len(head) = 16
    BY <2>1, Repeated
  <2> QED BY <2>2 DEF Heads
<1>3. request.bytes = whole
  BY <1>1 DEF Encrypted, Pad, Whole
<1> HIDE DEF text, head
<1>4. /\ Layout(text) \in Seq(Byte) /\ head \in Seq(Byte) /\ Len(head) = 16
      /\ Len(Layout(text)) = 4 + Len(text) + Len(CorpID)
      /\ Len(text) \in Nat /\ Len(CorpID) \in Nat
  BY <1>1, <1>2, LayoutParts, CorpIDAssumption DEF Heads, Texts
<1>5. Len(front) = Len(head) + Len(Layout(text))
  BY <1>4, Concatenated, Zenon
<1>6. Len(front) = BodyOf(text) /\ Len(front) \in Nat
  BY <1>4, <1>5 DEF BodyOf, EndOf
<1> HIDE DEF front
<1>7. padding \in 1 .. 32 /\ (Len(front) + padding) % 16 = 0
  BY <1>6, PaddingFits
<1> HIDE DEF padding
<1>8. LaidOut(whole, head, text, padding)
  BY <1>1, <1>2, <1>7, WholeParts
<1>9. Aligned(whole)
  BY <1>6, <1>7, <1>8 DEF LaidOut, Aligned, AESBlock
<1>10. Decrypt(whole) = {text}
  BY <1>1, <1>2, <1>7, <1>9, DecryptGivesBack
<1> QED BY <1>3, <1>10 DEF text

Places   == {"verify", "decrypt", "parse", "done"}
Handlers == [at : Places, status : Nat, plain : Seq(Byte), synced : BOOLEAN]

\* An answer of 200 has a text behind it that was decrypted from a signed request,
\* and no answer of another kind is followed by a sync.
Justified ==
  /\ HandlerAt("verify") \/ HandlerAt("decrypt") => handler.status = 0
  /\ HandlerAt("decrypt") => request.signed /\ request.method \in {"GET", "POST"}
  /\ HandlerAt("parse") => handler.status = 200 /\ request.method = "POST"
  /\ handler.status = 200 => request.signed /\ handler.plain \in Decrypt(request.bytes)
  /\ handler.synced => handler.status = 200

\* No request of WeCom is turned away, and those that say so are passed on.
Honoured ==
  request.genuine =>
    /\ Genuine
    /\ HandlerAt("done") =>
         /\ handler.status = 200
         /\ request.method = "POST" => handler.synced = Complete(request.fields)

CallbackInv ==
  /\ request.bytes \in Seq(Byte)
  /\ handler \in Handlers
  /\ Justified
  /\ Honoured

\* The request stays, so what is true of WeCom's requests stays, too.
LEMMA RequestStays ==
  ASSUME CallbackInv, request' = request, handler' \in Handlers, Justified',
         request.genuine /\ handler'.at = "done" =>
           /\ handler'.status = 200
           /\ request.method = "POST" => handler'.synced = Complete(request.fields)
  PROVE  CallbackInv'
<1>1. request'.bytes \in Seq(Byte)
  BY DEF CallbackInv
<1>2. (request.genuine => Genuine)'
  BY DEF CallbackInv, Honoured, Genuine
<1>3. Honoured'
  BY <1>2 DEF Honoured, HandlerAt
<1> QED BY <1>1, <1>3 DEF CallbackInv

LEMMA AnswerMoves ==
  ASSUME handler \in Handlers, NEW s \in Nat, NEW at \in Places, Answer(s, at)
  PROVE  /\ handler' \in Handlers
         /\ handler'.at = at /\ handler'.status = s
         /\ handler'.plain = handler.plain /\ handler'.synced = handler.synced
BY DEF Handlers, Answer

LEMMA TextMoves ==
  ASSUME handler \in Handlers, NEW s \in Nat, NEW at \in Places, NEW text \in Seq(Byte),
         handler' = [handler EXCEPT !.status = s, !.plain = text, !.at = at]
  PROVE  /\ handler' \in Handlers
         /\ handler'.at = at /\ handler'.status = s
         /\ handler'.plain = text /\ handler'.synced = handler.synced
BY DEF Handlers

\* Each stage of the handler keeps CallbackInv.
LEMMA StageKeepsCallbackInv == CallbackInv /\ CallbackNext => CallbackInv'
<1> SUFFICES ASSUME CallbackInv, CallbackNext PROVE CallbackInv'
  OBVIOUS
<1>1. handler \in Handlers /\ Justified /\ (request.genuine => Genuine)
  BY DEF CallbackInv, Honoured
<1>2. CASE Verify
  <2>1. request' = request /\ handler.at = "verify"
    BY <1>2 DEF Verify, HandlerAt
  <2>2. handler.status = 0 /\ ~handler.synced
    BY <1>1, <2>1 DEF Justified, HandlerAt
  <2>3. CASE /\ handler' = [handler EXCEPT !.at = "decrypt"] /\ request.signed
             /\ request.method \in {"GET", "POST"}
    <3>1. /\ handler' \in Handlers /\ handler'.at = "decrypt"
          /\ handler'.status = 0 /\ ~handler'.synced
      BY <1>1, <2>2, <2>3 DEF Handlers, Places
    <3>2. Justified'
      BY <2>1, <2>3, <3>1 DEF Justified, HandlerAt
    <3> QED BY <2>1, <3>1, <3>2, RequestStays DEF HandlerAt
  <2>4. ASSUME NEW s \in Nat, s # 200, Answer(s, "done"), ~request.genuine
        PROVE  CallbackInv'
    <3>1. /\ handler' \in Handlers /\ handler'.at = "done"
          /\ handler'.status = s /\ ~handler'.synced
      <4>1. s \in Nat /\ "done" \in Places
        BY DEF Places
      <4>2. /\ handler' \in Handlers /\ handler'.at = "done" /\ handler'.status = s
            /\ handler'.plain = handler.plain /\ handler'.synced = handler.synced
        BY <1>1, <2>4, <4>1, AnswerMoves
      <4> QED BY <2>2, <4>2
    <3>2. Justified'
      BY <2>1, <2>4, <3>1 DEF Justified, HandlerAt
    <3> QED BY <2>1, <2>4, <3>1, <3>2, RequestStays
  <2> QED BY <1>1, <1>2, <2>3, <2>4 DEF Verify, Genuine
<1>3. CASE DecryptPayload
  <2>1. request' = request /\ handler.at = "decrypt"
    BY <1>3 DEF DecryptPayload, HandlerAt
  <2>2. /\ handler.status = 0 /\ ~handler.synced
        /\ request.signed /\ request.method \in {"GET", "POST"}
    BY <1>1, <2>1 DEF Justified, HandlerAt
  <2>3. CASE Decrypt(request.bytes) = {} /\ Answer(400, "done")
    <3>1. ~request.genuine
      BY <1>1, <2>3, GenuineDecrypts
    <3>2. /\ handler' \in Handlers /\ handler'.at = "done"
          /\ handler'.status = 400 /\ ~handler'.synced
      <4> DEFINE s == 400
      <4>1. s \in Nat /\ "done" \in Places
        BY DEF Places
      <4>2. Answer(s, "done")
        BY <2>3
      <4>3. s = 400
        OBVIOUS
      <4> HIDE DEF s
      <4>4. /\ handler' \in Handlers /\ handler'.at = "done" /\ handler'.status = s
            /\ handler'.synced = handler.synced
        BY <1>1, <4>1, <4>2, AnswerMoves, Zenon
      <4> QED BY <2>2, <4>3, <4>4
    <3>3. Justified'
      BY <2>1, <3>2 DEF Justified, HandlerAt
    <3> QED BY <2>1, <3>1, <3>2, <3>3, RequestStays
  <2>4. ASSUME NEW text \in Decrypt(request.bytes),
               handler' = [handler EXCEPT !.status = 200, !.plain = text,
                             !.at = IF request.method = "GET" THEN "done" ELSE "parse"]
        PROVE  CallbackInv'
    <3>1. text \in Seq(Byte)
      BY DecryptIsExact DEF CallbackInv
    <3>2. /\ handler' \in Handlers
          /\ handler'.at = IF request.method = "GET" THEN "done" ELSE "parse"
          /\ handler'.status = 200 /\ ~handler'.synced /\ handler'.plain = text
      <4> DEFINE s == 200
                 at == IF request.method = "GET" THEN "done" ELSE "parse"
      <4>1. s \in Nat /\ at \in Places
        BY DEF Places
      <4>2. handler' = [handler EXCEPT !.status = s, !.plain = text, !.at = at]
        BY <2>4
      <4>3. s = 200
        OBVIOUS
      <4> HIDE DEF s, at
      <4>4. /\ handler' \in Handlers /\ handler'.at = at /\ handler'.status = s
            /\ handler'.plain = text /\ handler'.synced = handler.synced
        BY <1>1, <3>1, <4>1, <4>2, TextMoves, Zenon
      <4> QED BY <2>2, <4>3, <4>4 DEF at
    <3>3. Justified'
      BY <2>1, <2>2, <3>2 DEF Justified, HandlerAt
    <3> QED BY <2>1, <2>2, <3>2, <3>3, RequestStays DEF HandlerAt
  <2> QED BY <1>3, <2>3, <2>4 DEF DecryptPayload
<1>4. CASE ParseCallback
  <2>1. /\ request' = request /\ handler.at = "parse"
        /\ handler' = [handler EXCEPT !.at = "done", !.synced = Complete(Fields(handler.plain))]
    BY <1>4 DEF ParseCallback, HandlerAt
  <2>2. /\ handler.status = 200 /\ request.signed
        /\ handler.plain \in Decrypt(request.bytes)
    BY <1>1, <2>1 DEF Justified, HandlerAt
  <2>3. request.genuine => Fields(handler.plain) = request.fields
    BY <1>1, <2>2, GenuineDecrypts DEF Fields
  <2>4. Complete(Fields(handler.plain)) \in BOOLEAN
    BY DEF Complete
  <2>5. /\ handler' \in Handlers /\ handler'.at = "done" /\ handler'.status = 200
        /\ handler'.plain = handler.plain /\ handler'.synced = Complete(Fields(handler.plain))
    BY <1>1, <2>1, <2>2, <2>4 DEF Handlers, Places
  <2>6. Justified'
    BY <2>1, <2>2, <2>5 DEF Justified, HandlerAt
  <2> QED BY <2>1, <2>3, <2>5, <2>6, RequestStays
<1> QED BY <1>2, <1>3, <1>4 DEF CallbackNext

LEMMA CallbackInvHolds == CallbackSpec => []CallbackInv
<1>1. CallbackInit => CallbackInv
  BY DEF CallbackInit, CallbackInv, Justified, Honoured, HandlerAt, Handling, Handlers, Places, Byte
<1>2. CallbackInv /\ UNCHANGED callbackVars => CallbackInv'
  BY DEF callbackVars, CallbackInv, Justified, Honoured, HandlerAt, Genuine
<1> QED BY <1>1, <1>2, StageKeepsCallbackInv, PTL DEF CallbackSpec

-----------------------------------------------------------------------------

\* What is answered with 200 or passed on was signed, and is laid out as WeCom does
\* to the last byte, whatever bytes anybody sends (decryptWecomPayload).
THEOREM OnlyWhatWecomWrote == CallbackSpec => []OnlyWellFormed
<1>1. CallbackInv => OnlyWellFormed
  <2> SUFFICES ASSUME CallbackInv, handler.status = 200 \/ handler.synced
               PROVE  request.signed /\ \E padding \in 1 .. 32 :
                        request.bytes = Whole(SubSeq(request.bytes, 1, 16), handler.plain, padding)
    BY DEF OnlyWellFormed, Whole
  <2>1. request.signed /\ handler.plain \in Decrypt(request.bytes)
    BY DEF CallbackInv, Justified
  <2>2. request.bytes \in Seq(Byte)
    BY DEF CallbackInv
  <2> DEFINE text == handler.plain
  <2>3. text \in Decrypt(request.bytes)
    BY <2>1
  <2> HIDE DEF text
  <2>4. \E padding \in 1 .. 32 :
          request.bytes = Whole(SubSeq(request.bytes, 1, 16), text, padding)
    BY <2>2, <2>3, DecryptIsExact, Zenon
  <2> QED BY <2>1, <2>4 DEF text
<1> QED BY <1>1, CallbackInvHolds, PTL

\* No text of WeCom is turned away, whatever its length and that of the corporation
\* are, and what it says is done (callbackServer).
THEOREM NoneTurnedAway == CallbackSpec => []GenuineIsHandled
<1>1. CallbackInv => GenuineIsHandled
  <2> SUFFICES ASSUME CallbackInv, HandlerAt("done"), request.genuine
               PROVE  /\ handler.status = 200
                      /\ handler.plain = request.text
                      /\ request.method = "POST" => handler.synced = Complete(request.fields)
    BY DEF GenuineIsHandled
  <2>1. Genuine /\ handler.status = 200
        /\ (request.method = "POST" => handler.synced = Complete(request.fields))
    BY DEF CallbackInv, Honoured
  <2>2. handler.plain \in Decrypt(request.bytes)
    BY <2>1 DEF CallbackInv, Justified
  <2> QED BY <2>1, <2>2, GenuineDecrypts
<1> QED BY <1>1, CallbackInvHolds, PTL

=============================================================================
