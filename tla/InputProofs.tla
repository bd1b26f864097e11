----------------------------- MODULE InputProofs -----------------------------
(***************************************************************************)
(* Proofs about three readers of the program's inputs: FileIntake,         *)
(* Configuration and RecordQuery, for any content, name, environment and   *)
(* list of records, within any limits.                                     *)
(***************************************************************************)
EXTENDS FileIntake, Configuration, RecordQuery, SequenceTheorems, FiniteSetTheorems, TLAPS

-----------------------------------------------------------------------------
\* Ranks: in a finite set, R[i] are the elements before i, and their number its rank.

TotalOrder(S, R) ==
  /\ IsFiniteSet(S)
  /\ R \in [S -> SUBSET S]
  /\ \A i \in S : i \notin R[i]
  /\ \A i, j \in S : i = j \/ i \in R[j] \/ j \in R[i]
  /\ \A i, j, k \in S : i \in R[j] /\ j \in R[k] => i \in R[k]

LEMMA RanksGrow ==
  ASSUME NEW S, NEW R, TotalOrder(S, R)
  PROVE  /\ \A i \in S : IsFiniteSet(R[i]) /\ Cardinality(R[i]) \in 0 .. Cardinality(S) - 1
         /\ \A i, j \in S : i \in R[j] => Cardinality(R[i]) < Cardinality(R[j])
<1>1. ASSUME NEW i \in S
      PROVE  R[i] \in SUBSET S /\ IsFiniteSet(R[i]) /\ Cardinality(R[i]) \in Nat
  <2>1. R[i] \in SUBSET S
    BY DEF TotalOrder
  <2> QED BY <2>1, FS_Subset, FS_CardinalityType DEF TotalOrder
<1>2. Cardinality(S) \in Nat
  BY FS_CardinalityType DEF TotalOrder
<1>3. ASSUME NEW i \in S PROVE Cardinality(R[i]) < Cardinality(S)
  <2>1. R[i] # S
    BY DEF TotalOrder
  <2> QED BY <1>1, <1>2, <2>1, FS_Subset DEF TotalOrder
<1>4. ASSUME NEW i \in S, NEW j \in S, i \in R[j]
      PROVE  Cardinality(R[i]) < Cardinality(R[j])
  <2>1. R[i] \in SUBSET R[j] /\ R[i] # R[j]
    BY <1>1, <1>4 DEF TotalOrder
  <2> QED BY <1>1, <2>1, FS_Subset
<1> QED BY <1>1, <1>2, <1>3, <1>4

\* There is an element of every rank.
Ranked(S, R) == \A k \in 0 .. Cardinality(S) - 1 : \E i \in S : Cardinality(R[i]) = k

LEMMA EveryRank ==
  ASSUME NEW S, NEW R, TotalOrder(S, R)
  PROVE  Ranked(S, R)
<1> DEFINE n == Cardinality(S)
           T == 0 .. n - 1
           f == [i \in S |-> Cardinality(R[i])]
<1>1. IsFiniteSet(S) /\ n \in Nat
  BY FS_CardinalityType DEF TotalOrder
<1>2. IsFiniteSet(T) /\ Cardinality(T) = n
  BY <1>1, FS_Interval
<1>3. f \in [S -> T]
  BY RanksGrow
<1>4. \A i, j \in S : f[i] = f[j] => i = j
  <2> SUFFICES ASSUME NEW i \in S, NEW j \in S, f[i] = f[j], i # j PROVE FALSE
    OBVIOUS
  <2>1. i \in R[j] \/ j \in R[i]
    BY DEF TotalOrder
  <2>2. Cardinality(R[i]) \in Int /\ Cardinality(R[j]) \in Int
    BY <1>1, RanksGrow
  <2> QED BY <2>1, <2>2, RanksGrow
<1>5. f \in Injection(S, T)
  BY <1>3, <1>4 DEF Injection, IsInjective
<1>6. f \in Surjection(S, T)
  BY <1>1, <1>2, <1>5, FS_Injection
<1> QED BY <1>6 DEF Surjection, Ranked

\* The rank decides which of two elements is before the other.
LEMMA RankDecides ==
  ASSUME NEW S, NEW R, TotalOrder(S, R), NEW i \in S, NEW j \in S
  PROVE  /\ Cardinality(R[i]) < Cardinality(R[j]) => i \in R[j]
         /\ Cardinality(R[i]) = Cardinality(R[j]) => i = j
<1>1. Cardinality(R[i]) \in Int /\ Cardinality(R[j]) \in Int
  BY RanksGrow, FS_CardinalityType DEF TotalOrder
<1>2. i = j \/ i \in R[j] \/ j \in R[i]
  BY DEF TotalOrder
<1> QED BY <1>1, <1>2, RanksGrow

\* Nothing is before the first.
LEMMA FirstExists ==
  ASSUME NEW S, NEW R, TotalOrder(S, R), S # {}
  PROVE  \E i \in S : R[i] = {}
<1>1. Cardinality(S) \in Nat /\ Cardinality(S) # 0
  BY FS_CardinalityType, FS_EmptySet DEF TotalOrder
<1>2. 0 \in 0 .. Cardinality(S) - 1
  BY <1>1
<1>3. PICK i \in S : Cardinality(R[i]) = 0
  BY <1>2, EveryRank DEF Ranked
<1> QED BY <1>3, RanksGrow, FS_EmptySet

\* The order of positions.
LEMMA PositionsInOrder ==
  ASSUME NEW n \in Nat, NEW S \in SUBSET (1 .. n)
  PROVE  /\ IsFiniteSet(S) /\ Cardinality(S) \in Nat
         /\ TotalOrder(S, [i \in S |-> {j \in S : j < i}])
<1>1. IsFiniteSet(S) /\ Cardinality(S) \in Nat
  <2>1. IsFiniteSet(1 .. n)
    BY FS_Interval
  <2> QED BY <2>1, FS_Subset, FS_CardinalityType
<1> DEFINE R == [i \in S |-> {j \in S : j < i}]
<1>2. R \in [S -> SUBSET S]
  OBVIOUS
<1>3. \A i, j \in S : i \in Nat /\ (j \in R[i] <=> j < i)
  OBVIOUS
<1> HIDE DEF R
<1>4. TotalOrder(S, R)
  BY <1>1, <1>2, <1>3 DEF TotalOrder
<1> QED BY <1>1, <1>4 DEF R

\* The first of some positions.
LEMMA Least ==
  ASSUME NEW n \in Nat, NEW S \in SUBSET (1 .. n), S # {}
  PROVE  \E i \in S : \A j \in S : i <= j
<1> DEFINE R == [i \in S |-> {j \in S : j < i}]
<1>1. TotalOrder(S, R)
  BY PositionsInOrder
<1>2. \A i, j \in S : i \in Nat /\ (j \in R[i] <=> j < i)
  OBVIOUS
<1> HIDE DEF R
<1>3. PICK i \in S : R[i] = {}
  BY <1>1, FirstExists
<1> QED BY <1>2, <1>3

LEMMA PositionOfRank ==
  ASSUME NEW n \in Nat, NEW S \in SUBSET (1 .. n)
  PROVE  \A k \in 1 .. Cardinality(S) : \E i \in S : Cardinality({j \in S : j < i}) = k - 1
<1> DEFINE R == [i \in S |-> {j \in S : j < i}]
<1>1. TotalOrder(S, R) /\ Cardinality(S) \in Nat
  BY PositionsInOrder
<1>2. \A i \in S : R[i] = {j \in S : j < i}
  BY Zenon
<1> HIDE DEF R
<1>3. Ranked(S, R)
  BY <1>1, EveryRank
<1>4. ASSUME NEW k \in 1 .. Cardinality(S)
      PROVE  \E i \in S : Cardinality({j \in S : j < i}) = k - 1
  <2>1. k - 1 \in 0 .. Cardinality(S) - 1
    BY <1>1
  <2> QED BY <1>2, <1>3, <2>1 DEF Ranked
<1> QED BY <1>4

-----------------------------------------------------------------------------
\* Names

\* All strings, for provers that do not know of a literal that it is one.
Character == STRING \cup {"_", Dot, "txt", "message", "image"} \cup Media

LEMMA Suffix ==
  ASSUME NEW name \in Seq(Character), NEW i \in 1 .. Len(name)
  PROVE  /\ From(name, i) \in Seq(Character)
         /\ Len(From(name, i)) = Len(name) - i + 1
         /\ \A k \in 1 .. Len(name) - i + 1 : From(name, i)[k] = name[i + k - 1]
<1>1. Len(name) \in Nat /\ \A k \in i .. Len(name) : name[k] \in Character
  BY LenProperties, ElementOfSeq
<1> DEFINE n == Len(name)
           t == SubSeq(name, i, n)
<1>2. n \in Int /\ i \in Int /\ i <= n
  BY <1>1
<1>3. \A k \in i .. n : name[k] \in Character
  BY <1>1
<1>4. /\ t \in Seq(Character)
      /\ Len(t) = IF i <= n THEN n - i + 1 ELSE 0
      /\ \A k \in 1 .. n - i + 1 : t[k] = name[i + k - 1]
  <2> HIDE DEF n
  <2> QED BY <1>2, <1>3, SubSeqProperties
<1> QED BY <1>2, <1>4 DEF From

\* The same characters are the same name.
LEMMA SameName ==
  ASSUME NEW m \in Seq(Character), NEW n \in Seq(Character), Len(m) = Len(n),
         \A k \in 1 .. Len(m) : m[k] = n[k]
  PROVE  m = n
BY LenProperties

LEMMA ReplacedIsName ==
  ASSUME NEW name \in Seq(Character)
  PROVE  /\ Replaced(name) \in Seq(Character)
         /\ Len(Replaced(name)) = Len(name)
         /\ \A k \in 1 .. Len(name) :
              /\ Replaced(name)[k] \notin Invalid
              /\ name[k] \notin Invalid => Replaced(name)[k] = name[k]
<1>1. Len(name) \in Nat /\ DOMAIN name = 1 .. Len(name) /\ name \in [1 .. Len(name) -> Character]
  BY LenProperties
<1>2. Replaced(name) \in [1 .. Len(name) -> Character]
  <2> DEFINE e(k) == IF name[k] \in Invalid THEN "_" ELSE name[k]
  <2>1. \A k \in 1 .. Len(name) : e(k) \in Character
    BY <1>1 DEF Character
  <2>2. Replaced(name) = [k \in 1 .. Len(name) |-> e(k)]
    BY <1>1 DEF Replaced
  <2> HIDE DEF e
  <2> QED BY <2>1, <2>2
<1>3. Replaced(name) \in Seq(Character) /\ Len(Replaced(name)) = Len(name)
  BY <1>1, <1>2
<1> QED BY <1>1, <1>3 DEF Replaced, Invalid

\* What a name is after sanitizeFilename.
Permitted(name) ==
  /\ name \in Seq(Character) /\ Len(name) \in 1 .. MaxName
  /\ name[1] # Dot
  /\ \A k \in 1 .. Len(name) : name[k] \notin Invalid

LEMMA TrimmedIsName ==
  ASSUME NEW name \in Seq(Character)
  PROVE  \/ Trimmed(name) = <<>> /\ \A k \in 1 .. Len(name) : name[k] = Dot
         \/ \E i \in 1 .. Len(name) :
              /\ name[i] # Dot
              /\ Trimmed(name) = From(name, i)
              /\ name[1] # Dot => i = 1
<1> DEFINE rest == {i \in DOMAIN name : name[i] # Dot}
           first == CHOOSE i \in rest : \A j \in rest : i <= j
<1>1. Len(name) \in Nat /\ DOMAIN name = 1 .. Len(name)
  BY LenProperties
<1>2. CASE rest = {}
  BY <1>1, <1>2 DEF Trimmed
<1>3. CASE rest # {}
  <2>1. \E i \in rest : \A j \in rest : i <= j
    BY <1>1, <1>3, Least
  <2>2. first \in rest /\ \A j \in rest : first <= j
    <3> HIDE DEF rest
    <3> QED BY <2>1
  <2>3. Trimmed(name) = From(name, first)
    BY <1>3 DEF Trimmed
  <2>4. first \in 1 .. Len(name) /\ name[first] # Dot
    BY <1>1, <2>2
  <2>5. name[1] # Dot => first = 1
    <3> SUFFICES ASSUME name[1] # Dot PROVE first = 1
      OBVIOUS
    <3>1. 1 \in rest
      BY <1>1, <2>4
    <3> HIDE DEF first
    <3> QED BY <2>2, <2>4, <3>1
  <2> HIDE DEF first
  <2> QED BY <2>3, <2>4, <2>5
<1> QED BY <1>2, <1>3

LEMMA SanitizedIsPermitted ==
  ASSUME NEW name \in Seq(Character), NEW n \in Sanitized(name)
  PROVE  Permitted(n)
<1> DEFINE r == Replaced(name)
<1>1. /\ r \in Seq(Character) /\ Len(r) = Len(name) /\ Len(r) \in Nat
      /\ \A k \in 1 .. Len(r) : r[k] \notin Invalid
  BY ReplacedIsName, LenProperties
<1>2. n = Trimmed(r) /\ Len(n) \in 1 .. MaxName
  BY DEF Sanitized
<1> HIDE DEF r
<1>3. n # <<>>
  BY <1>2
<1>4. PICK i \in 1 .. Len(r) : r[i] # Dot /\ n = From(r, i)
  BY <1>1, <1>2, <1>3, TrimmedIsName
<1>5. /\ n \in Seq(Character) /\ Len(n) = Len(r) - i + 1
      /\ \A k \in 1 .. Len(r) - i + 1 : n[k] = r[i + k - 1]
  BY <1>1, <1>4, Suffix
<1>6. n[1] # Dot
  BY <1>1, <1>4, <1>5
<1>7. ASSUME NEW k \in 1 .. Len(n) PROVE n[k] \notin Invalid
  <2>1. i + k - 1 \in 1 .. Len(r) /\ k \in 1 .. Len(r) - i + 1
    BY <1>1, <1>5
  <2> QED BY <1>1, <1>5, <2>1
<1> QED BY <1>2, <1>5, <1>6, <1>7 DEF Permitted

\* To clean a permitted name is to leave it as it is.
LEMMA PermittedStays ==
  ASSUME NEW name, Permitted(name)
  PROVE  Sanitized(name) = {name}
<1> DEFINE r == Replaced(name)
<1>1. name \in Seq(Character) /\ Len(name) \in Nat /\ 1 \in 1 .. Len(name)
  BY LenProperties DEF Permitted
<1>2. /\ r \in Seq(Character) /\ Len(r) = Len(name)
      /\ \A k \in 1 .. Len(name) : r[k] = name[k]
  BY <1>1, ReplacedIsName DEF Permitted
<1> HIDE DEF r
<1>3. r = name
  BY <1>1, <1>2, SameName
<1>4. From(name, 1) = name
  <2>1. /\ From(name, 1) \in Seq(Character) /\ Len(From(name, 1)) = Len(name)
        /\ \A k \in 1 .. Len(name) : From(name, 1)[k] = name[k]
    BY <1>1, Suffix
  <2> QED BY <1>1, <2>1, SameName
<1>5. Trimmed(name) = name
  BY <1>1, <1>4, TrimmedIsName DEF Permitted
<1> QED BY <1>3, <1>5 DEF Sanitized, Permitted, r

LEMMA JoinedIsName ==
  ASSUME NEW text \in Seq(Character)
  PROVE  Joined(text) \in Seq(Character)
<1> DEFINE Keep(i) == \/ text[i] # Blank
                      \/ /\ i > 1 /\ text[i - 1] # Blank
                         /\ \E j \in i .. Len(text) : text[j] # Blank
           kept    == {i \in DOMAIN text : Keep(i)}
           Kept(k) == CHOOSE i \in kept : Cardinality({j \in kept : j < i}) = k - 1
           n       == Cardinality(kept)
<1>1. /\ Len(text) \in Nat /\ DOMAIN text = 1 .. Len(text)
      /\ \A i \in 1 .. Len(text) : text[i] \in Character
  BY LenProperties, ElementOfSeq
<1>2. kept \in SUBSET (1 .. Len(text))
  BY <1>1
<1>3. Joined(text) = [k \in 1 .. n |-> text[Kept(k)]]
  BY Zenon DEF Joined
<1> HIDE DEF kept
<1>4. n \in Nat
  BY <1>1, <1>2, PositionsInOrder
<1>5. ASSUME NEW k \in 1 .. n PROVE text[Kept(k)] \in Character
  <2>1. \E i \in kept : Cardinality({j \in kept : j < i}) = k - 1
    BY <1>1, <1>2, PositionOfRank
  <2>2. Kept(k) \in kept
    BY <2>1, Zenon
  <2> QED BY <1>1, <1>2, <2>2
<1> HIDE DEF Kept, n
<1>6. [k \in 1 .. n |-> text[Kept(k)]] \in Seq(Character)
  BY <1>4, <1>5
<1> QED BY <1>3, <1>6

LEMMA ExtOfText ==
  ASSUME NEW name \in Seq(Character), IsText(name)
  PROVE  Ext(name) = "txt"
<1>1. Len(name) \in Nat /\ Len(name) > 2
  BY LenProperties DEF IsText
<1> DEFINE i == Len(name) - 1
           t == From(name, i)
<1>2. i \in 1 .. Len(name) /\ Len(name) - i + 1 = 2
  BY <1>1
<1>3. \A k \in 1 .. Len(name) - i + 1 : t[k] = name[i + k - 1]
  <2> HIDE DEF i
  <2> QED BY <1>2, Suffix
<1>4. t[1] = name[i] /\ t[2] = name[i + 1]
  <2> HIDE DEF t
  <2> QED BY <1>1, <1>3
<1>5. t = <<Dot, "txt">>
  BY DEF IsText
<1>6. name[i] = Dot /\ name[i + 1] = "txt" /\ i + 1 = Len(name)
  <2> HIDE DEF t
  <2> QED BY <1>1, <1>4, <1>5
<1> QED BY <1>1, <1>6 DEF Ext, Lower

LEMMA TailIsName ==
  /\ <<Dot, "txt">> \in Seq(Character) /\ Len(<<Dot, "txt">>) = 2
  /\ <<Dot, "txt">>[1] = Dot /\ <<Dot, "txt">>[2] = "txt"
BY DEF Character

LEMMA MessageIsText ==
  Permitted(MessageTxt) /\ IsText(MessageTxt)
<1> DEFINE m == MessageTxt
<1>1. /\ m \in Seq(Character) /\ Len(m) = 3
      /\ m[1] = "message" /\ m[2] = Dot /\ m[3] = "txt"
  BY DEF MessageTxt, Character
<1> HIDE DEF m
<1>2. Permitted(m)
  BY <1>1, LimitsAssumption DEF Permitted, Dot, Invalid
<1>3. From(m, 2) = <<Dot, "txt">>
  <2> DEFINE i == 2
             t == <<Dot, "txt">>
  <2>1. i \in 1 .. Len(m) /\ Len(m) - i + 1 = 2
    BY <1>1
  <2> HIDE DEF i, t
  <2>2. /\ From(m, i) \in Seq(Character) /\ Len(From(m, i)) = Len(m) - i + 1
        /\ \A k \in 1 .. Len(m) - i + 1 : From(m, i)[k] = m[i + k - 1]
    BY <1>1, <2>1, Suffix
  <2>3. Len(From(m, i)) = 2 /\ From(m, i)[1] = Dot /\ From(m, i)[2] = "txt"
    BY <1>1, <2>1, <2>2 DEF i
  <2>4. t \in Seq(Character) /\ Len(t) = 2 /\ t[1] = Dot /\ t[2] = "txt"
    BY TailIsName DEF t
  <2>5. From(m, i) = t
    BY <2>2, <2>3, <2>4, SameName
  <2> QED BY <2>5 DEF i, t
<1>4. IsText(m)
  BY <1>1, <1>3 DEF IsText
<1> QED BY <1>2, <1>4 DEF m

LEMMA TextHasName ==
  ASSUME NEW text \in Seq(Character)
  PROVE  Permitted(TextFilename(text)) /\ Ext(TextFilename(text)) = "txt"
<1> DEFINE joined  == Joined(text)
           last    == IF Len(joined) > Preview THEN Preview ELSE Len(joined)
           preview == SubSeq(joined, 1, last)
           tail    == <<Dot, "txt">>
           names   == {n \in Sanitized(preview \o tail) : IsText(n)}
<1>1. TextFilename(text) = IF preview = <<>> \/ names = {} THEN MessageTxt
                           ELSE CHOOSE n \in names : TRUE
  BY Zenon DEF TextFilename
<1>2. joined \in Seq(Character)
  BY JoinedIsName
<1> HIDE DEF joined
<1>3. Len(joined) \in Nat /\ \A i \in 1 .. Len(joined) : joined[i] \in Character
  BY <1>2, LenProperties, ElementOfSeq
<1>4. last \in Int /\ \A i \in 1 .. last : i \in 1 .. Len(joined)
  BY <1>3, LimitsAssumption
<1> HIDE DEF last
<1>5. preview \in Seq(Character)
  <2>1. 1 \in Int /\ \A i \in 1 .. last : joined[i] \in Character
    BY <1>3, <1>4
  <2> QED BY <1>4, <2>1, SubSeqProperties
<1>6. tail \in Seq(Character)
  BY TailIsName
<1> HIDE DEF preview, tail
<1>7. preview \o tail \in Seq(Character)
  BY <1>5, <1>6, ConcatProperties
<1>8. \A n \in names : Permitted(n) /\ IsText(n)
  BY <1>7, SanitizedIsPermitted
<1> HIDE DEF names
<1>9. Permitted(TextFilename(text)) /\ IsText(TextFilename(text))
  BY <1>1, <1>8, MessageIsText
<1> QED BY <1>9, ExtOfText DEF Permitted

-----------------------------------------------------------------------------
\* Contents

Contents == [kind : {"text", "file", "image"}, text : Seq(Character), name : Seq(Character),
             content : STRING, size : Nat, pages : Nat]

Types   == {"none"} \cup Texts \cup Office \cup Media \cup Zips
Intakes == [at     : {"load", "validate", "accepted", "rejected"},
            reason : {"none", "name", "type", "mime", "size", "content", "pages"},
            name   : Seq(Character), mime : Types, size : Nat]

\* A content that is not rejected has a name to be seen, is whole, and is of the type
\* the name says; a text is rejected only for what it contains.
Named ==
  /\ Permitted(intake.name) /\ intake.size = pending.size
  /\ intake.mime = MimeOf(Ext(intake.name)) /\ intake.mime # "none"
  /\ pending.kind = "text" => Ext(intake.name) = "txt"

Checked ==
  /\ intake.size \in 1 .. MaxFileBytes /\ HeaderMatches(Ext(intake.name), pending.content)
  /\ Counted(Ext(intake.name)) => pending.pages <= MaxPages

IntakeInv ==
  /\ pending \in Contents /\ intake \in Intakes
  /\ intake.at \in {"load", "validate"} => intake.reason = "none"
  /\ intake.at \in {"validate", "accepted"} => Named
  /\ intake.at = "accepted" => Checked
  /\ TextIsNamed

LEMMA TypesOfNames ==
  /\ \A ext : MimeOf(ext) \in Types
  /\ \A ext \in Media : MimeOf(ext) = ext /\ ext # "none" /\ ext \in Types
  /\ MimeOf("jpeg") = "jpg" /\ MimeOf("txt") = "txt" /\ "txt" \in Types
  /\ \A content : HeaderMatches("txt", content) <=> content \in NulFree
BY DEF MimeOf, Types, Media, Texts, Office, Zips, Jpegs, HeaderMatches

LEMMA ImageHasName ==
  ASSUME NEW ext \in Media
  PROVE  Permitted(<<"image", Dot, ext>>) /\ Ext(<<"image", Dot, ext>>) = ext
<1> DEFINE m == <<"image", Dot, ext>>
<1>1. /\ m \in Seq(Character) /\ Len(m) = 3
      /\ m[1] = "image" /\ m[2] = Dot /\ m[3] = ext
  <2>1. "image" \in Character /\ Dot \in Character /\ ext \in Character
    BY DEF Character
  <2> QED BY <2>1
<1> HIDE DEF m
<1>2. "image" # Dot /\ "image" \notin Invalid /\ Dot \notin Invalid /\ ext \notin Invalid
      /\ ext # "PDF"
  BY DEF Dot, Invalid, Media
<1>3. Permitted(m)
  BY <1>1, <1>2, LimitsAssumption DEF Permitted
<1>4. Ext(m) = ext
  BY <1>1, <1>2 DEF Ext, Lower
<1> QED BY <1>3, <1>4 DEF m

LEMMA RejectMoves ==
  ASSUME IntakeInv, NEW reason \in {"name", "type", "mime", "size", "content", "pages"},
         Reject(reason), UNCHANGED pending,
         pending.kind = "text" =>
           \/ pending.content \notin NulFree
           \/ pending.size \notin 1 .. MaxFileBytes
           \/ pending.pages > MaxPages
  PROVE  IntakeInv' /\ intake'.name = intake.name /\ intake'.reason = reason
<1>1. /\ intake' \in Intakes /\ intake'.at = "rejected"
      /\ intake'.reason = reason /\ intake'.name = intake.name
  BY DEF Reject, IntakeInv, Intakes
<1> QED BY <1>1 DEF IntakeInv, TextIsNamed, IntakeAt

LEMMA LoadedMoves ==
  ASSUME IntakeInv, IntakeAt("load"), NEW name, NEW mime, NEW size, Loaded(name, mime, size),
         UNCHANGED pending, Permitted(name), size = pending.size,
         mime = MimeOf(Ext(name)), mime # "none", pending.kind = "text" => Ext(name) = "txt"
  PROVE  IntakeInv'
<1>1. name \in Seq(Character) /\ mime \in Types /\ size \in Nat
  BY TypesOfNames DEF Permitted, IntakeInv, Contents
<1>2. /\ intake' \in Intakes /\ intake'.at = "validate" /\ intake'.reason = intake.reason
      /\ intake'.name = name /\ intake'.mime = mime /\ intake'.size = size
  BY <1>1 DEF Loaded, IntakeInv, Intakes
<1>3. intake'.reason = "none"
  BY <1>2 DEF IntakeInv, IntakeAt
<1>4. Named'
  BY <1>2 DEF Named
<1> QED BY <1>2, <1>3, <1>4 DEF IntakeInv, TextIsNamed, IntakeAt

\* Once the name stands, only size, content and pages can be wrong.
LEMMA ValidateSteps ==
  ASSUME IntakeInv, Validate
  PROVE  /\ pending' = pending
         /\ \/ Reject("size") /\ pending.size \notin 1 .. MaxFileBytes
            \/ Reject("content") /\ ~HeaderMatches(Ext(intake.name), pending.content)
            \/ Reject("pages") /\ pending.pages > MaxPages
            \/ intake' = [intake EXCEPT !.at = "accepted"] /\ Checked
<1>0. pending.pages \in Nat /\ MaxPages \in Nat
  BY LimitsAssumption DEF IntakeInv, Contents
<1>1. intake.at = "validate" /\ Named /\ pending' = pending /\ intake \in Intakes
  BY DEF Validate, IntakeAt, IntakeInv
<1>2. Sanitized(intake.name) = {intake.name}
  BY <1>1, PermittedStays DEF Named
<1> DEFINE ext == Ext(intake.name)
<1>3. MimeOf(ext) = intake.mime /\ MimeOf(ext) # "none" /\ intake.size = pending.size
  BY <1>1 DEF Named
<1>4. (CHOOSE n \in Sanitized(intake.name) : TRUE) = intake.name
  BY <1>2
<1>5. [intake EXCEPT !.at = "accepted", !.name = intake.name] = [intake EXCEPT !.at = "accepted"]
  BY <1>1 DEF Intakes
<1> HIDE DEF ext
<1>6. IF intake.size \notin 1 .. MaxFileBytes THEN Reject("size")
      ELSE IF MimeOf(ext) # intake.mime THEN Reject("mime")
      ELSE IF ~HeaderMatches(ext, pending.content) THEN Reject("content")
      ELSE IF Counted(ext) /\ pending.pages > MaxPages THEN Reject("pages")
      ELSE intake' = [intake EXCEPT !.at = "accepted", !.name = intake.name]
  BY <1>2, <1>3, <1>4 DEF Validate, ext
<1> QED BY <1>0, <1>1, <1>3, <1>5, <1>6 DEF Checked, ext

LEMMA IntakeKeepsInv ==
  ASSUME IntakeInv, IntakeNext
  PROVE  IntakeInv'
<1>1. /\ pending \in Contents /\ intake \in Intakes
      /\ pending.size \in Nat /\ MaxFileBytes \in Nat
  BY LimitsAssumption DEF IntakeInv, Contents
<1>2. CASE LoadText
  <2>1. Permitted(TextFilename(pending.text)) /\ Ext(TextFilename(pending.text)) = "txt"
    BY <1>1, TextHasName DEF Contents
  <2> QED BY <1>2, <2>1, LoadedMoves, TypesOfNames DEF LoadText
<1>3. ASSUME Received <= MaxFileBytes PROVE Received = pending.size
  BY <1>1, <1>3 DEF Received, ReadLimit
<1>4. \A n \in Sanitized(pending.name) : Permitted(n)
  BY <1>1, SanitizedIsPermitted DEF Contents
<1>5. CASE LoadFile
  <2>1. pending.kind # "text" /\ UNCHANGED pending /\ IntakeAt("load")
    BY <1>5 DEF LoadFile
  <2>2. CASE \E reason \in {"name", "type", "mime", "size", "content", "pages"} : Reject(reason)
    BY <2>1, <2>2, RejectMoves
  <2>3. ASSUME NEW name \in Sanitized(pending.name), Received <= MaxFileBytes,
               TypeOfName(name) # "none", Loaded(name, TypeOfName(name), Received)
        PROVE  IntakeInv'
    BY <1>3, <1>4, <2>1, <2>3, LoadedMoves DEF TypeOfName
  <2> QED BY <1>5, <2>2, <2>3 DEF LoadFile
<1>6. CASE LoadImage
  <2>1. pending.kind # "text" /\ UNCHANGED pending /\ IntakeAt("load")
    BY <1>6 DEF LoadImage
  <2>2. CASE \E reason \in {"name", "type", "mime", "size", "content", "pages"} : Reject(reason)
    BY <2>1, <2>2, RejectMoves
  <2> DEFINE detected == pending.content
  <2>3. ASSUME detected \in Media, Received <= MaxFileBytes,
               Loaded(<<"image", Dot, detected>>, detected, Received)
        PROVE  IntakeInv'
    BY <1>3, <2>1, <2>3, LoadedMoves, ImageHasName, TypesOfNames
  <2>4. ASSUME NEW name \in Sanitized(pending.name), detected \in Media,
               Received <= MaxFileBytes,
               Ext(name) = detected \/ (detected = "jpg" /\ Ext(name) = "jpeg"),
               Loaded(name, detected, Received)
        PROVE  IntakeInv'
    <3>1. MimeOf(Ext(name)) = detected /\ detected # "none"
      BY <2>4, TypesOfNames
    <3> QED BY <1>3, <1>4, <2>1, <2>4, <3>1, LoadedMoves
  <2>5. Received \in Int
    BY <1>1 DEF Received, ReadLimit
  <2>6. CASE Received > MaxFileBytes
    BY <1>6, <2>2, <2>6 DEF LoadImage
  <2>7. CASE Received <= MaxFileBytes
    BY <1>1, <1>6, <2>2, <2>3, <2>4, <2>5, <2>7 DEF LoadImage
  <2> QED BY <1>1, <2>5, <2>6, <2>7
<1>7. CASE Validate
  <2>1. CASE Reject("size") /\ pending.size \notin 1 .. MaxFileBytes
    BY <2>1, <1>7, ValidateSteps, RejectMoves
  <2>2. CASE Reject("content") /\ ~HeaderMatches(Ext(intake.name), pending.content)
    <3>1. pending.kind = "text" => pending.content \notin NulFree
      BY <1>7, <2>2, TypesOfNames DEF Validate, IntakeAt, IntakeInv, Named
    <3> QED BY <2>2, <3>1, <1>7, ValidateSteps, RejectMoves
  <2>3. CASE Reject("pages") /\ pending.pages > MaxPages
    BY <2>3, <1>7, ValidateSteps, RejectMoves
  <2>4. CASE intake' = [intake EXCEPT !.at = "accepted"] /\ Checked
    <3>1. pending' = pending /\ Named
      BY <1>7 DEF Validate, IntakeAt, IntakeInv
    <3>2. /\ intake' \in Intakes /\ intake'.at = "accepted" /\ intake'.name = intake.name
          /\ intake'.mime = intake.mime /\ intake'.size = intake.size
      BY <1>1, <2>4 DEF Intakes
    <3>3. Named' /\ Checked'
      BY <2>4, <3>1, <3>2 DEF Named, Checked
    <3> QED BY <1>1, <3>1, <3>2, <3>3 DEF IntakeInv, TextIsNamed, IntakeAt
  <2> QED BY <1>7, <2>1, <2>2, <2>3, <2>4, ValidateSteps
<1> QED BY <1>2, <1>5, <1>6, <1>7 DEF IntakeNext

LEMMA IntakeInvHolds == IntakeSpec => []IntakeInv
<1>1. IntakeInit => IntakeInv
  <2> SUFFICES ASSUME IntakeInit PROVE IntakeInv
    OBVIOUS
  <2>1. Seq(STRING) \subseteq Seq(Character)
    BY SeqMonotonic DEF Character
  <2>2. pending \in Contents
    BY <2>1 DEF IntakeInit, Contents
  <2>3. intake \in Intakes /\ intake.at = "load" /\ intake.reason = "none"
    BY EmptySeq DEF IntakeInit, Intake, Intakes, Types
  <2> QED BY <2>2, <2>3 DEF IntakeInv, TextIsNamed, IntakeAt
<1>2. IntakeInv /\ UNCHANGED intakeVars => IntakeInv'
  BY DEF intakeVars, IntakeInv, Named, Checked, TextIsNamed, IntakeAt
<1> QED BY <1>1, <1>2, IntakeKeepsInv, PTL DEF IntakeSpec

\* No text is rejected for its name, whatever it says and however short a preview
\* is (textFilename, validateFile).
THEOREM EveryTextIsNamed == IntakeSpec => []TextIsNamed
<1>1. IntakeInv => TextIsNamed
  BY DEF IntakeInv
<1> QED BY <1>1, IntakeInvHolds, PTL

\* What is accepted is whole, within the limits, and of the type its name claims,
\* under any name WeCom may give a medium (downloadMedia, validateFile).
THEOREM AcceptedWhole == IntakeSpec => []AcceptedIsWhole
<1>1. IntakeInv => AcceptedIsWhole
  <2> SUFFICES ASSUME IntakeInv, IntakeAt("accepted")
               PROVE  /\ intake.size = pending.size /\ intake.size \in 1 .. MaxFileBytes
                      /\ Counted(Ext(intake.name)) => pending.pages <= MaxPages
                      /\ HeaderMatches(Ext(intake.name), pending.content)
                      /\ intake.name[1] # Dot /\ Len(intake.name) <= MaxName
                      /\ \A i \in DOMAIN intake.name : intake.name[i] \notin Invalid
    BY DEF AcceptedIsWhole
  <2>1. Named /\ Checked
    BY DEF IntakeInv, IntakeAt
  <2>2. DOMAIN intake.name = 1 .. Len(intake.name)
    BY <2>1, LenProperties DEF Named, Permitted
  <2> QED BY <2>1, <2>2, LimitsAssumption DEF Named, Checked, Permitted
<1> QED BY <1>1, IntakeInvHolds, PTL

\* A name that was accepted for a medium is never changed or refused by validateFile
\* (mediaMetadata, validateFile).
THEOREM NamesStand == IntakeSpec => NameStands
<1> DEFINE A == IntakeAt("validate") =>
                  intake'.reason \notin {"name", "type", "mime"} /\ intake'.name = intake.name
<1>1. IntakeInv /\ [IntakeNext]_intakeVars => [A]_intake
  <2> SUFFICES ASSUME IntakeInv, IntakeNext, IntakeAt("validate")
               PROVE  /\ intake'.reason \notin {"name", "type", "mime"}
                      /\ intake'.name = intake.name
    BY DEF intakeVars
  <2>1. Validate
    BY DEF IntakeNext, LoadText, LoadFile, LoadImage, IntakeAt
  <2>2. intake \in Intakes /\ intake.reason = "none"
    BY DEF IntakeInv, IntakeAt
  <2> QED BY <2>1, <2>2, ValidateSteps DEF Reject, Intakes
<1> QED BY <1>1, IntakeInvHolds, PTL DEF IntakeSpec, NameStands

-----------------------------------------------------------------------------
\* Configuration

LEMMA DefaultsFit ==
  /\ \A n \in DOMAIN Settings : /\ Settings[n].least \in Int /\ Settings[n].most \in Int
                                /\ Settings[n].fallback \in Settings[n].least .. Settings[n].most
  /\ "PRINT_CONFIRMATION_TTL_MS" \in DOMAIN Settings
  /\ "WECOM_CONFIRMATION_MAX_AGE_MS" \in DOMAIN Settings
  /\ Settings["WECOM_CONFIRMATION_MAX_AGE_MS"].least = Settings["PRINT_CONFIRMATION_TTL_MS"].least
  /\ Settings["WECOM_CONFIRMATION_MAX_AGE_MS"].most = Settings["PRINT_CONFIRMATION_TTL_MS"].most
BY IntAssumption DEF Settings, Positive, NonNegative

\* What the program accepts is what the rest of it expects.
LEMMA RangesFit ==
  ASSUME NEW n \in DOMAIN Settings, NEW x \in Settings[n].least .. Settings[n].most
  PROVE  NumberFits(n, x)
<1> DEFINE least == Settings[n].least
           most  == Settings[n].most
<1>1. \/ n = "WECOM_API_MAX_RETRIES" /\ least = 0 /\ most = 5
      \/ n = "WECOM_REPLY_MIN_INTERVAL_MS" /\ least = 0 /\ most = 60000
      \/ /\ n # "WECOM_API_MAX_RETRIES" /\ n # "WECOM_REPLY_MIN_INTERVAL_MS"
         /\ least = 1 /\ most = MaxInt
  BY DEF Settings, Positive, NonNegative
<1>2. x \in Int /\ least <= x /\ x <= most
  BY <1>1, IntAssumption
<1> HIDE DEF least, most
<1> QED BY <1>1, <1>2, IntAssumption DEF NumberFits

Ranges == \A n \in DOMAIN Settings : ~OutOfRange(n)

Numbers == env.numbers \in [DOMAIN Settings -> {number \in Seq(Int) : Len(number) <= 1}]

\* A number is in the range of its setting, given or not.
LEMMA NumbersFit ==
  ASSUME Ranges, Numbers, NEW n \in DOMAIN Settings
  PROVE  NumberOf(n, Fallback(n, Ttl)) \in Settings[n].least .. Settings[n].most
<1>1. ASSUME NEW m \in DOMAIN Settings, NEW fallback \in Settings[m].least .. Settings[m].most
      PROVE  NumberOf(m, fallback) \in Settings[m].least .. Settings[m].most
  BY DEF Ranges, OutOfRange, NumberOf
<1>2. Ttl \in Settings["PRINT_CONFIRMATION_TTL_MS"].least .. Settings["PRINT_CONFIRMATION_TTL_MS"].most
  BY <1>1, DefaultsFit DEF Ttl
<1>3. Fallback(n, Ttl) \in Settings[n].least .. Settings[n].most
  BY <1>2, DefaultsFit DEF Fallback
<1> QED BY <1>1, <1>3

ConfigInv ==
  /\ Numbers
  /\ \A c \in config.result :
       /\ c = Configured /\ Ranges
       /\ SetValue(env.openKfIDs) # {} /\ SetValue(env.users) # {}
       /\ KeysMatch(env.keys, SetValue(env.users))

LEMMA ConfigInvHolds == ConfigSpec => []ConfigInv
<1>1. ConfigInit => ConfigInv
  BY DEF ConfigInit, ConfigInv, Numbers
<1>2. ASSUME ConfigInv, LoadConfig PROVE ConfigInv'
  <2>1. env' = env /\ Numbers
    BY <1>2 DEF LoadConfig, ConfigInv
  <2>2. \A c \in config'.result :
          /\ c = Configured /\ Ranges
          /\ SetValue(env.openKfIDs) # {} /\ SetValue(env.users) # {}
          /\ KeysMatch(env.keys, SetValue(env.users))
    BY <1>2 DEF LoadConfig, Ranges
  <2>3. Configured' = Configured /\ Ranges' = Ranges /\ Numbers' = Numbers
    BY <2>1 DEF Configured, Ranges, Numbers, NumberOf, Ttl, OutOfRange
  <2> QED BY <2>1, <2>2, <2>3 DEF ConfigInv
<1>3. ConfigInv /\ UNCHANGED configVars => ConfigInv'
  BY DEF configVars, ConfigInv, Numbers, Ranges, OutOfRange, Configured, NumberOf, Ttl
<1> QED BY <1>1, <1>2, <1>3, PTL DEF ConfigSpec

\* Whatever the environment is, a configuration the program starts with can be relied
\* on (loadConfigFrom, request).
THEOREM ConfigReliable == ConfigSpec => []ConfigFits
<1>1. ASSUME ConfigInv, NEW c \in config.result
      PROVE  /\ c.OpenKfIDs # {} /\ c.AllowedExternalUsers # {}
             /\ "" \notin c.OpenKfIDs \cup c.AllowedExternalUsers
             /\ KeysFit(c)
             /\ \A n \in DOMAIN Settings : NumberFits(n, c.numbers[n])
  <2>1. /\ Ranges /\ Numbers /\ c = Configured
        /\ SetValue(env.openKfIDs) # {} /\ SetValue(env.users) # {}
        /\ KeysMatch(env.keys, SetValue(env.users))
    BY <1>1 DEF ConfigInv
  <2>2. /\ c.OpenKfIDs = SetValue(env.openKfIDs) /\ c.AllowedExternalUsers = SetValue(env.users)
        /\ c.CupsAPIKeys = env.keys
        /\ \A n \in DOMAIN Settings : c.numbers[n] = NumberOf(n, Fallback(n, Ttl))
    BY <2>1 DEF Configured
  <2>3. \A n \in DOMAIN Settings : c.numbers[n] \in Settings[n].least .. Settings[n].most
    BY <2>1, <2>2, NumbersFit
  <2>4. ASSUME NEW n \in DOMAIN Settings
        PROVE  NumberFits(n, c.numbers[n])
    BY <2>3, RangesFit
  <2>5. KeysFit(c)
    BY <2>1, <2>2, KeysAssumption DEF KeysFit, KeyOf, KeysMatch
  <2>6. "" \notin SetValue(env.openKfIDs) \cup SetValue(env.users)
    BY DEF SetValue
  <2> QED BY <2>1, <2>2, <2>4, <2>5, <2>6
<1>2. ConfigInv => ConfigFits
  BY <1>1 DEF ConfigFits
<1> QED BY <1>2, ConfigInvHolds, PTL

-----------------------------------------------------------------------------
\* Records

Records == [place : Nat, createdAt : Nat]

Answered ==
  /\ answer.records \in Seq(Records)
  /\ \A k \in Places : answer.records[k].place = k

\* For every place the places that come before it once the records are sorted.
Order == [i \in Places |-> {j \in Places : Before(j, i)}]

LEMMA PlacesInOrder ==
  ASSUME Answered
  PROVE  /\ Len(answer.records) \in Nat /\ Places = 1 .. Len(answer.records)
         /\ IsFiniteSet(Places) /\ Cardinality(Places) = Len(answer.records)
         /\ \A i \in Places : answer.records[i] \in Records
         /\ TotalOrder(Places, Order)
<1> DEFINE n == Len(answer.records)
           C(i) == answer.records[i].createdAt
<1>1. n \in Nat /\ Places = 1 .. n /\ \A i \in Places : answer.records[i] \in Records
  BY LenProperties, ElementOfSeq DEF Answered, Places
<1>2. IsFiniteSet(Places) /\ Cardinality(Places) = n
  BY <1>1, FS_Interval
<1>3. \A i \in Places : i \in Int /\ C(i) \in Int
  BY <1>1 DEF Records
<1>4. \A i, j \in Places : i \in Order[j] <=> C(i) > C(j) \/ (C(i) = C(j) /\ i < j)
  BY DEF Order, Before
<1>5. Order \in [Places -> SUBSET Places]
  BY DEF Order
<1> HIDE DEF C
<1>6. TotalOrder(Places, Order)
  BY <1>2, <1>3, <1>4, <1>5 DEF TotalOrder
<1> QED BY <1>1, <1>2, <1>6

\* A list that is sorted and cut, by the places of its records.
Listed(list, m, pos) ==
  /\ list \in Seq(Records) /\ Len(list) = m
  /\ \A k \in 1 .. m : /\ pos[k] \in Places
                       /\ Cardinality(Order[pos[k]]) = k - 1
                       /\ list[k] = answer.records[pos[k]]

LEMMA SortedByPlace ==
  ASSUME Answered
  PROVE  \E pos : Listed(Sorted, Len(answer.records), pos)
<1> DEFINE n == Len(answer.records)
           PlaceOf(k) == CHOOSE i \in Places : Cardinality({j \in Places : Before(j, i)}) = k - 1
           pos == [k \in 1 .. n |-> PlaceOf(k)]
<1>1. /\ n \in Nat /\ Places = 1 .. n /\ TotalOrder(Places, Order)
      /\ Cardinality(Places) = n /\ \A i \in Places : answer.records[i] \in Records
  BY PlacesInOrder
<1>2. \A i \in Places : Order[i] = {j \in Places : Before(j, i)}
  BY DEF Order
<1>3. ASSUME NEW k \in 1 .. n
      PROVE  PlaceOf(k) \in Places /\ Cardinality(Order[PlaceOf(k)]) = k - 1
  <2>1. k - 1 \in 0 .. Cardinality(Places) - 1
    BY <1>1
  <2>2. Ranked(Places, Order)
    BY <1>1, EveryRank
  <2>3. \E i \in Places : Cardinality(Order[i]) = k - 1
    BY <2>1, <2>2 DEF Ranked
  <2>4. \E i \in Places : Cardinality({j \in Places : Before(j, i)}) = k - 1
    BY <1>2, <2>3
  <2>5. /\ PlaceOf(k) \in Places
        /\ Cardinality({j \in Places : Before(j, PlaceOf(k))}) = k - 1
    BY <2>4, Zenon
  <2> HIDE DEF PlaceOf
  <2> QED BY <1>2, <2>5
<1>4. Sorted = [k \in Places |-> answer.records[PlaceOf(k)]]
  BY Zenon DEF Sorted
<1> HIDE DEF PlaceOf
<1>5. Sorted \in [1 .. n -> Records]
  BY <1>1, <1>3, <1>4
<1>6. Sorted \in Seq(Records) /\ Len(Sorted) = n
  BY <1>1, <1>5
<1>7. Listed(Sorted, n, pos)
  BY <1>1, <1>3, <1>4, <1>6 DEF Listed
<1> QED BY <1>7

LEMMA LatestByPlace ==
  ASSUME Answered
  PROVE  \E m, pos : /\ m \in Nat /\ m <= Len(answer.records)
                     /\ m = Limit \/ m = Len(answer.records)
                     /\ Listed(LatestFirst, m, pos)
<1> DEFINE n == Len(answer.records)
           m == IF n > Limit THEN Limit ELSE n
           cut == SubSeq(Sorted, 1, m)
<1>1. PICK pos : Listed(Sorted, n, pos)
  BY SortedByPlace
<1>2. n \in Nat /\ Len(Sorted) = n /\ Sorted \in Seq(Records)
  BY <1>1, PlacesInOrder DEF Listed
<1>3. LatestFirst = cut
  BY <1>2 DEF LatestFirst, AtMost
<1>4. m \in Nat /\ m <= n /\ (m = Limit \/ m = n)
  BY <1>2, LimitAssumption
<1> HIDE DEF m
<1>5. /\ cut \in Seq(Records) /\ Len(cut) = m
      /\ \A k \in 1 .. m : cut[k] = Sorted[k]
  <2>1. 1 \in Int /\ m \in Int /\ \A k \in 1 .. m : Sorted[k] \in Records
    BY <1>2, <1>4, ElementOfSeq
  <2>2. /\ cut \in Seq(Records) /\ Len(cut) = IF 1 <= m THEN m - 1 + 1 ELSE 0
        /\ \A k \in 1 .. m - 1 + 1 : cut[k] = Sorted[1 + k - 1]
    BY <2>1, SubSeqProperties
  <2> HIDE DEF cut
  <2>3. Len(cut) = m
    BY <1>4, <2>2
  <2>4. ASSUME NEW k \in 1 .. m PROVE cut[k] = Sorted[k]
    <3>1. k \in 1 .. m - 1 + 1 /\ 1 + k - 1 = k
      BY <1>4
    <3> QED BY <2>2, <3>1
  <2> QED BY <2>2, <2>3, <2>4
<1> HIDE DEF cut
<1>6. \A k \in 1 .. m : k \in 1 .. n
  BY <1>2, <1>4
<1>7. Listed(LatestFirst, m, pos)
  BY <1>1, <1>3, <1>5, <1>6 DEF Listed
<1> QED BY <1>4, <1>7

\* What LatestShown says of a list.
ShowsLatest(list) ==
  LET shown == {list[k] : k \in DOMAIN list}
      all   == {answer.records[k] : k \in Places}
  IN /\ list = <<>> => all = {}
     /\ shown \subseteq all
     /\ Cardinality(shown) = Len(list)
     /\ Len(list) = Limit \/ shown = all
     /\ \A s \in shown, r \in all \ shown : s.createdAt >= r.createdAt
     /\ \A k, l \in DOMAIN list : k < l => list[k].createdAt >= list[l].createdAt

LEMMA LatestFirstShowsLatest ==
  ASSUME Answered
  PROVE  ShowsLatest(LatestFirst)
<1> DEFINE n == Len(answer.records)
           list == LatestFirst
           shown == {list[k] : k \in DOMAIN list}
           all == {answer.records[k] : k \in Places}
<1>1. PICK m, pos : m \in Nat /\ m <= n /\ (m = Limit \/ m = n) /\ Listed(list, m, pos)
  BY LatestByPlace
<1>2. /\ n \in Nat /\ Places = 1 .. n /\ TotalOrder(Places, Order)
      /\ Cardinality(Places) = n /\ \A i \in Places : answer.records[i] \in Records
  BY PlacesInOrder
<1> HIDE DEF list, n
<1>3. /\ DOMAIN list = 1 .. m /\ Len(list) = m
      /\ \A k \in 1 .. m : /\ pos[k] \in Places /\ Cardinality(Order[pos[k]]) = k - 1
                           /\ list[k] = answer.records[pos[k]]
  BY <1>1, LenProperties DEF Listed
<1>4. \A i, j \in Places : i \in Order[j] =>
        answer.records[i].createdAt >= answer.records[j].createdAt
  <2>1. \A i \in Places : answer.records[i].createdAt \in Int
    BY <1>2 DEF Records
  <2> QED BY <2>1 DEF Order, Before
<1>5. \A k, l \in 1 .. m : k < l => list[k].createdAt >= list[l].createdAt
  <2> SUFFICES ASSUME NEW k \in 1 .. m, NEW l \in 1 .. m, k < l
               PROVE  list[k].createdAt >= list[l].createdAt
    OBVIOUS
  <2>1. Cardinality(Order[pos[k]]) < Cardinality(Order[pos[l]])
    BY <1>1, <1>3
  <2>2. pos[k] \in Order[pos[l]]
    BY <1>2, <1>3, <2>1, RankDecides
  <2> QED BY <1>3, <1>4, <2>2
<1>6. shown \subseteq all
  BY <1>3
\* The record at a place that is not listed comes after all that are.
<1>7. ASSUME NEW i \in Places, answer.records[i] \notin shown
      PROVE  Cardinality(Order[i]) \in Nat /\ Cardinality(Order[i]) >= m
  <2>1. Cardinality(Order[i]) \in 0 .. n - 1
    BY <1>2, RanksGrow
  <2>2. ASSUME Cardinality(Order[i]) < m PROVE FALSE
    <3> DEFINE k == Cardinality(Order[i]) + 1
    <3>1. k \in 1 .. m /\ k - 1 = Cardinality(Order[i])
      BY <1>1, <1>2, <2>1, <2>2
    <3> HIDE DEF k
    <3>2. pos[k] = i
      BY <1>2, <1>3, <3>1, RankDecides
    <3> QED BY <1>3, <1>7, <3>1, <3>2
  <2> QED BY <1>1, <1>2, <2>1, <2>2
<1>8. \A s \in shown, r \in all \ shown : s.createdAt >= r.createdAt
  <2> SUFFICES ASSUME NEW k \in 1 .. m, NEW i \in Places, answer.records[i] \notin shown
               PROVE  list[k].createdAt >= answer.records[i].createdAt
    BY <1>3
  <2>1. Cardinality(Order[pos[k]]) < Cardinality(Order[i])
    BY <1>1, <1>3, <1>7
  <2> QED BY <1>2, <1>3, <1>4, <2>1, RankDecides
<1>9. m = n => shown = all
  <2> SUFFICES ASSUME m = n, NEW i \in Places PROVE answer.records[i] \in shown
    BY <1>6
  <2>1. Cardinality(Order[i]) \in 0 .. n - 1
    BY <1>2, RanksGrow
  <2> QED BY <1>2, <1>7, <2>1
<1>10. Cardinality(shown) = m
  <2> DEFINE f == [k \in 1 .. m |-> list[k]]
  <2>1. f \in [1 .. m -> shown] /\ \A s \in shown : \E k \in 1 .. m : f[k] = s
    BY <1>3
  <2>2. \A k, l \in 1 .. m : f[k] = f[l] => k = l
    <3> SUFFICES ASSUME NEW k \in 1 .. m, NEW l \in 1 .. m, list[k] = list[l] PROVE k = l
      OBVIOUS
    <3>1. pos[k] = pos[l]
      BY <1>3 DEF Answered
    <3>2. k - 1 = l - 1
      BY <1>3, <3>1
    <3> QED BY <1>1, <3>2
  <2>3. f \in Bijection(1 .. m, shown)
    BY <2>1, <2>2 DEF Bijection, Injection, Surjection, IsInjective
  <2>4. IsFiniteSet(1 .. m) /\ Cardinality(1 .. m) = m
    BY <1>1, FS_Interval
  <2> QED BY <2>3, <2>4, FS_Bijection DEF ExistsBijection
<1>11. list = <<>> => all = {}
  BY <1>1, <1>2, <1>3, LimitAssumption
<1>12. ShowsLatest(list)
  BY <1>1, <1>3, <1>5, <1>6, <1>8, <1>9, <1>10, <1>11 DEF ShowsLatest
<1> QED BY <1>12 DEF list

QueryInv ==
  /\ Answered
  /\ query = [at |-> query.at, records |-> query.records, reply |-> query.reply]
  /\ query.at \in {"list", "reply", "done"}
  /\ query.at = "reply" => query.records = LatestFirst
  /\ query.at = "done" =>
       \/ query.reply = "failed"
       \/ /\ query.records = LatestFirst
          /\ query.reply = IF query.records = <<>> THEN "empty" ELSE "records"

LEMMA QueryInvHolds == QuerySpec => []QueryInv
<1>1. QueryInit => QueryInv
  BY DEF QueryInit, QueryInv, Query, Answered, Records
<1>2. ASSUME QueryInv, UNCHANGED answer PROVE Answered' /\ LatestFirst' = LatestFirst
  BY <1>2 DEF QueryInv, Answered, Places, LatestFirst, AtMost, Sorted, Before
<1>3. ASSUME QueryInv, ListPrintRecords PROVE QueryInv'
  BY <1>2, <1>3 DEF ListPrintRecords, QueryInv, QueryAt
<1>4. ASSUME QueryInv, ReplyHistory PROVE QueryInv'
  BY <1>2, <1>4 DEF ReplyHistory, QueryInv, QueryAt
<1>5. ASSUME QueryInv, UNCHANGED queryVars PROVE QueryInv'
  BY <1>2, <1>5 DEF queryVars, QueryInv
<1> QED BY <1>1, <1>3, <1>4, <1>5, PTL DEF QuerySpec, QueryNext

\* However many records there are, in any order and with any times, the reply lists
\* the latest of them, latest first (replyHistory, listPrintRecords).
THEOREM LatestListed == QuerySpec => []LatestShown
<1>1. QueryInv => LatestShown
  <2> SUFFICES ASSUME QueryInv PROVE LatestShown
    OBVIOUS
  <2>1. ShowsLatest(LatestFirst)
    BY LatestFirstShowsLatest DEF QueryInv
  <2>2. QueryAt("done") /\ query.reply \in {"empty", "records"} =>
          /\ ShowsLatest(query.records)
          /\ query.reply = "empty" => query.records = <<>>
    BY <2>1 DEF QueryInv, QueryAt
  <2> QED BY <2>2 DEF LatestShown, ShowsLatest
<1> QED BY <1>1, QueryInvHolds, PTL

=============================================================================
