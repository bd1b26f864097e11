------------------------------ MODULE FileIntake ------------------------------
(***************************************************************************)
(* The way of one confirmed content into process: incoming (gateway.go),   *)
(* the end of downloadMedia (wecom.go), and validation.go.  PrintGateway   *)
(* has it as Load and Validate, which may reject anything.                 *)
(*                                                                         *)
(* WeCom is external: it hands out a medium under a name it chooses, or    *)
(* none.  Abstracted: a name is a sequence of characters, where the        *)
(* letters of an extension count as one; a content is what headerMatches   *)
(* finds in it, its size and its pages.                                    *)
(***************************************************************************)
EXTENDS Integers, Sequences, FiniteSets

CONSTANTS
  MaxName,       \* the longest file name (180)
  Preview,       \* how much of a text its file is named by (10)
  MaxFileBytes,  \* MAX_FILE_BYTES
  MaxPages       \* MAX_PAGES

\* "message.txt" is a name, and the limits are positive (positiveInt).
ASSUME LimitsAssumption ==
  /\ MaxName \in Nat /\ MaxName >= 3 /\ Preview \in Nat
  /\ MaxFileBytes \in Nat \ {0} /\ MaxPages \in Nat \ {0}

VARIABLES
  pending,  \* the content that was confirmed, and for a medium what WeCom holds
  intake    \* where it is, the file so far, and why it was rejected

intakeVars == <<pending, intake>>

Intake(at) == [at |-> at, reason |-> "none", name |-> <<>>, mime |-> "none", size |-> 0]

IntakeAt(s)    == intake.at = s
Reject(reason) == intake' = [intake EXCEPT !.at = "rejected", !.reason = reason]

-----------------------------------------------------------------------------
\* Names

Invalid == {"/"}  \* every character that invalidFilename matches
Blank   == " "
Dot     == "."

\* The characters of name from position i on.
From(name, i) == SubSeq(name, i, Len(name))

Replaced(name) == [i \in DOMAIN name |-> IF name[i] \in Invalid THEN "_" ELSE name[i]]

\* strings.TrimLeft(name, ".")
Trimmed(name) ==
  LET rest == {i \in DOMAIN name : name[i] # Dot}
  IN IF rest = {} THEN <<>> ELSE From(name, CHOOSE i \in rest : \A j \in rest : i <= j)

\* sanitizeFilename, in a set; none if the name is not permitted.
Sanitized(name) ==
  LET cleaned == Trimmed(Replaced(name))
  IN IF Len(cleaned) \in 1 .. MaxName THEN {cleaned} ELSE {}

Lower(char) == CASE char = "PDF" -> "pdf" [] OTHER -> char

\* strings.ToLower(filepath.Ext(name)): what follows the last dot, if it is one
\* character here; "" for none and for anything longer, which no type has.
Ext(name) ==
  IF Len(name) >= 2 /\ name[Len(name) - 1] = Dot THEN Lower(name[Len(name)]) ELSE ""

\* strings.Join(strings.Fields(text), " ")
Joined(text) ==
  LET Keep(i) == \/ text[i] # Blank
                 \/ /\ i > 1 /\ text[i - 1] # Blank
                    /\ \E j \in i .. Len(text) : text[j] # Blank
      kept    == {i \in DOMAIN text : Keep(i)}
      Kept(k) == CHOOSE i \in kept : Cardinality({j \in kept : j < i}) = k - 1
  IN [k \in 1 .. Cardinality(kept) |-> text[Kept(k)]]

MessageTxt == <<"message", Dot, "txt">>

\* (Mutant: what sanitizeFilename leaves is not looked at.)
AnyText(name) == TRUE

\* The name still is that of a text file.
IsText(name) == Len(name) > 2 /\ From(name, Len(name) - 1) = <<Dot, "txt">>

\* textFilename.
TextFilename(text) ==
  LET joined  == Joined(text)
      preview == SubSeq(joined, 1, IF Len(joined) > Preview THEN Preview ELSE Len(joined))
      names   == {n \in Sanitized(preview \o <<Dot, "txt">>) : IsText(n)}
  IN IF preview = <<>> \/ names = {} THEN MessageTxt ELSE CHOOSE n \in names : TRUE

-----------------------------------------------------------------------------
\* Types

Texts  == {"txt", "md", "html"}
Jpegs  == {"jpg", "jpeg"}
Office == {"doc", "xls", "ppt"}
Media  == {"pdf", "jpg", "png", "gif", "heic"}  \* what mediaMetadata looks for
Zips   == {"docx", "xlsx", "pptx", "ofd"}

\* allowedTypes: a MIME type is named after its extension; "none": not permitted.
MimeOf(ext) ==
  CASE ext \in Jpegs -> "jpg"
    [] ext \in Texts \cup Office \cup Media \cup Zips -> ext
    [] OTHER -> "none"

NulFree == {"text", "pdf"}  \* contents that may come without a zero byte

\* headerMatches.
HeaderMatches(ext, content) ==
  CASE ext \in Texts  -> content \in NulFree
    [] ext \in Jpegs  -> content = "jpg"
    [] ext \in Office -> content = "ole"
    [] ext \in Media \cup Zips -> content = ext
    [] OTHER -> FALSE

\* pageCount knows the pages of these; an image has one.
Counted(ext) == ext \in Texts \cup Media \cup Jpegs

-----------------------------------------------------------------------------
\* LoadFiles

Loaded(name, mime, size) ==
  intake' = [intake EXCEPT !.at = "validate", !.name = name, !.mime = mime, !.size = size]

LoadText ==
  /\ IntakeAt("load") /\ pending.kind = "text"
  /\ Loaded(TextFilename(pending.text), "txt", pending.size)
  /\ UNCHANGED pending

\* (Mutant: a medium that is too large by a byte looks whole.)
LimitAlone == MaxFileBytes

\* downloadMedia reads one byte more than may be.
ReadLimit == MaxFileBytes + 1

Received == IF pending.size > ReadLimit THEN ReadLimit ELSE pending.size

\* (Mutant: the type is taken from the name as it came.)
TypeOfRaw(name) == MimeOf(Ext(pending.name))

TypeOfName(name) == MimeOf(Ext(name))

\* mediaMetadata for files: the name decides.
LoadFile ==
  /\ IntakeAt("load") /\ pending.kind = "file"
  /\ LET names == Sanitized(pending.name)
     IN \/ Received > MaxFileBytes /\ Reject("size")
        \/ Received <= MaxFileBytes /\ names = {} /\ Reject("name")
        \/ /\ Received <= MaxFileBytes
           /\ \E name \in names :
                IF TypeOfName(name) = "none"
                THEN Reject("type")
                ELSE Loaded(name, TypeOfName(name), Received)
  /\ UNCHANGED pending

\* mediaMetadata for images: the content decides, and the name has to fit.
LoadImage ==
  /\ IntakeAt("load") /\ pending.kind = "image"
  /\ LET detected == pending.content
         names    == Sanitized(pending.name)
     IN CASE Received > MaxFileBytes -> Reject("size")
          [] Received <= MaxFileBytes /\ (detected \notin Media \/ Received = 0) -> Reject("content")
          [] OTHER ->
               \/ pending.name = <<>> /\ Loaded(<<"image", Dot, detected>>, detected, Received)
               \/ pending.name # <<>> /\ names = {} /\ Reject("name")
               \/ /\ pending.name # <<>>
                  /\ \E name \in names :
                       IF \/ Ext(name) = detected
                          \/ detected = "jpg" /\ Ext(name) = "jpeg"
                       THEN Loaded(name, detected, Received)
                       ELSE Reject("content")
  /\ UNCHANGED pending

-----------------------------------------------------------------------------
\* validateFile

Validate ==
  /\ IntakeAt("validate")
  /\ LET names == Sanitized(intake.name)
         name  == CHOOSE n \in names : TRUE
         ext   == Ext(name)
     IN CASE names = {} -> Reject("name")
          [] names # {} /\ MimeOf(ext) = "none" -> Reject("type")
          [] OTHER ->
               IF intake.size \notin 1 .. MaxFileBytes THEN Reject("size")
               ELSE IF MimeOf(ext) # intake.mime THEN Reject("mime")
               ELSE IF ~HeaderMatches(ext, pending.content) THEN Reject("content")
               ELSE IF Counted(ext) /\ pending.pages > MaxPages THEN Reject("pages")
               ELSE intake' = [intake EXCEPT !.at = "accepted", !.name = name]
  /\ UNCHANGED pending

IntakeNext == LoadText \/ LoadFile \/ LoadImage \/ Validate

\* Any text, and any medium under any name.
IntakeInit ==
  /\ pending \in [kind : {"text", "file", "image"}, text : Seq(STRING), name : Seq(STRING),
                  content : STRING, size : Nat, pages : Nat]
  /\ intake = Intake("load")

IntakeSpec == IntakeInit /\ [][IntakeNext]_intakeVars

-----------------------------------------------------------------------------
\* Properties

\* A text is never rejected for the name it is given, whatever it begins with: dots,
\* blanks, characters no file name has (textFilename, validateFile).
TextIsNamed ==
  IntakeAt("rejected") /\ pending.kind = "text" =>
    \/ pending.content \notin NulFree
    \/ pending.size \notin 1 .. MaxFileBytes
    \/ pending.pages > MaxPages

\* validateFile agrees with mediaMetadata: it cleans, types and names a medium as the
\* download did, so the name the customer sees is the one that was checked.
NameStands ==
  [][IntakeAt("validate") =>
       intake'.reason \notin {"name", "type", "mime"} /\ intake'.name = intake.name]_intake

\* What is passed on to cups-web is the whole content, within the limits on bytes and
\* on those pages that are counted, and of the type its name claims (downloadMedia,
\* validateFile).
AcceptedIsWhole ==
  IntakeAt("accepted") =>
    /\ intake.size = pending.size /\ intake.size \in 1 .. MaxFileBytes
    /\ Counted(Ext(intake.name)) => pending.pages <= MaxPages
    /\ HeaderMatches(Ext(intake.name), pending.content)
    /\ intake.name[1] # Dot /\ Len(intake.name) <= MaxName
    /\ \A i \in DOMAIN intake.name : intake.name[i] \notin Invalid

=============================================================================
