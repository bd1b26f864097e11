------------------------------- MODULE MCInputs -------------------------------
(***************************************************************************)
(* What the program reads, one input at a time: an answer of CUPS, a       *)
(* callback, a content, an environment, or a list of records.  The other   *)
(* readers rest.                                                           *)
(***************************************************************************)
EXTENDS IppJobState, CallbackServer, FileIntake, Configuration, RecordQuery, SequencesExt

RestIpp      == raw = <<>> /\ written = [items |-> <<>>, fate |-> "damaged"] /\ walk = Walk("rest", 0, FALSE)
RestCallback == request = [bytes |-> <<>>] /\ handler = Handling("rest")
RestIntake   == pending = [kind |-> "none"] /\ intake = Intake("rest")
RestConfig   == env = <<>> /\ config = [read |-> TRUE, result |-> {}]
RestQuery    == answer = [ok |-> FALSE, records |-> <<>>] /\ query = Query("rest")

\* Sequences of at most n elements of S.
UpTo(S, n) == UNION {[1 .. k -> S] : k \in 0 .. n}

-----------------------------------------------------------------------------
\* Answers of CUPS

MCJobState == <<106, 115>>

Items == {End, Group(2), State(5, "processing"), State(7, "failed"), State(9, "completed"),
          Other(<<106, 115>>, <<9>>), Other(<<106>>, <<0, 0, 0, 9>>), Other(<<>>, <<>>),
          Item(IppAttr(35, MCJobState, <<0, 0, 1, 9>>), "unknown")}

AnswerHead(status) == <<2, 0, status \div 256, status % 256, 0, 0, 0, 1>>

AnswerOf(items) == AnswerHead(0) \o FlattenSeq([i \in DOMAIN items |-> items[i].bytes])

\* Whole answers, answers cut anywhere, answers with one byte changed, and answers
\* of CUPS that say there is no such job, or another error.
InitIpp ==
  /\ \/ \E items \in UpTo(Items, 3) :
          /\ raw = AnswerOf(items)
          /\ written = [items |-> items, fate |-> "whole"]
     \/ \E items \in UpTo(Items, 2) : \E n \in 0 .. Len(AnswerOf(items)) - 1 :
          /\ raw = SubSeq(AnswerOf(items), 1, n)
          /\ written = [items |-> items, fate |-> "cut"]
     \/ \E items \in UpTo(Items, 2) : \E n \in 1 .. Len(AnswerOf(items)), b \in {0, 1, 3, 6, 255} :
          /\ raw = [AnswerOf(items) EXCEPT ![n] = b]
          /\ written = [items |-> items, fate |-> "damaged"]
     \/ \E s \in {[status |-> 1030, says |-> "unknown"], [status |-> 1024, says |-> "error"]} :
          /\ raw = AnswerHead(s.status) \o State(9, "completed").bytes
          /\ written = [items |-> <<Item(<<>>, s.says)>>, fate |-> "whole"]
  /\ walk = Walk("header", 0, FALSE)

-----------------------------------------------------------------------------
\* Requests to the callback server

MCCorpID   == <<119, 120>>
MCNoFields == [event |-> "", open |-> "", token |-> ""]

MCFields == {[event |-> "kf_msg_or_event", open |-> "kf", token |-> "t"],
             [event |-> "kf_msg_or_event", open |-> "kf", token |-> ""],
             [event |-> "enter_session", open |-> "kf", token |-> "t"]}

Request(method, oversize, bytes, text, fields, signed, genuine) ==
  [method |-> method, oversize |-> oversize, bytes |-> bytes, text |-> text,
   fields |-> fields, signed |-> signed, genuine |-> genuine]

MCText(n) == [i \in 1 .. n |-> 60]
Usual     == CHOOSE f \in MCFields : f.token = "t" /\ f.event = "kf_msg_or_event"

\* Texts that need every padding there is; and, for a few of them, other methods,
\* bodies that are too large, missing signatures, and bytes that differ from what
\* WeCom encrypted: one of them changed, some of them missing, or none at all.
InitCallback ==
  /\ handler = Handling("verify")
  /\ \/ \E n \in 0 .. 70, m \in {"GET", "POST"}, f \in MCFields :
          request = Request(m, FALSE, Encrypted(MCText(n)), MCText(n), f, TRUE, TRUE)
     \/ \E n \in {0, 9, 10, 11, 40}, m \in {"GET", "POST", "PUT"}, o, s \in BOOLEAN :
          /\ m = "PUT" \/ o \/ ~s
          /\ request = Request(m, o, Encrypted(MCText(n)), MCText(n), Usual, s, FALSE)
     \/ \E n \in {0, 9, 10, 11, 40}, m \in {"GET", "POST"} :
          \E i \in 1 .. Len(Encrypted(MCText(n))), b \in {0, 1, 2, 16, 32, 33, 119} :
            request = Request(m, FALSE, [Encrypted(MCText(n)) EXCEPT ![i] = b], MCText(n),
                              Usual, TRUE, Encrypted(MCText(n))[i] = b)
     \/ \E n \in {0, 9, 10, 11, 40}, k \in 0 .. 95 :
          /\ k < Len(Encrypted(MCText(n)))
          /\ request = Request("POST", FALSE, SubSeq(Encrypted(MCText(n)), 1, k), MCText(n),
                               Usual, TRUE, FALSE)

-----------------------------------------------------------------------------
\* Contents

MCMaxName      == 4
MCPreview      == 3
MCMaxFileBytes == 3
MCMaxPages     == 2

Chars == {"x", "/", Dot, "pdf", "PDF", "txt", "jpeg"}

Content(kind, text, name, content, size, pages) ==
  [kind |-> kind, text |-> text, name |-> name, content |-> content, size |-> size, pages |-> pages]

\* Texts of a few characters, and media of every type under names of every kind;
\* images have a page.
InitIntake ==
  /\ \/ \E text \in UpTo({"x", "/", Dot, Blank, "txt"}, 4), c \in {"text", "nul"},
           size \in {1, 3, 4}, pages \in 1 .. 3 :
          pending = Content("text", text, <<>>, c, size, pages)
     \/ \E name \in UpTo(Chars, 3) \cup {<<"x", "x", Dot, "pdf">>, <<"x", "x", "x", Dot, "pdf">>},
           c \in {"text", "pdf", "jpg", "ole", "nul"}, size \in {0, 3, 4, 5}, pages \in {1, 3} :
          pending = Content("file", <<>>, name, c, size, pages)
     \/ \E name \in UpTo(Chars, 3), c \in {"text", "pdf", "jpg", "png", "nul"}, size \in {0, 3, 4, 5} :
          pending = Content("image", <<>>, name, c, size, 1)
     \/ \E ext \in Texts \cup Jpegs \cup Office \cup Media \cup Zips,
           c \in {"text", "ole", "nul"} \cup Media \cup Zips, kind \in {"file", "image"} :
          pending = Content(kind, <<>>, <<"x", Dot, ext>>, c, 1, 1)
  /\ intake = Intake("load")

-----------------------------------------------------------------------------
\* Environments

MCCwKeys == {"cw_1", "cw_2"}

Unset == [n \in DOMAIN Settings |-> <<>>]

Environment(complete, ids, users, keys, numbers) ==
  [complete |-> complete, openKfIDs |-> ids, users |-> users, keys |-> keys, numbers |-> numbers]

Edges(n) == {<<>>, <<-1>>, <<0>>, <<1>>, <<5>>, <<6>>, <<60000>>, <<60001>>, <<MaxInt>>}

\* Lists with blank and repeated items and keys for anybody, the same or different
\* ones; and every number at its limits, the times of life also two at once.
InitConfig ==
  /\ \/ \E complete \in BOOLEAN, ids \in UpTo({"", "kf"}, 2), users \in UpTo({"", "alice", "bob"}, 2),
           named \in SUBSET {"alice", "bob", "mallory"} :
          \E keys \in [named -> MCCwKeys \cup {"other"}] :
            env = Environment(complete, ids, users, keys, Unset)
     \/ \E n \in DOMAIN Settings : \E e \in Edges(n), t \in Edges(n) :
          env = Environment(TRUE, <<"kf">>, <<"alice">>, [u \in {"alice"} |-> "cw_1"],
                            [Unset EXCEPT !["PRINT_CONFIRMATION_TTL_MS"] = t, ![n] = e])
  /\ config = [read |-> FALSE, result |-> {}]

-----------------------------------------------------------------------------
\* Lists of records

MCLimit == 2

\* Lists shorter and longer than the limit, of equal and different times, in any
\* order, some of them without one.
InitQuery ==
  /\ \E times \in UpTo(0 .. 3, 5), ok \in BOOLEAN :
       answer = [ok |-> ok, records |-> [k \in DOMAIN times |-> [place |-> k, createdAt |-> times[k]]]]
  /\ query = Query("list")

-----------------------------------------------------------------------------
Init ==
  \/ InitIpp /\ RestCallback /\ RestIntake /\ RestConfig /\ RestQuery
  \/ RestIpp /\ InitCallback /\ RestIntake /\ RestConfig /\ RestQuery
  \/ RestIpp /\ RestCallback /\ InitIntake /\ RestConfig /\ RestQuery
  \/ RestIpp /\ RestCallback /\ RestIntake /\ InitConfig /\ RestQuery
  \/ RestIpp /\ RestCallback /\ RestIntake /\ RestConfig /\ InitQuery

Next ==
  \/ IppNext      /\ UNCHANGED <<callbackVars, intakeVars, configVars, queryVars>>
  \/ CallbackNext /\ UNCHANGED <<ippVars, intakeVars, configVars, queryVars>>
  \/ IntakeNext   /\ UNCHANGED <<ippVars, callbackVars, configVars, queryVars>>
  \/ LoadConfig   /\ UNCHANGED <<ippVars, callbackVars, intakeVars, queryVars>>
  \/ QueryNext    /\ UNCHANGED <<ippVars, callbackVars, intakeVars, configVars>>

Spec == Init /\ [][Next]_<<ippVars, callbackVars, intakeVars, configVars, queryVars>>

=============================================================================
