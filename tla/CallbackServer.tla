---------------------------- MODULE CallbackServer ----------------------------
(***************************************************************************)
(* One request to the callback server (main.go) with the decryption and    *)
(* parsing it uses (crypto.go): from the request to the answer, and to the *)
(* call of syncFromCallback, where SyncScheduler goes on.                  *)
(*                                                                         *)
(* WeCom is external: it lays out, pads, encrypts and signs a text.        *)
(* Abstracted: a signature fits or not; AES and base64 either give back    *)
(* the bytes that WeCom encrypted or (a damaged request, another key)      *)
(* other bytes; XML gives its fields if the text is the one WeCom wrote,   *)
(* and none otherwise.                                                     *)
(***************************************************************************)
EXTENDS Integers, Sequences

CONSTANTS
  CorpID,   \* WECOM_CORP_ID, as bytes
  NoFields  \* what a text without the fields of a callback gives

ASSUME CorpIDAssumption == CorpID \in Seq(0 .. 255)

VARIABLES
  request,  \* the request, and what WeCom wrote
  handler   \* the handler: where it is, its status, its text, whether it synced

callbackVars == <<request, handler>>

Handling(at) == [at |-> at, status |-> 0, plain |-> <<>>, synced |-> FALSE]

HandlerAt(s) == handler.at = s
Answer(status, at) == handler' = [handler EXCEPT !.status = status, !.at = at]

-----------------------------------------------------------------------------
\* decryptWecomPayload

AESBlock == 16

\* (Mutant: padded to the block size of AES.)
CipherPadding(padding) == padding \in 1 .. AESBlock

\* WeCom pads to multiples of 32.
MayPad(padding) == padding \in 1 .. 32

\* (Mutant: only the last byte is looked at.)
LastByte(bytes, padding) == TRUE

Padded(bytes, padding) ==
  \A i \in Len(bytes) - padding + 1 .. Len(bytes) : bytes[i] = padding

Uint32At(bytes, lo) ==
  16777216 * bytes[lo + 1] + 65536 * bytes[lo + 2] + 256 * bytes[lo + 3] + bytes[lo + 4]

\* The text in decrypted bytes, in a set; none if they are not laid out as they
\* should be.
Decrypt(bytes) ==
  LET padding == bytes[Len(bytes)]
      body    == Len(bytes) - padding
      end     == 20 + Uint32At(bytes, 16)
  IN IF /\ Len(bytes) > 0 /\ Len(bytes) % AESBlock = 0
        /\ MayPad(padding) /\ padding <= Len(bytes)
        /\ Padded(bytes, padding)
        /\ body >= 20
        /\ end <= body
        /\ SubSeq(bytes, end + 1, body) = CorpID
     THEN {SubSeq(bytes, 21, end)}
     ELSE {}

-----------------------------------------------------------------------------
\* The handler

\* The method, the size of the body, and the signature over what it encloses.
Verify ==
  /\ HandlerAt("verify")
  /\ \/ request.method \notin {"GET", "POST"} /\ Answer(405, "done")
     \/ request.method = "POST" /\ request.oversize /\ Answer(400, "done")
     \/ /\ request.method = "GET" \/ (request.method = "POST" /\ ~request.oversize)
        /\ IF request.signed
           THEN handler' = [handler EXCEPT !.at = "decrypt"]
           ELSE Answer(401, "done")
  /\ UNCHANGED request

\* GET answers with the text; POST answers before it hands anything over.
DecryptPayload ==
  /\ HandlerAt("decrypt")
  /\ LET texts == Decrypt(request.bytes)
     IN \/ texts = {} /\ Answer(400, "done")
        \/ \E text \in texts :
             handler' = [handler EXCEPT !.status = 200, !.plain = text,
                           !.at = IF request.method = "GET" THEN "done" ELSE "parse"]
  /\ UNCHANGED request

\* parseWecomCallback.
Fields(text) == IF text = request.text THEN request.fields ELSE NoFields

Complete(fields) ==
  fields.event = "kf_msg_or_event" /\ fields.open # "" /\ fields.token # ""

\* syncFromCallback is called.
ParseCallback ==
  /\ HandlerAt("parse")
  /\ handler' = [handler EXCEPT !.at = "done", !.synced = Complete(Fields(handler.plain))]
  /\ UNCHANGED request

CallbackNext == Verify \/ DecryptPayload \/ ParseCallback

-----------------------------------------------------------------------------
\* What WeCom sends

Uint32(n)      == <<n \div 16777216, (n \div 65536) % 256, (n \div 256) % 256, n % 256>>
Repeat(b, n)   == [i \in 1 .. n |-> b]
PaddingOf(n)   == 32 - (n % 32)
Pad(bytes)     == bytes \o Repeat(PaddingOf(Len(bytes)), PaddingOf(Len(bytes)))
Layout(text)   == Uint32(Len(text)) \o text \o CorpID
Encrypted(text) == Pad(Repeat(7, 16) \o Layout(text))

\* A length below 2^32, which is what the length field can count.
Countable(n) == n \div 16777216 < 256

\* A request of WeCom: a text that the length field can count, encrypted for this
\* corporation.
Genuine ==
  /\ request.method \in {"GET", "POST"} /\ ~request.oversize /\ request.signed
  /\ request.text \in Seq(0 .. 255) /\ Countable(Len(request.text))
  /\ request.bytes = Encrypted(request.text)

\* Any request whatever, and those of WeCom.
CallbackInit ==
  /\ request.bytes \in Seq(0 .. 255)
  /\ request.genuine => Genuine
  /\ handler = Handling("verify")

CallbackSpec == CallbackInit /\ [][CallbackNext]_callbackVars

-----------------------------------------------------------------------------
\* Properties

\* A request of WeCom is answered with 200, a callback is passed on if it says so,
\* and the test of the URL gets its text back, however long the text and so the
\* padding is (decryptWecomPayload, callbackServer).
GenuineIsHandled ==
  HandlerAt("done") /\ request.genuine =>
    /\ handler.status = 200
    /\ handler.plain = request.text
    /\ request.method = "POST" => handler.synced = Complete(request.fields)

\* What is answered with 200 was laid out as WeCom does to the last byte: a text
\* that is damaged in its length, its corporation or its padding is not used, and
\* syncs nothing (decryptWecomPayload).
OnlyWellFormed ==
  handler.status = 200 \/ handler.synced =>
    /\ request.signed
    /\ \E padding \in 1 .. 32 :
         request.bytes = SubSeq(request.bytes, 1, 16) \o Layout(handler.plain)
                           \o Repeat(padding, padding)

=============================================================================
