----------------------------- MODULE GRPCMessage -----------------------------
(***************************************************************************)
(* EncodeGrpcMessage of internal/grpcproto/message.go, which writeError    *)
(* uses to put the text of an error into the grpc-message header.  Texts   *)
(* are sequences of bytes: which of them are escaped is all there is to    *)
(* it.  unicode/utf8 is external.                                          *)
(***************************************************************************)
EXTENDS Naturals, SequencesExt

Byte == 0 .. 255

\* The texts of errors, which need not be UTF-8.
Text == Seq(Byte)

From(s, i) == SubSeq(s, i, Len(s))

\* Printable ASCII without "%".
Allowable(b) == b \in 32 .. 126 /\ b # 37

\* The second byte of a character: no longer form than needed, no surrogate, and
\* nothing beyond U+10FFFF.
SecondByte(lead) ==
    CASE lead = 224 -> 160 .. 191
      [] lead = 237 -> 128 .. 159
      [] lead = 240 -> 144 .. 191
      [] lead = 244 -> 128 .. 143
      [] OTHER -> 128 .. 191

\* The size utf8.DecodeRuneInString returns: 1 for ASCII and for what is not UTF-8.
RuneSize(s) ==
    LET size == CASE s[1] \in 194 .. 223 -> 2
                  [] s[1] \in 224 .. 239 -> 3
                  [] s[1] \in 240 .. 244 -> 4
                  [] OTHER -> 1
    IN  IF /\ size <= Len(s)
           /\ size > 1 => s[2] \in SecondByte(s[1])
           /\ \A i \in 3 .. size : s[i] \in 128 .. 191
        THEN size ELSE 1

\* []byte(string(r)) for the rune r that is decoded; utf8.RuneError is U+FFFD.
RuneBytes(s) ==
    IF RuneSize(s) = 1 /\ s[1] > 127 THEN <<239, 191, 189>> ELSE SubSeq(s, 1, RuneSize(s))

HexDigit(n) == IF n < 10 THEN 48 + n ELSE 55 + n

Percent(b) == <<37, HexDigit(b \div 16), HexDigit(b % 16)>>

\* An encoding that escapes what is not printable only.
EncodedByteBlind(b, size) == IF size > 1 \/ b \notin 32 .. 126 THEN Percent(b) ELSE <<b>>

EncodedByte(b, size) == IF size > 1 \/ ~Allowable(b) THEN Percent(b) ELSE <<b>>

EncodedRune(s) ==
    LET r == RuneBytes(s)
    IN  FlattenSeq([i \in DOMAIN r |-> EncodedByte(r[i], RuneSize(s))])

encodeGrpcMessageUnchecked[s \in Seq(Byte)] ==
    IF s = <<>> THEN <<>>
    ELSE EncodedRune(s) \o encodeGrpcMessageUnchecked[From(s, RuneSize(s) + 1)]

EncodeGrpcMessage(s) ==
    IF \A i \in DOMAIN s : Allowable(s[i]) THEN s ELSE encodeGrpcMessageUnchecked[s]

------------------------------------------------------------------------------
(* What the gRPC client makes of the header: "%" and two digits are a byte.  *)

HexDigits == {HexDigit(n) : n \in 0 .. 15}

HexValue(d) == IF d < 58 THEN d - 48 ELSE d - 55

Decoded[s \in Seq(Byte)] ==
    IF s = <<>> THEN <<>>
    ELSE IF s[1] = 37 /\ Len(s) > 2 /\ Range(SubSeq(s, 2, 3)) \subseteq HexDigits
    THEN <<16 * HexValue(s[2]) + HexValue(s[3])>> \o Decoded[From(s, 4)]
    ELSE <<s[1]>> \o Decoded[Tail(s)]

\* The text with the replacement character for each byte that is not UTF-8.
Repaired[s \in Seq(Byte)] ==
    IF s = <<>> THEN <<>>
    ELSE RuneBytes(s) \o Repaired[From(s, RuneSize(s) + 1)]
==============================================================================
