----------------------------- MODULE MCWebCall -----------------------------
(* Instances of WebCall for TLC. *)
EXTENDS WebCall

\* LF, space, "%", "4", "A", "~", DEL; continuation bytes, and bytes that begin characters
\* of two, three and four bytes, or none.
MCBytes == {10, 32, 37, 52, 65, 126, 127, 128, 191, 193, 194, 239, 243, 245}

\* Single bytes; a character of each size, and both sides of the bound where the second
\* byte is restricted, whole and cut, before something else; and texts that look like
\* escapes.
MCTexts ==
    LET characters == {<<194, 128>>, <<239, 191, 189>>, <<243, 128, 191, 128>>}
        restricted == {<<224, 160, 128>>, <<224, 159, 191>>, <<237, 159, 191>>, <<237, 160, 128>>,
                       <<240, 144, 128, 128>>, <<240, 143, 191, 191>>,
                       <<244, 143, 191, 191>>, <<244, 144, 128, 128>>}
        beginnings == UNION {{SubSeq(c, 1, n) : n \in 1 .. Len(c)} : c \in characters \cup restricted}
    IN  UNION {[1 .. n -> MCBytes] : n \in 0 .. 1}
          \cup {c \o <<b>> : c \in beginnings, b \in {37, 65, 128}}
          \cup {<<37, 52>>, <<37, 52, 65>>, <<37, 37, 52, 65>>}
=============================================================================
