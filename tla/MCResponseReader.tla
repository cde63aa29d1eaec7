-------------------------- MODULE MCResponseReader --------------------------
(* Instances of ResponseReader for TLC. *)
EXTENDS ResponseReader

Prefixes(w) == {SubSeq(w, 1, i) : i \in 0 .. Len(w)}

\* Two messages, the first with bytes that look like flags, the second empty;
\* then the trailers "a:" and "b:c".
Response == <<0, 0, 0, 0, 2, 128, 10>> \o <<1, 0, 0, 0, 0>>
              \o <<128, 0, 0, 0, 7, 97, 58, 10, 98, 58, 99, 10>>

\* A whole response, cut off anywhere; one without data or without trailers; and
\* bodies that break each of the rules: an early blank line, a line without a
\* colon, one without a key, a compressed frame, bytes after the trailers, a
\* frame that does not end, a last line that does not end, also with bytes after
\* it, a message longer than the body.
MCWires ==
    Prefixes(Response)
      \cup { <<128, 0, 0, 0, 0>>,
             <<128, 0, 0, 0, 3, 97, 58, 10>>,
             <<128, 0, 0, 0, 5, 97, 58, 10, 10, 97>>,
             <<128, 0, 0, 0, 2, 97, 10>>,
             <<128, 0, 0, 0, 2, 58, 10>>,
             <<129, 0, 0, 0, 0>>,
             <<128, 0, 0, 0, 0, 0>>,
             <<128, 0, 0, 0, 4, 97, 58, 10>>,
             <<128, 0, 0, 0, 2, 97, 58>>,
             <<128, 0, 0, 0, 3, 97, 58, 98, 97, 58, 10>>,
             <<0, 0, 0, 0, 1, 9, 128, 0, 0, 0, 0, 128, 0, 0, 0, 0>>,
             <<0, 0, 0, 1, 128, 128, 0>> }

MCReadSizes == {4, 32}
=============================================================================
