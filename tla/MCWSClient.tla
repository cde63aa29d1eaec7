---------------------------- MODULE MCWSClient ----------------------------
(* Instances of WSClient for TLC. *)
EXTENDS WSClient

Frame(flags, length, meta) ==
    [mt |-> "binary", flags |-> flags, length |-> length,
     size |-> MessageHeaderLength + length, meta |-> meta]

Data == Frame(0, 1, "none")
Headers == Frame(metadataMask, 1, "none")
Status(s) == Frame(metadataMask, 1, s)
Compressed == Frame(metadataMask + compressionMask, 1, "OK")
Text == [Data EXCEPT !.mt = "text"]
Short == [Data EXCEPT !.size = 3]

\* Complete responses with and without a body, a response without a status,
\* messages after the status, and responses that break each of the rules.
MCScripts ==
    { <<Headers, Data, Status("OK")>>,
      <<Headers, Headers>>,
      <<Status("NotFound"), Data>>,
      <<Headers, Status("OK"), Data>>,
      <<Headers, Compressed>>,
      <<Headers, Status("malformed")>>,
      <<Status("malformed")>>,
      <<Data>>,
      <<Text>>,
      <<Headers, Short>> }

\* A server that does everything right.
MCCompleteScripts == { <<Headers, Data, Status("OK")>> }

MCStatuses == {"OK", "NotFound"}
=============================================================================
