----------------------------- MODULE HttpAnswer -----------------------------
(***************************************************************************)
(* The answers of HTTP servers, as HttpClient reads them.                  *)
(*                                                                         *)
(* The answer of the server is a sequence of tokens that arrive in reads   *)
(* cut anywhere: head and empty line, then as many bytes of a body as the  *)
(* head says, or chunks (a line with the size, the bytes, a line end), or  *)
(* bytes until the end.  Over HTTP/2 it is frames: head, data, and the end *)
(* of the stream or its reset.                                             *)
(***************************************************************************)
EXTENDS Naturals, Sequences, SequencesExt

Tokens == [k : {"head", "chunked", "blank", "crlf", "size", "data", "end", "reset", "junk"}, n : Nat]
Token(k, n) == [k |-> k, n |-> n]
Blank == Token("blank", 0)
Crlf == Token("crlf", 0)
Data(n) == [i \in 1 .. n |-> Token("data", i)]

\* The four ways to answer.  A head says "chunked", or how long the body is, or nothing (0).
Length(n) == <<Token("head", n), Blank>> \o Data(n)
Open(n) == <<Token("head", 0), Blank>> \o Data(n)
Interim(final) == <<Token("head", 0), Blank>> \o final
Chunked(sizes) ==
    LET chunk(i) == <<Token("size", sizes[i])>> \o [j \in 1 .. sizes[i] |-> Token("data", 2 * i + j)] \o <<Crlf>>
    IN  <<Token("chunked", 0), Blank>> \o FlattenSeq([i \in DOMAIN sizes |-> chunk(i)]) \o <<Token("size", 0), Crlf>>

\* The tokens of kind k in text.  It is SelectSeq, in a form that can be proved about.
IsKind(k, text) ==
    LET kept[i \in 0 .. Len(text)] ==
          IF i = 0 THEN <<>> ELSE IF text[i].k = k THEN Append(kept[i - 1], text[i]) ELSE kept[i - 1]
    IN  kept[Len(text)]

\* Another answer comes before the last one.
Interrupted(text) == Len(IsKind("blank", text)) > 1

\* One answer, in one of the ways.
Plain(text) ==
    \/ \E n \in 0 .. Len(text) : text = Length(n) \/ text = Open(n)
    \/ \E m \in 0 .. Len(text) : \E sizes \in [1 .. m -> 1 .. Len(text)] : text = Chunked(sizes)

Has(k, text) == \E i \in DOMAIN text : text[i].k = k
Sent(text) == IsKind("data", text)
Frames(text) == <<Token("head", 0)>> \o Sent(text) \o <<Token("end", 0)>>
=============================================================================
