------------------------------- MODULE SqlText --------------------------------
(***************************************************************************)
(* The tokens of SQL (sqltoken.c, iustoken.c, tokencmp.c) and what the     *)
(* command reader asks of them (readcmd.c): does a text begin a procedure, *)
(* and does it end one?                                                    *)
(*                                                                         *)
(* A text is a sequence of characters, of which a word of letters is one   *)
(* ("end" is a character, <<"end", "a">> another word).  A position past   *)
(* the end of a text is that of its terminating NUL.                       *)
(***************************************************************************)
EXTENDS Integers, Sequences, FiniteSets, FiniteSetsExt

Spaces == {" ", "\n"}
Quotes == {"'", "\""}
Digits == {"0", "1"}
Letters == {"a", "e", "x", "_", "create", "dba", "procedure", "function", "end", "external", "name",
            "set", "select", "sql"}
HexDigits == Digits \cup {"a", "e"}

At(text, i) == IF i \in DOMAIN text THEN text[i] ELSE ""
Ended(text, i) == i > Len(text)

(* strchr: the first position from i on of a character of S; 0 for none.     *)
Find(text, i, S) ==
  LET found == {j \in DOMAIN text : j >= i /\ text[j] \in S}
  IN  IF found = {} THEN 0 ELSE Min(found)

(* The first position from i on whose character is not in S. *)
Span(text, i, S) ==
  LET others == {j \in DOMAIN text : j >= i /\ text[j] \notin S}
  IN  IF others = {} THEN Max({i, Len(text) + 1}) ELSE Min(others)

---------------------------------------------------------------------------
(* sqlcomment: the comment at position i, after blanks.  A style says what   *)
(* opens a comment; kind is "none", "comment", "hint" or "incomplete".       *)
AllStyles == {"brace", "dash", "slash"}

CommentAt(text, b, styles) ==
  LET Closed(close, past, plus) ==
        IF close = 0 THEN [kind |-> "incomplete", bgn |-> b, end |-> Len(text) + 1]
        ELSE [kind |-> IF At(text, plus) = "+" THEN "hint" ELSE "comment", bgn |-> b, end |-> close + past]
      First(stars) == IF stars = {} THEN 0 ELSE Min(stars)
  IN  CASE "brace" \in styles /\ At(text, b) = "{" -> Closed(Find(text, b + 1, {"}"}), 1, b + 1)
        [] "dash" \in styles /\ At(text, b) = "-" /\ At(text, b + 1) = "-" ->
             Closed(Find(text, b + 2, {"\n"}), 1, b + 2)
        [] "slash" \in styles /\ At(text, b) = "/" /\ At(text, b + 1) = "*" ->
             Closed(First({j \in DOMAIN text : j >= b + 2 /\ text[j] = "*" /\ At(text, j + 1) = "/"}), 2, b + 2)
        [] OTHER -> [kind |-> "none", bgn |-> b, end |-> b]

Comment(text, i, styles) == CommentAt(text, Span(text, i, Spaces), styles)

PastComments(text, i, styles) ==
  LET From[j \in Nat] == LET c == Comment(text, j, styles)
                         IN  IF c.kind = "comment" THEN From[c.end] ELSE c
  IN  From[i]

(* The end of a string whose quote is at position i - 1: a doubled quote     *)
(* does not end it; 0 if nothing does.                                       *)
StringEnd(text, i, q) ==
  LET From[j \in Nat] == LET k == Find(text, j, {q})
                         IN  IF k = 0 \/ At(text, k + 1) # q THEN k ELSE From[k + 2]
  IN  From[i]

(* The end of the number at position i. *)
NumberEnd(text, i) ==
  LET AfterWhole(j) == IF At(text, j) = "." THEN Span(text, j + 1, Digits) ELSE j
      Exponent(j) == IF At(text, j + 1) \in {"+", "-"} THEN j + 2 ELSE j + 1
      AfterPoint(j) == IF At(text, j) = "e" /\ At(text, Exponent(j)) \in Digits
                       THEN Span(text, Exponent(j), Digits) ELSE j
  IN  IF At(text, i) = "0" /\ At(text, i + 1) = "x" /\ At(text, i + 2) \in HexDigits
      THEN Span(text, i + 2, HexDigits)
      ELSE AfterPoint(AfterWhole(Span(text, IF At(text, i) = "." THEN i + 1 ELSE i, Digits)))

Pairs == {<<"<", ">">>, <<"<", "=">>, <<">", "=">>, <<"!", "=">>, <<"|", "|">>, <<":", ":">>}

Token(from, to) == [from |-> from, to |-> to]

(* sqltoken: hints and what is left of an incomplete comment are tokens, and *)
(* so is an unterminated string, of no length.                               *)
TokenAfter(text, comment) ==
  LET from == comment.bgn
      c == At(text, from)
      String(close) == Token(from, IF close = 0 THEN from ELSE close + 1)
  IN  CASE comment.kind \in {"hint", "incomplete"} -> Token(from, comment.end)
        [] comment.kind = "none" /\ Ended(text, from) -> Token(from, from)
        [] comment.kind = "none" /\ c \in Quotes -> String(StringEnd(text, from + 1, c))
        [] comment.kind = "none" /\ (c \in Digits \/ (c = "." /\ At(text, from + 1) \in Digits)) ->
             Token(from, NumberEnd(text, from))
        [] comment.kind = "none" /\ c \in Letters -> Token(from, Span(text, from, Letters \cup Digits \cup {"$"}))
        [] OTHER -> Token(from, from + (IF <<c, At(text, from + 1)>> \in Pairs THEN 2 ELSE 1))

SqlToken(text, i) == TokenAfter(text, PastComments(text, i, AllStyles))

Word(text, token) == SubSeq(text, token.from, token.to - 1)

(* iustoken: SET and a brace are the start of a collection. *)
IusToken(text, i) ==
  LET Collection(token, after) ==
        IF Word(text, token) = <<"set">> /\ At(text, after) = "{" THEN Token(token.from, after + 1) ELSE token
      Whole(token) == Collection(token, PastComments(text, token.to, {"slash", "dash"}).bgn)
  IN  Whole(SqlToken(text, i))

(* The tokens of a text; an unterminated string is the last one. *)
Tokens(text) ==
  LET From[i \in Nat] ==
        LET Rest(token) == IF Ended(text, token.from) THEN <<>>
                           ELSE IF token.to = token.from THEN <<token>> ELSE <<token>> \o From[token.to]
        IN  Rest(IusToken(text, i))
  IN  From[1]

---------------------------------------------------------------------------
(* tokencmp asserts that both of its tokens have a length: where a function  *)
(* compares another one, it answers "abort".                                 *)
Comparable(token) == token.to > token.from

(* is_end_proc: END followed by the keyword, or EXTERNAL by NAME.  The token *)
(* after END or EXTERNAL is compared without a look at whether there is one. *)
IsEndProc(text, start, keyword) ==
  LET Ends == {<<<<"end">>, <<keyword>>>>, <<<<"external">>, <<"name">>>>}
      From[i \in Nat, previous \in Seq(STRING)] ==
        LET Answer(token, word) ==
              CASE Ended(text, token.from) /\ previous = <<>> -> "no"
                [] ~(Ended(text, token.from) /\ previous = <<>>) /\ ~Comparable(token) -> "abort"
                [] Comparable(token) /\ <<previous, word>> \in Ends -> "yes"
                [] OTHER -> From[token.to, IF word \in {<<"end">>, <<"external">>} THEN word ELSE <<>>]
            Judge(token) == Answer(token, Word(text, token))
        IN  Judge(IusToken(text, i))
  IN  From[start, <<>>]

(* skipquote and the loop of needs_proc_body: the position of the bracket    *)
(* that closes the first one; 0 if the brackets are not balanced, -1 if the  *)
(* loop steps over the end of the text, after a quote that is not closed.    *)
BracketsEnd(text, start) ==
  LET From[i \in Nat, level \in Int] ==
        LET c == At(text, i)
            quote == Find(text, i + 1, {c})
        IN  CASE Ended(text, i) -> 0
              [] c = "(" -> From[i + 1, level + 1]
              [] c = ")" -> IF level = 1 THEN i ELSE From[i + 1, level - 1]
              [] c \in Quotes -> IF quote = 0 THEN -1 ELSE From[quote + 1, level]
              [] OTHER -> From[i + 1, level]
  IN  From[start, 0]

(* needs_proc_body, as the set of its possible answers: what lies behind the *)
(* end of the text is not known, and "none" is for a text that is not right. *)
NeedsProcBody(text, i, keyword) ==
  LET Unless(ended) == CASE ended = "yes" -> "none" [] ended = "abort" -> "abort" [] OTHER -> keyword
      After(close) == CASE close = -1 -> {"none", "abort", keyword}
                        [] close = 0 -> {"none"}
                        [] OTHER -> {Unless(IsEndProc(text, close + 1, keyword))}
  IN  After(BracketsEnd(text, i))

(* is_crt_proc: the keyword of the procedure this text begins, if it needs   *)
(* more text.                                                                *)
IsCrtProc(text) ==
  LET Named(token, word) ==
        CASE ~Comparable(token) -> {"abort"}
          [] Comparable(token) /\ word \in {<<"procedure">>, <<"function">>} ->
               NeedsProcBody(text, token.to, word[1])
          [] OTHER -> {"none"}
      Third(token) == Named(token, Word(text, token))
      Second(token) == IF Word(text, token) = <<"dba">> THEN Third(IusToken(text, token.to)) ELSE Third(token)
      First(token) == IF Word(text, token) = <<"create">> THEN Second(IusToken(text, token.to)) ELSE {"none"}
  IN  First(IusToken(text, 1))
=============================================================================
