------------------------------- MODULE Query --------------------------------
(***************************************************************************)
(* From the body of POST /query to the call of the storage engine:         *)
(* handle_query and execute_statement of src/server.c, on top of QueryText *)
(* and SqlParser.  A client writes a query, changes it in a few places and *)
(* posts it, as plain text and as JSON.                                    *)
(*                                                                         *)
(* What a query means is said a second time and in another way, by the     *)
(* sentences of the language: a text is cut into lexemes, the longest      *)
(* first, and means the request whose sentence these lexemes are.          *)
(***************************************************************************)
EXTENDS QueryText, SqlParser

CONSTANTS
  Queries,     \* the texts a client starts from
  Characters,  \* what it writes into them
  MaxEdits     \* bound on the changes to one text

\* The characters of a text, which has no zero byte; "other" stands for all
\* those that no function looks for.
Chars ==
  Letters \cup Digits \cup Blanks
    \cup {"(", ")", ",", "=", "*", ";", "'", "+", "-", "{", "}", ":",
          "quote", "bslash", "slash", "other"}

ASSUME TextsAssumption ==
  /\ \A q \in Queries : q \in Seq(Chars)
  /\ \A c \in Characters : c \in Chars

VARIABLES
  text,    \* the SQL text
  edits,   \* how many changes have been made
  outcome  \* for each encoding posted: the engine's request, or Refused

vars == <<text, edits, outcome>>

-----------------------------------------------------------------------------
InsertRequest(hasId, id, name, age) ==
  [hasId |-> hasId, id |-> id, name |-> name, age |-> age]

SelectRequest(filter, id, name, columns) ==
  [filter |-> filter, id |-> id, name |-> name,
   projection |-> [columns |-> columns,
                   include |-> IF columns = <<>> THEN Columns ELSE Range(columns)]]

\* execute_statement: which function of the engine is called, and with what.
ExecuteStatement(stmt) ==
  IF stmt.type = "insert" THEN InsertRequest(stmt.hasId, stmt.id, stmt.name, stmt.age)
  ELSE SelectRequest(IF stmt.where = "none" THEN "all" ELSE stmt.where,
                     stmt.id, stmt.name, stmt.columns)

HandleQuery(body) ==
  LET extracted == HttpExtractSql(body)
      stmt == SqlParse(extracted.sql)
  IN  IF extracted.ok /\ stmt # Refused THEN ExecuteStatement(stmt) ELSE Refused

-----------------------------------------------------------------------------
Encodings == {"raw", "json", "spaced"}

\* The bodies in which a client can send a text.
Encoded(t, encoding) ==
  CASE encoding = "raw" -> t
    [] encoding = "json" ->
         <<"{">> \o SqlKey \o <<":", "quote">> \o JsonEscapeDup(t) \o <<"quote", "}">>
    [] encoding = "spaced" ->
         <<"lf", "{", "sp">> \o SqlKey \o <<"sp", ":", "tab", "quote">>
           \o JsonEscapeDup(t) \o <<"quote", "}">>

Init ==
  /\ text \in Queries
  /\ edits = 0
  /\ outcome = [e \in {} |-> Refused]

Edit(t) ==
  /\ edits < MaxEdits
  /\ edits' = edits + 1
  /\ text' = t
  /\ outcome' = [e \in {} |-> Refused]

Write == \E i \in 1..Len(text) + 1, c \in Characters : Edit(InsertAt(text, i, c))
Replace == \E i \in DOMAIN text, c \in Characters : Edit([text EXCEPT ![i] = c])
Erase == \E i \in DOMAIN text : Edit(RemoveAt(text, i))

Post ==
  /\ outcome' = [e \in Encodings |-> HandleQuery(Encoded(text, e))]
  /\ UNCHANGED <<text, edits>>

Next == Write \/ Replace \/ Erase \/ Post

Spec == Init /\ [][Next]_vars

-----------------------------------------------------------------------------
(* The meaning of a query.                                                 *)

IsWord(x) == x # <<>> /\ x[1] \in Letters /\ Range(x) \subseteq Letters \cup Digits
IsUnsigned(x) == x # <<>> /\ Range(x) \subseteq Digits
IsSigned(x) == x # <<>> /\ x[1] \in {"+", "-"} /\ IsUnsigned(Tail(x))
IsString(x) == Len(x) > 1 /\ {i \in DOMAIN x : x[i] = "'"} = {1, Len(x)}

IsLong(x) == IsWord(x) \/ IsUnsigned(x) \/ IsSigned(x) \/ IsString(x)

Lexeme(kind, num, chars) == [kind |-> kind, num |-> num, chars |-> chars]
Mark(c) == Lexeme("mark", 0, <<c>>)
Num(n) == Lexeme("number", n, <<>>)
Str(s) == Lexeme("string", 0, s)

LexemeOf(x) ==
  CASE IsUnsigned(x) -> Num(Number(x))
    [] IsSigned(x) -> Num(IF x[1] = "-" THEN -Number(Tail(x)) ELSE Number(Tail(x)))
    [] IsString(x) -> Str(SubSeq(x, 2, Len(x) - 1))
    [] OTHER -> Lexeme("mark", 0, x)

\* The longest lexeme at each place; a character that begins none is a mark.
EndOfLexeme(t, i) == Max({j \in i..Len(t) : IsLong(SubSeq(t, i, j))} \cup {i})

Lexemes(t) ==
  LET from[i \in 1..Len(t) + 1] ==
        IF i > Len(t) THEN <<>>
        ELSE IF t[i] \in Blanks THEN from[i + 1]
        ELSE <<LexemeOf(SubSeq(t, i, EndOfLexeme(t, i)))>> \o from[EndOfLexeme(t, i) + 1]
  IN  from[1]

SentenceOfInsert(r) ==
  IF r.hasId
  THEN <<Mark("insert"), Mark("into"), Mark("users"), Mark("values"), Mark("("),
         Num(r.id), Mark(","), Str(r.name), Mark(","), Num(r.age), Mark(")")>>
  ELSE <<Mark("insert"), Mark("into"), Mark("users"), Mark("name"), Mark("age"),
         Mark("values"), Str(r.name), Num(r.age)>>

\* The names stand at the odd places, with commas between them.
ListOfColumns(l) ==
  IF l = <<>> THEN <<Mark("*")>>
  ELSE [i \in 1..2 * Len(l) - 1 |-> IF i % 2 = 0 THEN Mark(",") ELSE Mark(l[(i + 1) \div 2])]

SentenceOfSelect(r) ==
  <<Mark("select")>> \o ListOfColumns(r.projection.columns) \o <<Mark("from"), Mark("users")>>
    \o CASE r.filter = "all" -> <<>>
         [] r.filter = "id" -> <<Mark("where"), Mark("id"), Mark("="), Num(r.id)>>
         [] r.filter = "name" -> <<Mark("where"), Mark("name"), Mark("="), Str(r.name)>>

\* The lexemes are a sentence, with or without a semicolon at its end.
Says(lexemes, sentence) == lexemes \in {sentence, sentence \o <<Mark(";")>>}

ColumnLists == {l \in UNION {[1..n -> Columns] : n \in 0..MaxSelectColumns} : IsInjective(l)}

\* The requests whose sentence the lexemes are.  A name has less than NameMax
\* characters, a number is at most INT_MAX and the id of a new row is positive.
RequestsOf(lexemes) ==
  LET nums == {x.num : x \in Range(lexemes)} \cap 0..MaxInt
      names == {s \in {x.chars : x \in Range(lexemes)} : Len(s) < NameMax}
      inserts == {InsertRequest(TRUE, i, n, a) : i \in nums \ {0}, n \in names, a \in nums}
                   \cup {InsertRequest(FALSE, 0, n, a) : n \in names, a \in nums}
      selects == UNION {
        {SelectRequest("all", 0, <<>>, l)} \cup {SelectRequest("id", i, <<>>, l) : i \in nums}
          \cup {SelectRequest("name", 0, n, l) : n \in names} : l \in ColumnLists}
  IN  IF lexemes = <<>> THEN {}
      ELSE IF lexemes[1].chars = <<"insert">>
           THEN {r \in inserts : Says(lexemes, SentenceOfInsert(r))}
      ELSE {r \in selects : Says(lexemes, SentenceOfSelect(r))}

Denoted(t) == RequestsOf(Lexemes(t))

\* A text that is too long is not sent on, and neither is one whose control
\* characters JSON can only write in a way that extract_json_sql does not read.
Sendable(t, encoding) ==
  IF encoding = "raw" THEN CopyRawSql(t).ok
  ELSE Len(t) < SqlMax /\ "vt" \notin Range(t)

\* A text that is itself an object with a query: posted as it is, it is the JSON
\* of another text.
TakenForJson(t, encoding) ==
  encoding = "raw" /\ At(t, Skip(t, 1, Blanks)) = "{" /\ ExtractJsonSql(t).ok

-----------------------------------------------------------------------------
\* The engine is called with what the query says, and is not called for a text
\* that says nothing: no matter how the text is spaced, where a statement is cut
\* off, what is missing or in excess, which limit it just meets or just misses,
\* and whether it was posted as it is or as JSON (http_extract_sql, sql_parse and
\* execute_statement in a row).
QueryMeansWhatItSays ==
  \A e \in {encoding \in DOMAIN outcome : ~TakenForJson(text, encoding)} :
    LET meanings == IF Sendable(text, e) THEN Denoted(text) ELSE {}
    IN  IF meanings = {} THEN outcome[e] = Refused ELSE meanings = {outcome[e]}

\* What a JSON reader finds in a string: the characters up to its closing quote,
\* with the escapes undone, those with a code too.
JsonRead(s) ==
  LET read[i \in 1..Len(s) + 6] ==
        CASE i > Len(s) \/ At(s, i) = "quote" -> <<>>
          [] At(s, i) = "bslash" /\ At(s, i + 1) = "u" -> <<"vt">> \o read[i + 6]
          [] At(s, i) = "bslash" /\ At(s, i + 1) # "u" ->
               <<Unescaped(At(s, i + 1))>> \o read[i + 2]
          [] OTHER -> <<At(s, i)>> \o read[i + 1]
  IN  read[1]

\* Whatever a stored name or a message contains, quotes, backslashes and control
\* characters in any order: a client that reads the response gets that text back,
\* the string ends where the server ended it, and json_escape_dup has not written
\* beyond the six bytes it reserves for each character and the zero byte.
ReplyTextSurvives ==
  LET escaped == JsonEscapeDup(text)
  IN  /\ JsonRead(escaped \o <<"quote", ",", "quote">>) = text
      /\ Len(escaped) + 1 <= 6 * Len(text) + 1
      /\ Range(escaped) \cap {"lf", "cr", "tab", "vt"} = {}
=============================================================================
