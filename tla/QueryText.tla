----------------------------- MODULE QueryText ------------------------------
(***************************************************************************)
(* The two conversions of text around a query: http_extract_sql of         *)
(* src/http.c takes the SQL out of a request body, which is either the SQL *)
(* itself or a JSON object with a member "sql"; json_escape_dup of         *)
(* src/util.c writes text into the strings of a response.                  *)
(***************************************************************************)
EXTENDS CText, SequencesExt

CONSTANT SqlMax  \* SQL_MAX_LEN, the zero byte included

ASSUME SqlMaxAssumption == SqlMax \in Nat \ {0}

NoSql == [ok |-> FALSE, sql |-> <<>>]
Sql(text) == IF Len(text) < SqlMax THEN [ok |-> TRUE, sql |-> text] ELSE NoSql

-----------------------------------------------------------------------------
\* copy_raw_sql: the body without the blanks around it.
CopyRawSql(body) ==
  LET solid == {i \in 1..Len(body) : body[i] \notin Blanks}
  IN  IF solid = {} THEN NoSql ELSE Sql(SubSeq(body, Min(solid), Max(solid)))

SqlKey == <<"quote", "sql", "quote">>

\* The escapes that extract_json_sql knows.
Escapes == {"quote", "bslash", "slash", "n", "r", "t"}
Unescaped(c) == CASE c = "n" -> "lf" [] c = "r" -> "cr" [] c = "t" -> "tab" [] OTHER -> c

\* The JSON string whose characters begin at place first.
JsonString(body, first) ==
  LET more(c, rest) == IF rest.ok THEN [rest EXCEPT !.sql = <<c>> \o @] ELSE NoSql
      string[i \in first..Len(body) + 1] ==
        CASE At(body, i) = "nul" -> NoSql
          [] At(body, i) = "quote" -> [ok |-> TRUE, sql |-> <<>>]
          [] At(body, i) = "bslash" /\ At(body, i + 1) \in Escapes ->
               more(Unescaped(body[i + 1]), string[i + 2])
          [] At(body, i) = "bslash" /\ At(body, i + 1) \notin Escapes -> NoSql
          [] OTHER -> more(body[i], string[i + 1])
  IN  string[first]

\* extract_json_sql: the value of the first thing that looks like the key.
ExtractJsonSql(body) ==
  LET key == Find(body, SqlKey)
      colon == Skip(body, key + Len(SqlKey), Blanks)
      quote == Skip(body, colon + 1, Blanks)
      value == JsonString(body, quote + 1)
  IN  IF key # 0 /\ At(body, colon) = ":" /\ At(body, quote) = "quote" /\ value.ok
      THEN Sql(value.sql)
      ELSE NoSql

HttpExtractSql(body) ==
  IF At(body, Skip(body, 1, Blanks)) = "{" THEN ExtractJsonSql(body) ELSE CopyRawSql(body)

-----------------------------------------------------------------------------
\* Faulty variant: a backslash is copied as it is.
EscapeQuotesOnly(c) ==
  CASE c = "quote" -> <<"bslash", "quote">>
    [] c = "lf" -> <<"bslash", "n">>
    [] c = "cr" -> <<"bslash", "r">>
    [] c = "tab" -> <<"bslash", "t">>
    [] c = "vt" -> <<"bslash", "u", "0", "0", "0", "b">>
    [] OTHER -> <<c>>

\* "vt", 0x0b, stands for the control characters without an escape of their own,
\* the form feed among them.
JsonEscape(c) ==
  CASE c \in {"quote", "bslash"} -> <<"bslash", c>>
    [] c = "lf" -> <<"bslash", "n">>
    [] c = "cr" -> <<"bslash", "r">>
    [] c = "tab" -> <<"bslash", "t">>
    [] c = "vt" -> <<"bslash", "u", "0", "0", "0", "b">>
    [] OTHER -> <<c>>

JsonEscapeDup(text) == FlattenSeq([i \in DOMAIN text |-> JsonEscape(text[i])])
=============================================================================
