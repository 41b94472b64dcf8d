----------------------------- MODULE SqlParser ------------------------------
(***************************************************************************)
(* sql_parse of src/sql.c: a recursive descent over the text of one        *)
(* statement.  Each function of the parser takes the place p it starts at  *)
(* and gives the place behind what it has read, or Fail; a value it reads  *)
(* comes with the place, as [at, value].  Every function fails from Fail.  *)
(*                                                                         *)
(* A keyword is one character here, in any case, and a letter of every     *)
(* word it is part of: "select" followed by "n" is another word.  The      *)
(* length limits on words (32 and 64 bytes) are left out: a word that is   *)
(* too long is none of the keywords and is refused as such.                *)
(***************************************************************************)
EXTENDS CText, Functions

CONSTANTS
  MaxInt,   \* INT_MAX
  NameMax   \* DB_NAME_MAX, the zero byte included

ASSUME SqlLimitsAssumption == MaxInt \in Nat /\ NameMax \in Nat \ {0}

Keywords == {"insert", "into", "users", "values", "select", "from", "where",
             "id", "name", "age", "sql"}
Letters == Keywords \cup {"n", "r", "t", "u", "b"}
Columns == {"id", "name", "age"}
MaxSelectColumns == 3

Fail == 0
Nothing == [at |-> Fail, value |-> <<>>]
Refused == [type |-> "refused"]

-----------------------------------------------------------------------------
ReadWord(s, p) ==
  LET c == Skip(s, p, Blanks)
      end == Skip(s, c, Letters \cup Digits)
  IN  IF p # Fail /\ At(s, c) \in Letters THEN [at |-> end, value |-> SubSeq(s, c, end - 1)]
      ELSE Nothing

ExpectKeyword(s, p, k) == IF ReadWord(s, p).value = <<k>> THEN ReadWord(s, p).at ELSE Fail

ExpectSymbol(s, p, c) ==
  LET cur == Skip(s, p, Blanks)
  IN  IF p # Fail /\ At(s, cur) = c THEN cur + 1 ELSE Fail

\* strtol takes a sign; only values from 0 to INT_MAX are let through.
ParseIntValue(s, p) ==
  LET cur == Skip(s, p, Blanks)
      first == IF At(s, cur) \in {"+", "-"} THEN cur + 1 ELSE cur
      end == Skip(s, first, Digits)
      number == Number(SubSeq(s, first, end - 1))
      value == IF At(s, cur) = "-" THEN -number ELSE number
  IN  IF p # Fail /\ end > first /\ value \in 0..MaxInt
      THEN [at |-> end, value |-> value]
      ELSE Nothing

\* Faulty variant: the room for the zero byte is forgotten.
ParseLongLiteral(s, p) ==
  LET first == ExpectSymbol(s, p, "'")
      quotes == {j \in first..Len(s) : s[j] = "'"}
  IN  IF first # Fail /\ quotes # {} /\ Min(quotes) - first <= NameMax
      THEN [at |-> Min(quotes) + 1, value |-> SubSeq(s, first, Min(quotes) - 1)]
      ELSE Nothing

\* Everything up to the next quote; there are no escapes.
ParseStringLiteral(s, p) ==
  LET first == ExpectSymbol(s, p, "'")
      quotes == {j \in first..Len(s) : s[j] = "'"}
  IN  IF first # Fail /\ quotes # {} /\ Min(quotes) - first < NameMax
      THEN [at |-> Min(quotes) + 1, value |-> SubSeq(s, first, Min(quotes) - 1)]
      ELSE Nothing

AtStatementEnd(s, p) ==
  LET semicolon == ExpectSymbol(s, p, ";")
      last == IF semicolon # Fail THEN semicolon ELSE p
  IN  p # Fail /\ At(s, Skip(s, last, Blanks)) = "nul"

-----------------------------------------------------------------------------
\* One more column: a name of the table's that has not been selected yet.
ParseColumnName(s, p, selected) ==
  LET word == ReadWord(s, p)
      new == word.value \in {<<c>> : c \in Columns} /\ word.value[1] \notin Range(selected)
  IN  IF new THEN [at |-> word.at, value |-> selected \o word.value] ELSE Nothing

\* The star, or up to three columns; after[n] is what follows n of them.
ParseSelectColumns(s, p) ==
  LET star == ExpectSymbol(s, p, "*")
      after[n \in 1..MaxSelectColumns] ==
        IF n = 1 THEN ParseColumnName(s, p, <<>>)
        ELSE ParseColumnName(s, ExpectSymbol(s, after[n - 1].at, ","), after[n - 1].value)
      ends == {n \in DOMAIN after : ExpectSymbol(s, after[n].at, ",") = Fail}
  IN  IF star # Fail THEN [at |-> star, value |-> <<>>]
      ELSE IF ends = {} THEN Nothing
      ELSE after[Min(ends)]

InsertStatement(hasId, id, name, age) ==
  [type |-> "insert", hasId |-> hasId, id |-> id, name |-> name, age |-> age]

ParseInsertValuesWithId(s, p) ==
  LET id == ParseIntValue(s, ExpectSymbol(s, p, "("))
      name == ParseStringLiteral(s, ExpectSymbol(s, id.at, ","))
      age == ParseIntValue(s, ExpectSymbol(s, name.at, ","))
  IN  IF AtStatementEnd(s, ExpectSymbol(s, age.at, ")")) /\ id.value > 0
      THEN InsertStatement(TRUE, id.value, name.value, age.value)
      ELSE Refused

\* With VALUES behind the table, or from there again with the columns.
ParseInsert(s, p) ==
  LET table == ExpectKeyword(s, ExpectKeyword(s, ExpectKeyword(s, p, "insert"), "into"), "users")
      values == ExpectKeyword(s, table, "values")
      columns == ExpectKeyword(s, ExpectKeyword(s, table, "name"), "age")
      name == ParseStringLiteral(s, ExpectKeyword(s, columns, "values"))
      age == ParseIntValue(s, name.at)
  IN  IF values # Fail THEN ParseInsertValuesWithId(s, values)
      ELSE IF AtStatementEnd(s, age.at) THEN InsertStatement(FALSE, 0, name.value, age.value)
      ELSE Refused

SelectStatement(columns, where, id, name) ==
  [type |-> "select", columns |-> columns, where |-> where, id |-> id, name |-> name]

\* select_all is columns = <<>>: a list that is read is never empty.
ParseSelect(s, p) ==
  LET columns == ParseSelectColumns(s, ExpectKeyword(s, p, "select"))
      table == ExpectKeyword(s, ExpectKeyword(s, columns.at, "from"), "users")
      where == ReadWord(s, ExpectKeyword(s, table, "where"))
      equals == ExpectSymbol(s, where.at, "=")
      id == ParseIntValue(s, equals)
      name == ParseStringLiteral(s, equals)
  IN  IF AtStatementEnd(s, table) THEN SelectStatement(columns.value, "none", 0, <<>>)
      ELSE IF where.value = <<"id">> /\ AtStatementEnd(s, id.at)
           THEN SelectStatement(columns.value, "id", id.value, <<>>)
      ELSE IF where.value = <<"name">> /\ AtStatementEnd(s, name.at)
           THEN SelectStatement(columns.value, "name", 0, name.value)
      ELSE Refused

SqlParse(s) ==
  LET p == Skip(s, 1, Blanks)
  IN  CASE At(s, p) = "insert" -> ParseInsert(s, p)
        [] At(s, p) = "select" -> ParseSelect(s, p)
        [] OTHER -> Refused
=============================================================================
