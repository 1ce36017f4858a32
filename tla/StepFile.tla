------------------------------ MODULE StepFile ------------------------------
(* Reading a STEP file (ifc-step): the schema is taken from the header, the *)
(* data section is cut into entities by one scan that only knows strings    *)
(* and semicolons, and each entity is parsed on its own, in parallel.       *)
(*                                                                          *)
(* A text is a sequence of characters.  A keyword or a schema name is one   *)
(* character of it, there is one lower-case letter, "a", and two digits.    *)
(* The strings of the code's UTF-8 decoder are sequences of numbers.        *)
EXTENDS Integers, Sequences, FiniteSets, SequencesExt

Digits == {"1", "2"}
Letters == {"A", "a", "E", "T", "F", "ENDSEC", "IFC4", "DATA"}
Blank == {" ", "\n"}
Identifier == Digits \cup Letters \cup {"_"}
At(t, i) == IF i \in DOMAIN t THEN t[i] ELSE "end"
Least(S) == CHOOSE x \in S : \A y \in S : x <= y
NextOf(t, i, S) == Least({ j \in i..Len(t) : t[j] \in S } \cup {Len(t) + 1})
Past(t, i, S) == Least({ j \in i..Len(t) : t[j] \notin S } \cup {Len(t) + 1})
Skip(t, i) == Past(t, i, Blank)
Trim(t) == LET solid == { i \in DOMAIN t : t[i] \notin Blank }
           IN  IF solid = {} THEN <<>> ELSE SubSeq(t, Least(solid), CHOOSE i \in solid : \A j \in solid : j <= i)
Upper(t) == [ i \in DOMAIN t |-> IF t[i] = "a" THEN "A" ELSE t[i] ]
Val(kind, text, items) == [ kind |-> kind, text |-> text, items |-> items ]

(* ----- parse_string_literal: '' is a quote, ' ends the string ------------ *)
RECURSIVE Literal(_, _, _)
(* Mutation: a quote ends the string, doubled or not.                       *)
FirstQuote(t, i, read) == << SubSeq(t, i, NextOf(t, i, {"'"}) - 1), NextOf(t, i, {"'"}) + 1 >>
Literal(t, i, read) ==
    IF i > Len(t) THEN <<read, i>>
    ELSE IF t[i] # "'" THEN Literal(t, i + 1, Append(read, t[i]))
    ELSE IF At(t, i + 1) = "'" THEN Literal(t, i + 2, Append(read, "'"))
    ELSE <<read, i + 1>>

(* ----- parse_number: a dot or an exponent makes it a real ---------------- *)
NumberEnd(t, i) ==
    LET part(j) == t[j] \in Digits \cup {".", "E"} \/ (t[j] \in {"+", "-"} /\ (j = i \/ t[j - 1] = "E"))
    IN  Least({ j \in i..Len(t) : ~part(j) } \cup {Len(t) + 1})
Number(t, i) ==
    LET text == SubSeq(t, i, NumberEnd(t, i) - 1)
    IN  << Val(IF Range(text) \cap {".", "E"} = {} THEN "int" ELSE "real", text, <<>>), NumberEnd(t, i) >>

(* ----- parse_value, parse_arg_list_inner: a value and where it ends ------ *)
RECURSIVE Value(_, _)
RECURSIVE Items(_, _, _)
Close(t, i) == IF At(t, i) = ")" THEN i + 1 ELSE i
EnumOf(name) ==
    IF name = <<"T">> \/ name = <<"F">> THEN Val("bool", name, <<>>) ELSE Val("enum", name, <<>>)
IdentifierAt(t, i, end) ==
    IF At(t, Skip(t, end)) # "(" THEN << Val("enum", Upper(SubSeq(t, i, end - 1)), <<>>), Skip(t, end) >>
    ELSE LET inner == Value(t, Skip(t, end) + 1)
         IN  << Val("typed", Upper(SubSeq(t, i, end - 1)), <<inner[1]>>), Close(t, Skip(t, inner[2])) >>
ValueAt(t, i, c) ==
    CASE c = "#" -> << Val("ref", SubSeq(t, i + 1, Past(t, i + 1, Digits) - 1), <<>>), Past(t, i + 1, Digits) >>
      [] c = "'" -> LET s == Literal(t, i + 1, <<>>) IN << Val("string", s[1], <<>>), s[2] >>
      [] c = "$" -> << Val("null", <<>>, <<>>), i + 1 >>
      [] c = "*" -> << Val("derived", <<>>, <<>>), i + 1 >>
      [] c = "." -> LET dot == NextOf(t, i + 1, {"."}) IN << EnumOf(SubSeq(t, i + 1, dot - 1)), dot + 1 >>
      [] c = "(" -> LET list == Items(t, i + 1, <<>>) IN << Val("list", <<>>, list[1]), Close(t, list[2]) >>
      [] c \in Digits \cup {"-", "+"} -> Number(t, i)
      [] c \in Letters -> IdentifierAt(t, i, Past(t, i, Identifier))
      [] OTHER -> << Val("null", <<>>, <<>>), i + 1 >>
Value(t, i) == ValueAt(t, Skip(t, i), At(t, Skip(t, i)))
Items(t, i, read) ==
    IF At(t, Skip(t, i)) \in {"end", ")"} THEN <<read, Skip(t, i)>>
    ELSE LET v == Value(t, i)
         IN  IF At(t, Skip(t, v[2])) = "," THEN Items(t, Skip(t, v[2]) + 1, Append(read, v[1]))
             ELSE << Append(read, v[1]), Skip(t, v[2]) >>

(* ----- parse_arg_list: the outer list tolerates what it does not expect -- *)
RECURSIVE Args(_, _, _)
Args(t, i, read) ==
    IF Skip(t, i) > Len(t) THEN read
    ELSE LET v == Value(t, i)
             comma == NextOf(t, Skip(t, v[2]), {",", ")"})
         IN  IF At(t, Skip(t, v[2])) = ")" \/ At(t, comma) = "end" \/ (At(t, comma) = ")" /\ Skip(t, v[2]) = comma)
             THEN Append(read, v[1])
             ELSE Args(t, IF t[comma] = "," THEN comma + 1 ELSE comma, Append(read, v[1]))

(* ----- parse_entity: #ID = NAME ( args ) --------------------------------- *)
Bad == [ id |-> <<>>, name |-> <<>>, args |-> <<>> ]
EntityOf(t) ==
    LET line == SubSeq(t, 1, Len(t) - 1)
        eq == NextOf(line, 1, {"="})
        id == Trim(SubSeq(line, 2, eq - 1))
        rest == Trim(SubSeq(line, eq + 1, Len(line)))
        open == NextOf(rest, 1, {"("})
        args == SubSeq(rest, open + 1, IF At(rest, Len(rest)) = ")" THEN Len(rest) - 1 ELSE Len(rest))
    IN  IF eq > Len(line) \/ id = <<>> \/ ~(Range(id) \subseteq Digits) \/ open > Len(rest) THEN Bad
        ELSE [ id |-> id, name |-> Upper(Trim(SubSeq(rest, 1, open - 1))), args |-> Args(args, 1, <<>>) ]

(* ----- find_data_section, scan_entity_ranges ----------------------------- *)
DataStart(t) == CHOOSE i \in 3..Len(t) : t[i - 2] = "DATA" /\ t[i - 1] = ";" /\ t[i] = "\n" /\ t[i - 3] = "\n"
StatementAt(t, i, word) == t[i] = word /\ At(t, i - 1) \notin Identifier /\ At(t, i + 1) \notin Identifier
RECURSIVE Scan(_, _, _, _)
Scan(t, i, inString, start) ==
    IF i > Len(t) THEN <<>>
    ELSE IF t[i] = "'"
         THEN IF inString /\ At(t, i + 1) = "'" THEN Scan(t, i + 2, inString, start)
              ELSE Scan(t, i + 1, ~inString, start)
    ELSE IF inString THEN Scan(t, i + 1, inString, start)
    ELSE IF start = 0
         THEN IF StatementAt(t, i, "ENDSEC") THEN <<>>
              ELSE Scan(t, i + 1, inString, IF t[i] = "#" THEN i ELSE 0)
    ELSE IF t[i] = ";" THEN << SubSeq(t, start, i) >> \o Scan(t, i + 1, inString, 0)
    ELSE Scan(t, i + 1, inString, start)

(* parse_entities: one bad entity fails the file; of two with one number    *)
(* the later one stays.                                                     *)
Entities(t) ==
    LET ranges == Scan(t, DataStart(t), FALSE, 0)
        parsed == [ k \in DOMAIN ranges |-> EntityOf(ranges[k]) ]
        of(id) == CHOOSE k \in DOMAIN parsed : parsed[k].id = id /\ \A j \in DOMAIN parsed : parsed[j].id = id => j <= k
    IN  IF Bad \in Range(parsed) THEN {} ELSE { parsed[of(e.id)] : e \in Range(parsed) }

(* ----- the header -------------------------------------------------------- *)
RECURSIVE StatementEnd(_, _, _, _)
StatementEnd(t, i, depth, inString) ==
    IF i > Len(t) THEN i
    ELSE CASE t[i] = "'" -> IF inString /\ At(t, i + 1) = "'" THEN StatementEnd(t, i + 2, depth, inString)
                            ELSE StatementEnd(t, i + 1, depth, ~inString)
           [] t[i] = "(" /\ ~inString -> StatementEnd(t, i + 1, depth + 1, inString)
           [] t[i] = ")" /\ ~inString -> StatementEnd(t, i + 1, IF depth = 0 THEN 0 ELSE depth - 1, inString)
           [] t[i] = ";" /\ ~inString /\ depth = 0 -> i
           [] OTHER -> StatementEnd(t, i + 1, depth, inString)
(* find_header_invocation: what follows the first mention of the keyword    *)
(* before the first ENDSEC.                                                 *)
HeaderOf(t) == SubSeq(t, 1, Least({ i \in DOMAIN t : t[i] = "ENDSEC" /\ At(t, i + 1) = ";" } \cup {Len(t) + 1}) - 1)
Invocation(t, word) ==
    LET header == HeaderOf(t)
        open == NextOf(header, NextOf(header, 1, {word}) + 1, {"("})
    IN  SubSeq(header, open, StatementEnd(header, open, 0, FALSE) - 1)
RECURSIVE Quoted(_, _)
Quoted(t, i) ==
    LET open == NextOf(t, i, {"'"})
        string == Literal(t, open + 1, <<>>)
    IN  IF open > Len(t) \/ string[2] > Len(t) + 1 \/ At(t, string[2] - 1) # "'" THEN <<>>
        ELSE << string[1] >> \o Quoted(t, string[2])

(* from_header_str: the first supported name that the text contains.        *)
Supported == << "IFC2X3", "IFC4X3_ADD2", "IFC4X3_RC1", "IFC4X3", "IFC4X2", "IFC4X1", "IFC4" >>
StandsFor == << "IFC2X3", "IFC4X3_ADD2", "IFC4X3_RC1", "IFC4X3_ADD2", "IFC4X3_RC1", "IFC4X1", "IFC4" >>
Named == { "IFC2X3_TC1", "IFC4X3_ADD2", "IFC4X3_RC2", "IFC4X2", "IFC4_ADD2" }
Contained(name) ==
    CASE name = "IFC2X3_TC1" -> {"IFC2X3"}
      [] name = "IFC4X3_ADD2" -> {"IFC4X3_ADD2", "IFC4X3", "IFC4"}
      [] name = "IFC4X3_RC2" -> {"IFC4X3", "IFC4"}
      [] name = "IFC4X2" -> {"IFC4X2", "IFC4"}
      [] OTHER -> {"IFC4"}
SchemaOf(name) == StandsFor[Least({ k \in DOMAIN Supported : Supported[k] \in Contained(name) })]
ParseFile(t) ==
    [ schema |-> SchemaOf(Quoted(Invocation(t, "FILE_SCHEMA"), 1)[1][1]),
      description |-> Quoted(Invocation(t, "FILE_DESCRIPTION"), 1), entities |-> Entities(t) ]

(* ----- decode_ifc_unicode ------------------------------------------------ *)
Backslash == 92
HexDigit(b) == IF b \in 48..57 THEN b - 48 ELSE IF b \in 65..70 THEN b - 55 ELSE -1
IsHex(b, i, n) == i + n - 1 <= Len(b) /\ \A k \in i..(i + n - 1) : HexDigit(b[k]) >= 0
Hex(b, i, n) == FoldLeft(LAMBDA sum, x : 16 * sum + HexDigit(x), 0, SubSeq(b, i, i + n - 1))
StartsWith(b, i, word) == i + Len(word) - 1 <= Len(b) /\ SubSeq(b, i, i + Len(word) - 1) = word
Byte == << Backslash, 88, Backslash >>
Units == << Backslash, 88, 50, Backslash >>
UnitsEnd == << Backslash, 88, 48, Backslash >>
HighBit == << Backslash, 83, Backslash >>

(* char::decode_utf16: a surrogate without its other half is replaced.      *)
RECURSIVE Utf16(_)
Utf16(u) ==
    IF u = <<>> THEN <<>>
    ELSE IF u[1] \in 55296..56319 /\ Len(u) > 1 /\ u[IF Len(u) > 1 THEN 2 ELSE 1] \in 56320..57343
         THEN << 65536 + (u[1] - 55296) * 1024 + (u[2] - 56320) >> \o Utf16(SubSeq(u, 3, Len(u)))
    ELSE << IF u[1] \in 55296..57343 THEN 65533 ELSE u[1] >> \o Utf16(Tail(u))
RECURSIVE UnitCount(_, _)
UnitCount(b, i) == IF ~StartsWith(b, i, UnitsEnd) /\ IsHex(b, i, 4) THEN 1 + UnitCount(b, i + 4) ELSE 0
RECURSIVE Decode(_, _)
DecodeUnits(b, i, n) ==
    Utf16([ k \in 1..n |-> Hex(b, i + 4 * (k - 1), 4) ])
    \o Decode(b, i + 4 * n + (IF StartsWith(b, i + 4 * n, UnitsEnd) THEN 4 ELSE 0))
Decode(b, i) ==
    IF i > Len(b) THEN <<>>
    ELSE IF StartsWith(b, i, Byte) /\ IsHex(b, i + 3, 2) THEN << Hex(b, i + 3, 2) >> \o Decode(b, i + 5)
    ELSE IF StartsWith(b, i, Units) /\ i + 4 <= Len(b) THEN DecodeUnits(b, i + 4, UnitCount(b, i + 4))
    ELSE IF StartsWith(b, i, HighBit) /\ i + 3 <= Len(b) THEN << (b[i + 3] + 128) % 256 >> \o Decode(b, i + 4)
    ELSE << b[i] >> \o Decode(b, i + 1)

-----------------------------------------------------------------------------
(* A writer that follows ISO 10303-21, with `gap` between any two symbols   *)
(* and `other` between entities.                                            *)
Doubled(s) == FoldLeft(LAMBDA out, c : IF c = "'" THEN out \o <<"'", "'">> ELSE Append(out, c), <<>>, s)
RECURSIVE Written(_, _)
Listed(items, gap) ==
    FoldLeft(LAMBDA out, v : out \o (IF out = <<>> THEN gap ELSE <<",">> \o gap) \o Written(v, gap) \o gap, <<>>, items)
Written(v, gap) ==
    CASE v.kind = "string" -> <<"'">> \o Doubled(v.text) \o <<"'">>
      [] v.kind = "ref" -> <<"#">> \o v.text
      [] v.kind = "null" -> <<"$">>
      [] v.kind = "derived" -> <<"*">>
      [] v.kind \in {"enum", "bool"} -> <<".">> \o v.text \o <<".">>
      [] v.kind = "list" -> <<"(">> \o gap \o Listed(v.items, gap) \o <<")">>
      [] v.kind = "typed" -> v.text \o gap \o <<"(">> \o Listed(v.items, gap) \o <<")">>
      [] OTHER -> v.text
Text(file, gap, other) ==
    << "HEADER", ";", "\n", "FILE_DESCRIPTION" >> \o gap \o <<"(">> \o Listed(<<Val("list", <<>>, file.description)>>, gap)
    \o <<")", ";", "\n", "FILE_SCHEMA", "(">> \o gap \o <<"(", "'", file.schema, "'", ")", ")", ";", "ENDSEC", ";", "\n", "DATA", ";", "\n">>
    \o FoldLeft(LAMBDA out, e : out \o other \o <<"#">> \o e.id \o gap \o <<"=">> \o gap \o e.name \o gap \o <<"(">>
                                    \o Listed(e.args, gap) \o <<")">> \o gap \o <<";">>, <<>>, file.entities)
    \o << "\n", "ENDSEC", ";", "\n" >>

(* Whatever a conforming writer writes is read back: the schema, the        *)
(* description, and every entity with its name and arguments, with quotes,  *)
(* semicolons, parentheses and keywords inside its strings, ...             *)
FileReadsBack(file, gap, other) ==
    LET read == ParseFile(Text(file, gap, other))
        last(e) == \A k \in DOMAIN file.entities : file.entities[k].id = e.id =>
                       \E j \in DOMAIN file.entities : j >= k /\ file.entities[j] = e
    IN  /\ read.schema \in Range(Supported) /\ read.schema = SchemaOf(file.schema)
        /\ read.description = [ k \in DOMAIN file.description |-> file.description[k].text ]
        /\ read.entities = { e \in Range(file.entities) : last(e) }

(* ... and a text in which each character is written in any form that can   *)
(* hold it (except a lone backslash, which no decoder can tell).            *)
HexText(n, digits) ==
    [ k \in 1..digits |-> LET d == (n \div (16 ^ (digits - k))) % 16 IN IF d < 10 THEN 48 + d ELSE 55 + d ]
UnitsOf(c) ==
    IF c < 65536 THEN HexText(c, 4)
    ELSE HexText(55296 + ((c - 65536) \div 1024), 4) \o HexText(56320 + ((c - 65536) % 1024), 4)
Forms(c) == { f \in {"plain", "byte", "units", "high"} :
                \/ f = "plain"
                \/ f = "byte" /\ c < 256
                \/ f = "units"
                \/ f = "high" /\ c \in 160..255 }
Encoded(text, forms) ==
    LET n == Len(text)
        joined(k) == forms[k] = "units" /\ k > 1 /\ forms[IF k > 1 THEN k - 1 ELSE 1] = "units"
        form(k) == CASE forms[k] = "plain" -> << text[k] >>
                     [] forms[k] = "byte" -> Byte \o HexText(text[k], 2)
                     [] forms[k] = "high" -> HighBit \o << text[k] - 128 >>
                     [] OTHER -> (IF joined(k) THEN <<>> ELSE Units) \o UnitsOf(text[k])
                                 \o (IF k < n /\ forms[IF k < n THEN k + 1 ELSE k] = "units" THEN <<>> ELSE UnitsEnd)
    IN  FlattenSeq([ k \in 1..n |-> form(k) ])
TextReadsBack(text, forms) == Decode(Encoded(text, forms), 1) = text
=============================================================================
