----------------------------- MODULE Highlighter -----------------------------
(***************************************************************************)
(* highlight_config of highlighter.c, as built for the app                 *)
(* (MOBILE_WGQUICK_SUBSET).  A text is a sequence of tokens: the           *)
(* characters the scanner tells apart, and words, each a token whole.      *)
(* Four fields stand for the two sections and for the shapes of values     *)
(* that are told apart: one word, a list, a host with a port, a network    *)
(* with a length.  Memory does not run out.                                *)
(***************************************************************************)
EXTENDS Integers, FiniteSets, SequencesExt

CONSTANTS
  Tokens,       \* what texts are made of
  Beginnings,   \* texts to begin with
  MaxTokens     \* bound on the tokens that follow

ASSUME HighlightAssumption == Beginnings \subseteq Seq(Tokens) /\ MaxTokens \in Nat

VARIABLES text, scan

highlightVars == <<text, scan>>

Newline == "newline"
Space   == "space"      \* or a tab
Sharp   == "#"
Equals  == "="
Comma   == ","
Colon   == ":"
Slash   == "/"
AWord   == "word"       \* a host, an address, a number

SectionOf == [MTU |-> "[Interface]", DNS |-> "[Interface]",
              Endpoint |-> "[Peer]", AllowedIPs |-> "[Peer]"]
Fields   == DOMAIN SectionOf
Sections == {"[Interface]", "[Peer]"}
Invalid  == "Invalid"

Piece(start, len) == [start |-> start, len |-> len]
Content(t, p) == SubSeq(t, p.start, p.start + p.len - 1)

NothingRead ==
  [state |-> "OnNone", section |-> Invalid, field |-> Invalid, equals |-> 0,
   span |-> Piece(1, 0), last |-> 0, spans |-> <<>>]

\* append_highlight_span: empty pieces are not marked.
Mark(spans, piece, type) ==
  IF piece.len = 0 THEN spans
  ELSE Append(spans, [type |-> type, start |-> piece.start, len |-> piece.len])

MarkIf(valid, spans, piece, type) == Mark(spans, piece, IF valid THEN type ELSE "Error")

\* is_caseless_same on names, is_valid_... on values.
FieldNamed(name) == IF Len(name) = 1 /\ name[1] \in Fields THEN name[1] ELSE Invalid
SectionNamed(name) == IF Len(name) = 1 /\ name[1] \in Sections THEN name[1] ELSE Invalid

IsValid(field, value) ==
  \/ field \in {"MTU", "DNS", "AllowedIPs"} /\ value = <<AWord>>
  \/ field = "AllowedIPs" /\ value = <<AWord, Slash, AWord>>
  \/ field = "Endpoint" /\ value = <<AWord, Colon, AWord>>

\* A value in two parts with a delimiter after the first.
MarkParts(spans, p, first, second) ==
  Mark(Mark(Mark(spans, Piece(p.start, 1), first),
            Piece(p.start + 1, 1), "Delimiter"),
       Piece(p.start + 2, p.len - 2), second)

\* highlight_multivalue_value
MarkEntry(t, spans, p, field) ==
  IF p.len > 0 /\ field = "AllowedIPs" /\ IsValid(field, Content(t, p)) /\ p.len > 1
    THEN MarkParts(spans, p, "IP", "Cidr")
  ELSE MarkIf(IsValid(field, Content(t, p)), spans, p, "IP")

\* A blank before the piece's first token moves its start.
Blanked(piece, i) ==
  IF piece.start = i /\ piece.len = 0 THEN Piece(i + 1, 0) ELSE [piece EXCEPT !.len = @ + 1]

\* One token of a list.
ListTurn(t, l, i, field) ==
  CASE t[i] = Comma ->
         [spans |-> Mark(MarkEntry(t, l.spans, [l.span EXCEPT !.len = l.last], field),
                         Piece(i, 1), "Delimiter"),
          span |-> Piece(i + 1, 0), last |-> 0]
    [] t[i] = Space -> [l EXCEPT !.span = Blanked(@, i)]
    [] OTHER -> [l EXCEPT !.span.len = @ + 1, !.last = l.span.len + 1]

\* Mutant: a delimiter at the end of a list is left as it is.
ListEndsUnchecked(t, l, field) ==
  IF l.last > 0 THEN MarkEntry(t, l.spans, [l.span EXCEPT !.len = l.last], field)
  ELSE l.spans

\* A delimiter at the end of a list becomes an error.
ListEnds(t, l, field) ==
  IF l.last > 0 THEN MarkEntry(t, l.spans, [l.span EXCEPT !.len = l.last], field)
  ELSE IF Last(l.spans).type = "Delimiter"
    THEN [l.spans EXCEPT ![Len(l.spans)].type = "Error"]
  ELSE l.spans

\* highlight_multivalue
MarkList(t, spans, p, field) ==
  LET list[k \in 0..p.len] ==
        IF k = 0 THEN [spans |-> spans, span |-> Piece(p.start, 0), last |-> 0]
        ELSE ListTurn(t, list[k - 1], p.start + k - 1, field)
  IN  ListEnds(t, list[p.len], field)

\* highlight_value
MarkValue(t, spans, p, field) ==
  CASE field = "MTU" -> MarkIf(IsValid(field, Content(t, p)), spans, p, "MTU")
    [] field = "Endpoint" ->
         IF IsValid(field, Content(t, p)) THEN MarkParts(spans, p, "Host", "Port")
         ELSE Mark(spans, p, "Error")
    [] field \in {"DNS", "AllowedIPs"} -> MarkList(t, spans, p, field)
    [] OTHER -> Mark(spans, p, "Error")

\* What the line's last piece is, at the line's or the text's end or where a comment begins.
LineEnds(t, h) ==
  LET piece == [h.span EXCEPT !.len = h.last]
      sign  == Piece(h.equals, 1) IN
  CASE h.state = "OnKey" -> [h EXCEPT !.spans = Mark(@, piece, "Error")]
    [] h.state = "OnValue" ->
         [h EXCEPT !.spans = IF h.span.len = 0 THEN Mark(@, sign, "Error")
                             ELSE MarkValue(t, Mark(@, sign, "Delimiter"), piece, h.field)]
    [] h.state = "OnSection" ->
         [h EXCEPT !.section = SectionNamed(Content(t, piece)),
                   !.spans = MarkIf(SectionNamed(Content(t, piece)) # Invalid, @, piece, "Section")]
    [] h.state = "OnComment" -> [h EXCEPT !.spans = Mark(@, h.span, "Comment")]
    [] OTHER -> h

LineBegins(h, i) == [h EXCEPT !.last = 0, !.field = Invalid,
                              !.state = "OnNone", !.span = Piece(i + 1, 0)]

CommentBegins(h, i) == [h EXCEPT !.last = 0, !.field = Invalid,
                                 !.state = "OnComment", !.span = Piece(i, 1)]

\* Mutant: the value begins at the sign.
KeyEndsAtSign(t, h, i) ==
  LET key == [h.span EXCEPT !.len = h.last]
      field == FieldNamed(Content(t, key)) IN
  [h EXCEPT !.field = field, !.equals = i, !.state = "OnValue", !.span = Piece(i, 0),
            !.spans = MarkIf(field # Invalid /\ SectionOf[field] = h.section, @, key, "Field")]

\* The length at the last space stays that of the key.
KeyEnds(t, h, i) ==
  LET key == [h.span EXCEPT !.len = h.last]
      field == FieldNamed(Content(t, key)) IN
  [h EXCEPT !.field = field, !.equals = i, !.state = "OnValue", !.span = Piece(i + 1, 0),
            !.spans = MarkIf(field # Invalid /\ SectionOf[field] = h.section, @, key, "Field")]

\* One turn of highlight_config's loop.
Turn(t, h, i) ==
  LET c == t[i] IN
  CASE c = Newline -> LineBegins(LineEnds(t, h), i)
    [] c = Sharp /\ h.state # "OnComment" -> CommentBegins(LineEnds(t, h), i)
    [] c # Newline /\ h.state = "OnComment" -> [h EXCEPT !.span.len = @ + 1]
    [] c = Space /\ h.state # "OnComment" -> [h EXCEPT !.span = Blanked(@, i)]
    [] c = Equals /\ h.state = "OnKey" -> KeyEnds(t, h, i)
    [] OTHER ->
         [h EXCEPT !.state = IF @ # "OnNone" THEN @
                             ELSE IF c \in Sections THEN "OnSection" ELSE "OnKey",
                   !.span.len = @ + 1, !.last = h.span.len + 1]

Scanned(t) ==
  LET scanned[n \in 0..Len(t)] ==
        IF n = 0 THEN NothingRead ELSE Turn(t, scanned[n - 1], n)
  IN  scanned[Len(t)]

HighlightInit == text \in Beginnings /\ scan = Scanned(text)

Type(c) ==
  /\ \E b \in Beginnings : IsPrefix(b, text) /\ Len(text) < Len(b) + MaxTokens
  /\ text' = Append(text, c) /\ scan' = Turn(text', scan, Len(text'))

HighlightNext == \E c \in Tokens : Type(c)

HighlightSpec == HighlightInit /\ [][HighlightNext]_highlightVars

\* What is returned if the text ends here, without HighlightEnd.
Spans == LineEnds(text, scan).spans
-----------------------------------------------------------------------------
Covers(span, i) == i \in span.start..(span.start + span.len - 1)

\* The spans are in the text's order and do not overlap, and everything that can be seen
\* is in one of them, through the piece-wise bookkeeping of starts, lengths and blanks:
\* the text view colours span by span.
EverythingIsMarkedOnce ==
  /\ \A k \in 1..(Len(Spans) - 1) : Spans[k].start + Spans[k].len <= Spans[k + 1].start
  /\ \A k \in DOMAIN Spans : Spans[k].start + Spans[k].len - 1 <= Len(text)
  /\ \A i \in DOMAIN text :
       text[i] \notin {Space, Newline} => \E k \in DOMAIN Spans : Covers(Spans[k], i)

\* A reading of the text line by line, to compare with.
Cuts(t, c) == {i \in DOMAIN t : t[i] = c}

\* The least element of S, or the default.
Least(S, default) == IF S = {} THEN default ELSE CHOOSE i \in S : \A j \in S : i <= j

Trim(t) ==
  LET seen == {i \in DOMAIN t : t[i] # Space} IN
  IF seen = {} THEN <<>>
  ELSE SubSeq(t, Least(seen, 0), CHOOSE i \in seen : \A j \in seen : j <= i)

\* Lines are named by the newlines before them.
LineNumber(i) == Cardinality({j \in Cuts(text, Newline) : j < i})

LineAt(n) ==
  LET line == SelectSeq([i \in DOMAIN text |-> i],
                        LAMBDA i : text[i] # Newline /\ LineNumber(i) = n)
      all  == [k \in DOMAIN line |-> text[line[k]]]
  IN Trim(SubSeq(all, 1, Least(Cuts(all, Sharp), Len(all) + 1) - 1))

IsSectionLine(line) == line # <<>> /\ line[1] \in Sections

SectionAt(n) ==
  LET before == {m \in 0..(n - 1) : IsSectionLine(LineAt(m))} IN
  IF before = {} THEN Invalid
  ELSE SectionNamed(LineAt(CHOOSE m \in before : \A k \in before : k <= m))

\* Entries that are missing are let pass, but for the last.
IsList(field, value) ==
  LET ends == {0, Len(value) + 1} \cup Cuts(value, Comma)
      Entry(a) == Trim(SubSeq(value, a + 1, Least({b \in ends : b > a}, 0) - 1))
      entries == {Entry(a) : a \in ends \ {Len(value) + 1}} IN
  /\ \A e \in entries : e = <<>> \/ IsValid(field, e)
  /\ Last(value) # Comma

IsRightLine(n) ==
  LET line  == LineAt(n)
      sign  == Least({i \in Cuts(line, Equals) : i > 1}, 0)
      field == FieldNamed(Trim(SubSeq(line, 1, sign - 1)))
      value == Trim(SubSeq(line, sign + 1, Len(line))) IN
  \/ line = <<>>
  \/ IsSectionLine(line) /\ SectionNamed(line) # Invalid
  \/ /\ ~IsSectionLine(line) /\ sign > 0 /\ value # <<>>
     /\ field # Invalid /\ SectionOf[field] = SectionAt(n)
     /\ IF field \in {"DNS", "AllowedIPs"} THEN IsList(field, value) ELSE IsValid(field, value)

\* A line has an error marked exactly if it is wrong: an unknown section, a field that is
\* unknown or of another section than the last one opened, no value, or a value that is
\* not the field's.
ErrorsAreTheWrongLines ==
  {LineNumber(Spans[k].start) : k \in {k \in DOMAIN Spans : Spans[k].type = "Error"}}
    = {n \in 0..Cardinality(Cuts(text, Newline)) : ~IsRightLine(n)}
=============================================================================
