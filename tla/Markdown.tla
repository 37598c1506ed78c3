------------------------------ MODULE Markdown ------------------------------
(* The block parser of the message renderer (markdown/block_parser.cpp): what
   becomes of every line of an answer that arrives line by line and is parsed
   again from its start each time.

   A line is its indent and its tokens. A marker token stands for the characters
   the parser looks at, with the space behind them where it asks for one; every
   other token is a word. Inline markup, hard breaks, languages and alignments
   are left out. *)
EXTENDS Naturals, Sequences, SequencesExt, FiniteSetsExt

CONSTANTS
    Lines,      \* the lines an answer may hold: [indent |-> n, toks |-> <<...>>]
    MaxLines

Fences == {"fence", "tilde"}
Bullet == "-"
Number == "1."
Markers == Fences \union
           {"#", ">", Bullet, Number, "[x]", "|", "---", "===", "***"}
\* Words that begin like a block and are none ("#tag" has no space behind #).
LikeMarkers == {"#tag"}

VARIABLES
    text,       \* the lines received, each with its position
    blocks      \* what ParseBlockNodes made of them
vars == <<text, blocks>>

---------------------------------------------------------------------------
(* What a line may be taken for. *)

Blank(l) == l.toks = <<>>
Starts(l, marks) == ~Blank(l) /\ Head(l.toks) \in marks
Rest(l) == [l EXCEPT !.indent = 0, !.toks = Tail(@)]

LineLooksLikeBlock(l) ==
    Blank(l) \/ Starts(l, Fences \union {"#", ">", Bullet, Number} \union LikeMarkers)

IsItem(l) == Starts(l, {Bullet, Number})

\* ParseListItemHeader and ParseTaskMarker: where the item's text begins, and
\* the text of its first line without a task box.
ParseListItemHeader(l) ==
    [ordered |-> Head(l.toks) = Number,
     marker |-> l.indent,
     content |-> l.indent + (IF Head(l.toks) = Number THEN 3 ELSE 2),
     first |-> IF Head(l.toks) = Bullet /\ Starts(Rest(l), {"[x]"})
               THEN Rest(Rest(l)) ELSE Rest(l)]

SameList(l, header) ==
    /\ IsItem(l)
    /\ ParseListItemHeader(l).marker = header.marker
    /\ ParseListItemHeader(l).ordered = header.ordered

IsUnderline(l) == l.toks \in {<<"===">>, <<"---">>}
HorizontalRule(l) == l.toks \in {<<"---">>, <<"***">>}

\* DedentLine
Dedent(l, n) == [l EXCEPT !.indent = IF @ > n THEN @ - n ELSE 0]

\* SplitTableRow: a row without the bars at its ends; its cells are counted by
\* the bars left.
Inner(toks) ==
    LET front == IF toks # <<>> /\ Head(toks) = "|" THEN Tail(toks) ELSE toks
    IN  IF front # <<>> /\ Last(front) = "|" THEN Front(front) ELSE front
Bars(toks, n) == Quantify(1..n, LAMBDA i : toks[i] = "|")
Columns(l) == Bars(Inner(l.toks), Len(Inner(l.toks))) + 1

ParseDelimiterRow(l) ==
    LET row == Inner(l.toks)
    IN  /\ Len(row) % 2 = 1
        /\ \A i \in DOMAIN row : row[i] = IF i % 2 = 1 THEN "---" ELSE "|"

HasUnescapedPipe(l) == Contains(l.toks, "|")

\* A row keeps the cells its table has columns for.
KeepsWords(l, columns) ==
    LET row == Inner(l.toks)
    IN  \E i \in DOMAIN row :
          row[i] \notin Markers /\ Bars(row, i) < columns

---------------------------------------------------------------------------
(* Where a block that begins at line i ends: the first line after it. *)

First(lines, from, Stop(_)) ==
    Min({j \in from..Len(lines) : Stop(j)} \union {Len(lines) + 1})

NextText(lines, j) == First(lines, j, LAMBDA k : ~Blank(lines[k]))

\* Where a list may go on after an item, and a search for that place that steps
\* over the line it starts from, blank or not.
SkipOneThenBlankRun(lines, j) == NextText(lines, j + 1)

SkipBlankRun(lines, j) == NextText(lines, j)

\* CollectListItemBody, and the same rule for code that is indented: a blank
\* line belongs to the body if the text after it is indented enough.
BodyEnd(lines, from, column) ==
    First(lines, from, LAMBDA j :
        LET next == NextText(lines, j)
        IN  next > Len(lines) \/ lines[next].indent < column)

FenceEnd(lines, i) ==
    First(lines, i + 1, LAMBDA j : Starts(lines[j], {Head(lines[i].toks)}))

QuoteEnd(lines, i) == First(lines, i, LAMBDA j : ~Starts(lines[j], {">"}))

TableEnd(lines, i) == First(lines, i + 2, LAMBDA j : LineLooksLikeBlock(lines[j]))

ParagraphEnd(lines, i) ==
    First(lines, i + 1, LAMBDA j : LineLooksLikeBlock(lines[j]) \/ IsUnderline(lines[j]))

---------------------------------------------------------------------------
(* The blocks: what a block shows of the lines, by their positions, and the
   blocks inside it. *)

At(lines) == [i \in DOMAIN lines |-> lines[i].at]
Block(kind, lines) == [kind |-> kind, shows |-> At(lines), kids |-> <<>>]
Nest(kind, kids) == [kind |-> kind, shows |-> <<>>, kids |-> kids]

BeginsTable(lines, i) ==
    /\ i + 1 <= Len(lines)
    /\ HasUnescapedPipe(lines[i])
    /\ ParseDelimiterRow(lines[i + 1])
    /\ Columns(lines[i]) = Columns(lines[i + 1])

Table(lines, i) ==
    LET columns == Columns(lines[i])
        rows == SelectSeq(SubSeq(lines, i + 2, TableEnd(lines, i) - 1),
                          LAMBDA l : KeepsWords(l, columns))
    IN  Block("table", <<lines[i]>> \o rows)

\* The kinds a line is tried for, in this order; a blank line is no block, and
\* code that is indented does not follow a paragraph.
Order == <<"code", "blank", "heading", "rule", "quote", "list", "table",
           "indented", "paragraph">>

Takes(kind, lines, i, before) ==
    CASE kind = "code" -> Starts(lines[i], Fences)
      [] kind = "blank" -> Blank(lines[i])
      [] kind = "heading" -> Starts(lines[i], {"#"})
      [] kind = "rule" -> HorizontalRule(lines[i])
      [] kind = "quote" -> Starts(lines[i], {">"})
      [] kind = "list" -> IsItem(lines[i])
      [] kind = "table" -> BeginsTable(lines, i)
      [] kind = "indented" -> lines[i].indent >= 4 /\ before # "paragraph"
      [] kind = "paragraph" -> TRUE

KindAt(lines, i, before) ==
    Order[Min({n \in DOMAIN Order : Takes(Order[n], lines, i, before)})]

RECURSIVE ParseBlockNodes(_, _, _), Items(_, _, _)

\* TryParseList from an item at line i: the items and the line after the list.
\* SkipBlankRunUntilNextItem takes blank lines only if the same list goes on,
\* or if nothing follows.
Items(lines, i, header) ==
    LET own == ParseListItemHeader(lines[i])
        end == BodyEnd(lines, i + 1, own.content)
        body == [j \in 1..(end - i - 1) |-> Dedent(lines[i + j], own.content)]
        item == ParseBlockNodes(<<own.first>> \o body, 1, "none")
        next == SkipBlankRun(lines, end)
        goes == next <= Len(lines) /\ SameList(lines[next], header)
        more == Items(lines, next, header)
    IN  IF goes THEN [items |-> <<item>> \o more.items, next |-> more.next]
        ELSE [items |-> <<item>>,
              next |-> IF next > Len(lines) THEN next ELSE end]

ParseBlockNodes(lines, i, before) ==
    IF i > Len(lines) THEN <<>>
    ELSE LET l == lines[i]
             kind == KindAt(lines, i, before)
             Then(block, next) == <<block>> \o ParseBlockNodes(lines, next, block.kind)
         IN
         CASE kind = "blank" -> ParseBlockNodes(lines, i + 1, before)
           [] kind = "heading" -> Then(Block("heading", <<l>>), i + 1)
           [] kind = "rule" -> Then(Block("rule", <<>>), i + 1)
           [] kind = "code" ->
                LET end == FenceEnd(lines, i)
                IN  Then(Block("code", SubSeq(lines, i + 1, end - 1)), end + 1)
           [] kind = "indented" ->
                LET end == BodyEnd(lines, i, 4)
                IN  Then(Block("code", SubSeq(lines, i, end - 1)), end)
           [] kind = "quote" ->
                LET end == QuoteEnd(lines, i)
                    stripped == [j \in 1..(end - i) |-> Rest(lines[i + j - 1])]
                IN  Then(Nest("quote", <<ParseBlockNodes(stripped, 1, "none")>>), end)
           [] kind = "list" ->
                LET list == Items(lines, i, ParseListItemHeader(l))
                IN  Then(Nest("list", list.items), list.next)
           [] kind = "table" -> Then(Table(lines, i), TableEnd(lines, i))
           [] kind = "paragraph" ->
                LET end == ParagraphEnd(lines, i)
                    own == SubSeq(lines, i, end - 1)
                IN  IF end <= Len(lines) /\ IsUnderline(lines[end])
                    THEN Then(Block("heading", own), end + 1)
                    ELSE Then(Block("paragraph", own), end)

---------------------------------------------------------------------------
Init ==
    /\ text = <<>>
    /\ blocks = <<>>

\* A delta ends a line: the text is parsed again as a whole.
Receive ==
    /\ Len(text) < MaxLines
    /\ \E l \in Lines :
         LET at == Len(text) + 1
             lines == Append(text, [indent |-> l.indent, toks |-> l.toks, at |-> at])
         IN  /\ text' = lines
             /\ blocks' = ParseBlockNodes(lines, 1, "none")

Next == Receive

Spec == Init /\ [][Next]_vars

---------------------------------------------------------------------------
TypeOK ==
    /\ Len(text) <= MaxLines
    /\ \A i \in DOMAIN blocks :
         blocks[i].kind \in {"code", "heading", "rule", "quote", "list", "table",
                             "paragraph"}

RECURSIVE Shows(_)
Shows(bs) ==
    FlattenSeq([i \in DOMAIN bs |->
        bs[i].shows \o FlattenSeq([k \in DOMAIN bs[i].kids |-> Shows(bs[i].kids[k])])])

\* Lines with words the reader should see. A line with a fence may close a block
\* and what follows the fence on it is dropped; so is a row's last cell.
HasWords(l) ==
    /\ \E i \in DOMAIN l.toks : l.toks[i] \notin Markers
    /\ ToSet(l.toks) \intersect (Fences \union {"|"}) = {}

\* Every such line is shown exactly once and in order, whatever lines surround
\* it: no kind of block takes a line it does not show, and none is taken twice.
EveryLineShown ==
    LET words(at) == HasWords(text[at])
    IN  SelectSeq(Shows(blocks), words) = SelectSeq([i \in DOMAIN text |-> i], words)
=============================================================================
