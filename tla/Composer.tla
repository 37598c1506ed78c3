------------------------------- MODULE Composer -------------------------------
(***************************************************************************)
(* The line a user types: ComposerState and its wrapping, the menus of the *)
(* ChatUiInputController for "/" and "@", the SlashCommandRegistry, and    *)
(* what becomes of the text when it is sent (InlineFileMentions).  Three   *)
(* readers must agree on a mention: the menu that finds "@" before the     *)
(* cursor, the editor that puts the chosen path there, and the scanner     *)
(* that attaches the files when the message is sent.                       *)
(*                                                                         *)
(* A text is a sequence of glyphs: "/", "@", "a", "b" (path characters),   *)
(* " ", "\n" and "W" (a glyph two columns wide that no path has).          *)
(***************************************************************************)
EXTENDS Naturals, SequencesExt

CONSTANTS Commands,  \* <<[name, aliases, arguments]>> in the order of registration
          Paths,     \* the paths of the file index, shortest first
          Sizes,     \* path -> its size, -1 where the file cannot be attached
          Rows,      \* rows that a query of the index returns at most
          PerFileCap, TotalCap, Width, MaxLength

VARIABLES content, cursor, slash, at, rows, indexed, sent

vars == <<content, cursor, slash, at, rows, indexed, sent>>

NoMenu == [active |-> FALSE, selected |-> 0, start |-> 0]
Init == /\ content = <<>> /\ cursor = 0 /\ slash = NoMenu /\ at = NoMenu
        /\ rows = <<>> /\ indexed = FALSE /\ sent = [kind |-> "none"]

Glyphs == {"/", "@", "a", "b", " ", "\n", "W"}
Blank == {" ", "\n"}
IsPathChar(g) == g \in {"/", "a", "b"}
GlyphWidth(g) == IF g = "W" THEN 2 ELSE 1
Till(text, stop) ==
  LET hits == {i \in DOMAIN text : text[i] \in stop}
  IN IF hits = {} THEN text ELSE SubSeq(text, 1, Min(hits) - 1)

-----------------------------------------------------------------------------
(* The wrapped lines.  A line is the range start..end of the text it shows, *)
(* end being the position after its last glyph.                             *)

RECURSIVE WrapHardLine(_, _, _, _), RowWidth(_, _, _)
RowWidth(text, a, b) == IF a >= b THEN 0 ELSE GlyphWidth(text[a]) + RowWidth(text, a + 1, b)

\* The first position from i on that is no space, or the end.
SkipSpaces(text, i, end) ==
  Min({j \in i..end : j = end \/ text[j] # " "})

Line(a, b) == [start |-> a, end |-> b]

BreakAt(i) == i

\* The row that begins at row has its glyphs before i; last is the last space
\* in it, or row itself when there is none to break at.
WrapHardLine(text, row, i, end) ==
  LET spaces == {j \in (row + 1)..(i - 1) : text[j] = " "}
      last == IF spaces = {} THEN row ELSE CHOOSE j \in spaces : \A k \in spaces : k <= j
      cut == IF text[i] = " " THEN i ELSE IF spaces # {} THEN last ELSE BreakAt(i)
      next == SkipSpaces(text, cut, end)
  IN IF i >= end THEN IF row < end THEN <<Line(row, end)>> ELSE <<>>
     ELSE IF i > row /\ RowWidth(text, row, i) + GlyphWidth(text[i]) > Width
     THEN <<Line(row, cut)>> \o WrapHardLine(text, next, next, end)
     ELSE WrapHardLine(text, row, i + 1, end)

VisualLines(text) ==
  LET ends == {i \in DOMAIN text : text[i] = "\n"} \cup {Len(text) + 1}
      starts == {1} \cup {i + 1 : i \in ends \ {Len(text) + 1}}
      hard(a) == LET b == Min({e \in ends : e >= a})
                 IN IF a = b THEN <<Line(a, b)>> ELSE WrapHardLine(text, a, a, b)
  IN FlattenSeq([k \in 1..Cardinality(starts) |-> hard(SetToSortSeq(starts, <)[k])])

\* The row that shows the cursor, which is before the glyph at c.
CursorVisualLineIndex(lines, c) ==
  LET holds(i) == LET after == IF i < Len(lines) THEN lines[i + 1].start ELSE lines[i].end
                  IN c >= lines[i].start /\ (c <= lines[i].end \/ c < after)
      hits == {i \in DOMAIN lines : holds(i)}
  IN IF hits = {} THEN Len(lines) ELSE Min(hits)

-----------------------------------------------------------------------------
(* The menus.                                                              *)

SlashMenuFilter ==
  IF content = <<>> \/ content[1] # "/" \/ cursor < 1 THEN <<>>
  ELSE Till(SubSeq(content, 2, cursor), {" "})

Names(c) == {c.name} \cup c.aliases
FilteredSlashIndices ==
  SelectSeq([i \in DOMAIN Commands |-> i],
            LAMBDA i : \E n \in Names(Commands[i]) : IsPrefix(SlashMenuFilter, n))

BeginsToken(text, i) == i = 1 \/ text[i - 1] \in Blank
\* A mutant: "@" anywhere in a word opens the menu.
BeginsAnywhere(text, i) == TRUE

OpensMention(text, i) == BeginsToken(text, i)

\* The position of the "@" of the token the cursor is in, 0 when there is none.
FindAtTokenAtCursor(text, c) ==
  LET stops == {i \in 1..c : text[i] \in Blank \cup {"@"}}
      i == CHOOSE j \in stops : \A k \in stops : k <= j
  IN IF stops = {} \/ text[i] # "@" \/ ~OpensMention(text, i) THEN 0 ELSE i

Base(p) == LET s == {i \in DOMAIN p : p[i] = "/"}
           IN SubSeq(p, 1 + (IF s = {} THEN 0 ELSE CHOOSE j \in s : \A k \in s : k <= j), Len(p))
Score(p, needle) ==
  IF IsPrefix(needle, Base(p)) THEN 1
  ELSE IF IsPrefix(needle, p) THEN 2
  ELSE IF \E i \in DOMAIN p : IsPrefix(needle, SubSeq(p, i, Len(p))) THEN 3
  ELSE 0
Query(needle) ==
  LET of(n) == SelectSeq(Paths, LAMBDA p : Score(p, needle) = n)
      all == of(1) \o of(2) \o of(3)
  IN SubSeq(all, 1, IF Len(all) < Rows THEN Len(all) ELSE Rows)

\* UpdateSlashMenuState and UpdateAtMenuState, which run after every event that
\* the menus and Enter did not take, on the text as it then is.
UpdateMenus(text, c, known) ==
  LET p == FindAtTokenAtCursor(text, c)
      found == IF known THEN Query(Till(SubSeq(text, p + 1, c), Blank)) ELSE <<>>
      menu == IF at.active /\ at.start = p THEN at
              ELSE [active |-> TRUE, selected |-> 0, start |-> p]
  IN /\ slash' = IF text = <<>> \/ text[1] # "/" THEN [slash EXCEPT !.active = FALSE]
                 ELSE IF slash.active THEN slash ELSE [NoMenu EXCEPT !.active = TRUE]
     /\ IF p = 0
        THEN at' = [at EXCEPT !.active = FALSE, !.selected = 0] /\ rows' = <<>>
        ELSE /\ rows' = found
             /\ at' = IF menu.selected < Len(found) THEN menu
                      ELSE [menu EXCEPT !.selected = IF found = <<>> THEN 0 ELSE Len(found) - 1]

-----------------------------------------------------------------------------
(* Typing: what FTXUI's input does with a key that the controller leaves.   *)

Edit(text, c) == /\ content' = text /\ cursor' = c /\ UpdateMenus(text, c, indexed)
                 /\ UNCHANGED <<indexed, sent>>

Type == \E g \in Glyphs \ {"\n"} :
          /\ Len(content) < MaxLength
          /\ Edit(SubSeq(content, 1, cursor) \o <<g>> \o SubSeq(content, cursor + 1, Len(content)),
                  cursor + 1)
Backspace == /\ cursor > 0
             /\ Edit(SubSeq(content, 1, cursor - 1) \o SubSeq(content, cursor + 1, Len(content)),
                     cursor - 1)
MoveCursor == \E c \in {cursor - 1, cursor + 1} \cap 0..Len(content) : Edit(content, c)

\* Alt, Shift or Ctrl with Enter; the menus are not brought up to date.
InsertNewline ==
  /\ Len(content) < MaxLength
  /\ content' = SubSeq(content, 1, cursor) \o <<"\n">> \o SubSeq(content, cursor + 1, Len(content))
  /\ cursor' = cursor + 1 /\ UNCHANGED <<slash, at, rows, indexed, sent>>

\* The first walk of the workspace ends: the redraw event passes through here.
RebuildComplete ==
  /\ ~indexed /\ indexed' = TRUE /\ UpdateMenus(content, cursor, TRUE)
  /\ UNCHANGED <<content, cursor, sent>>

Escape ==
  /\ at.active \/ slash.active
  /\ IF at.active THEN at' = [at EXCEPT !.active = FALSE, !.selected = 0] /\ UNCHANGED slash
     ELSE slash' = [slash EXCEPT !.active = FALSE] /\ UNCHANGED at
  /\ UNCHANGED <<content, cursor, rows, indexed, sent>>

MoveSelection ==
  \E delta \in {"up", "down"} :
    LET turn(s, n) == IF delta = "up" THEN (s + n - 1) % n ELSE (s + 1) % n
        shown == FilteredSlashIndices
    IN /\ IF at.active
          THEN /\ rows # <<>> /\ UNCHANGED slash
               /\ at' = [at EXCEPT !.selected = turn(@, Len(rows))]
          ELSE /\ slash.active /\ shown # <<>> /\ UNCHANGED at
               /\ slash' = [slash EXCEPT !.selected = turn(@, Len(shown))]
       /\ UNCHANGED <<content, cursor, rows, indexed, sent>>

-----------------------------------------------------------------------------
(* Enter.                                                                  *)

\* Enter or Tab in the file menu: the text from "@" to the cursor is replaced.
InsertMention ==
  /\ at.active /\ Len(content) <= MaxLength
  /\ IF at.selected >= Len(rows) THEN UNCHANGED <<content, cursor>>
     ELSE LET path == rows[at.selected + 1]
              from == Min({at.start, cursor + 1})
          IN /\ content' = SubSeq(content, 1, from - 1) \o <<"@">> \o path
                             \o SubSeq(content, cursor + 1, Len(content))
             /\ cursor' = from + Len(path)
  /\ at' = [at EXCEPT !.active = FALSE, !.selected = 0]
  /\ UNCHANGED <<slash, rows, indexed, sent>>

\* FindMentionSpans with IsMentionAtTokenBoundary: the paths named in a text, in
\* the order of their first mention.
Mentions(text) ==
  LET begins == {i \in DOMAIN text : text[i] = "@" /\ BeginsToken(text, i)}
      path(i) == LET ends == {j \in (i + 1)..Len(text) : ~IsPathChar(text[j])}
                 IN SubSeq(text, i + 1, IF ends = {} THEN Len(text) ELSE Min(ends) - 1)
      named == {i \in begins : path(i) # <<>> /\ \A k \in begins : path(k) = path(i) => i <= k}
  IN [n \in 1..Cardinality(named) |-> path(SetToSortSeq(named, <)[n])]

\* InlineFileMentions: the files in order, each cut at PerFileCap, until the
\* total reaches TotalCap; what does not exist leaves an error in its place.
InlineFileMentions(text) ==
  LET size(p) == IF p \in DOMAIN Sizes THEN Sizes[p] ELSE 0 - 1
      taken(p) == IF size(p) < 0 THEN 0 ELSE IF size(p) < PerFileCap THEN size(p) ELSE PerFileCap
      add(acc, p) == IF acc.skipped \/ acc.bytes >= TotalCap THEN [acc EXCEPT !.skipped = TRUE]
                     ELSE [files |-> Append(acc.files,
                                            [path |-> p, error |-> size(p) < 0,
                                             omitted |-> size(p) > taken(p)]),
                           bytes |-> acc.bytes + taken(p), skipped |-> FALSE]
  IN FoldLeft(add, [files |-> <<>>, bytes |-> 0, skipped |-> FALSE], Mentions(text))

Arguments(text, from) ==
  LET first == {i \in from..Len(text) : text[i] \notin Blank}
  IN IF first = {} THEN <<>> ELSE SubSeq(text, Min(first), Len(text))

Command(c, arguments) == [kind |-> "command", name |-> c.name,
                          arguments |-> IF c.arguments THEN arguments ELSE <<>>]

\* Submit: the text goes and the menus close.
Submit == /\ content' = <<>> /\ cursor' = 0 /\ slash' = NoMenu /\ at' = NoMenu
          /\ UNCHANGED <<rows, indexed>>

\* Enter in the command menu runs the selected command with what follows the
\* first blank; a selection beyond the rows only closes the menu.
DispatchSlashMenuSelection ==
  /\ ~at.active /\ slash.active
  /\ IF slash.selected >= Len(FilteredSlashIndices)
     THEN /\ slash' = [slash EXCEPT !.active = FALSE]
          /\ UNCHANGED <<content, cursor, at, rows, indexed, sent>>
     ELSE /\ sent' = Command(Commands[FilteredSlashIndices[slash.selected + 1]],
                             Arguments(content, Len(Till(content, Blank)) + 1))
          /\ Submit

\* TryDispatch: the name ends at a space only, and slashes before it are skipped.
Dispatched(text) ==
  LET start == {i \in DOMAIN text : text[i] # "/"}
      name == IF start = {} THEN <<>> ELSE Till(SubSeq(text, Min(start), Len(text)), {" "})
      hits == {i \in DOMAIN Commands : name \in Names(Commands[i])}
  IN IF text[1] # "/" \/ name = <<>> \/ hits = {} THEN [kind |-> "none"]
     ELSE Command(Commands[Min(hits)], Arguments(text, Len(name) + 2))

SubmitMessage ==
  /\ ~at.active /\ ~slash.active
  /\ \E i \in DOMAIN content : content[i] \notin Blank
  /\ sent' = IF Dispatched(content).kind = "command" THEN Dispatched(content)
             ELSE [kind |-> "message", attached |-> InlineFileMentions(content)]
  /\ Submit

Keys == \/ Type \/ Backspace \/ MoveCursor \/ InsertNewline \/ RebuildComplete \/ Escape
        \/ MoveSelection \/ InsertMention \/ DispatchSlashMenuSelection \/ SubmitMessage

\* Bound: one text is written and sent, with one path put into it beyond MaxLength.
Next == sent.kind = "none" /\ Keys

Spec == Init /\ [][Next]_vars

-----------------------------------------------------------------------------

TypeOK ==
  /\ cursor \in 0..Len(content) /\ Range(content) \subseteq Glyphs
  /\ at.active => at.start \in 1..Len(content)
  /\ Len(rows) <= Rows /\ indexed \in BOOLEAN
  /\ sent.kind \in {"none", "command", "message"}

\* Wrapping loses nothing but spaces: every other glyph of the text is in
\* exactly one row, rows follow each other, none is wider than the box unless
\* it holds a single glyph, and the cursor is drawn in the row that it stands
\* in, or at the end of the one before when it stands where a row begins.
WrapKeepsText ==
  LET lines == VisualLines(content)
      c == cursor + 1
      k == CursorVisualLineIndex(lines, c)
  IN /\ \A i \in DOMAIN content : content[i] \notin Blank =>
          Cardinality({n \in DOMAIN lines : lines[n].start <= i /\ i < lines[n].end}) = 1
     /\ \A n \in DOMAIN lines :
          /\ n < Len(lines) => lines[n].end <= lines[n + 1].start
          /\ lines[n].end - lines[n].start > 1
               => RowWidth(content, lines[n].start, lines[n].end) <= Width
     /\ lines[k].start <= c
     /\ \A n \in DOMAIN lines : n > k => c <= lines[n].start

\* The file a user picks from the menu is a file the message attaches: the text
\* it leaves is read as a mention of that path, unless the path itself or what
\* stands behind the cursor is not separated from it by the scanner.
PickedIsAttached ==
  \A n \in DOMAIN rows :
    /\ InsertMention /\ at.selected + 1 = n
    /\ \A i \in DOMAIN rows[n] : IsPathChar(rows[n][i])
    /\ cursor = Len(content) \/ ~IsPathChar(content[cursor + 1])
    => rows[n] \in Range(Mentions(content'))
=============================================================================
