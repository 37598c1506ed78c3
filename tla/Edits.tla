------------------------------- MODULE Edits -------------------------------
(***************************************************************************)
(* The file tools of the workspace: file_read, file_write and file_edit,   *)
(* with the three replacers an edit tries in turn and the diff it reports. *)
(*                                                                         *)
(* A text is a sequence of characters out of a few: two letters, a blank   *)
(* and the end of a line; which is all the replacers tell apart.  One file *)
(* stands for all of them: the tools work on one at a time.  Paths outside *)
(* the workspace, symbolic links and binary or oversized files are a       *)
(* refusal the environment chooses.                                        *)
(***************************************************************************)
EXTENDS Ordered, Sequences, SequencesExt

CONSTANTS
  Texts,      \* texts a user or file_write gives a file
  OldTexts,   \* old_string of an edit
  NewTexts,   \* new_string of an edit
  MaxLength,    \* bound: length of a text an edit is tried on
  MaxDiffCells  \* kMaxDiffCells

VARIABLES
  file,       \* content, or None for a file that does not exist
  call        \* the last file_edit: its arguments, text before and outcome

vars == <<file, call>>

None == <<"none">>
NewLine == "nl"
Blank == "sp"
Characters == {"x", "y", Blank, NewLine}

NoCall == [all |-> FALSE, old |-> <<>>, new |-> <<>>, before |-> <<>>, after |-> <<>>, diff |-> <<>>]

Init == file = None /\ call = NoCall

Cut(text, from, upto) == SubSeq(text, from, upto - 1)   \* [from, upto)

Replaced(text, match, new) ==
  Cut(text, 1, match.start) \o new \o Cut(text, match.end, Len(text) + 1)

-----------------------------------------------------------------------------
(* SplitLinesWithOffsets: a line ends at its newline, which is not part of *)
(* it; a last line need not have one.                                      *)
Breaks(text) == {i \in DOMAIN text : text[i] = NewLine}

Starts(text) == {i \in DOMAIN text : i = 1 \/ text[i - 1] = NewLine}

LineAt(text, start) ==
  LET after == {i \in Breaks(text) : i >= start}
      end == IF after = {} THEN Len(text) + 1
             ELSE CHOOSE i \in after : \A j \in after : i <= j
  IN [text |-> Cut(text, start, end), start |-> start, end |-> end,
      endWithNewline |-> IF after = {} THEN end ELSE end + 1]

SplitLinesWithOffsets(text) ==
  LET starts == InOrder(Starts(text))
  IN [l \in DOMAIN starts |-> LineAt(text, starts[l])]

SplitLines(text) ==
  LET lines == SplitLinesWithOffsets(text)
  IN [l \in DOMAIN lines |-> lines[l].text]

TrimRight(line) ==
  LET ink == {i \in DOMAIN line : line[i] # Blank}
  IN IF ink = {} THEN <<>> ELSE SubSeq(line, 1, CHOOSE i \in ink : \A j \in ink : j <= i)

CollapseWhitespaceRuns(line) ==
  PickedAt(line, {i \in DOMAIN line : ~(line[i] = Blank /\ i > 1 /\ line[i - 1] = Blank)})

HasTrailingNewline(text) == text # <<>> /\ Last(text) = NewLine

MatchEnd(old, line) == IF HasTrailingNewline(old) THEN line.endWithNewline ELSE line.end

Normalized(line, way) ==
  IF way = "trimmed" THEN TrimRight(line) ELSE CollapseWhitespaceRuns(line)

(* Runs of lines that are those of old, each line normalized.              *)
FindLineWindowMatches(text, old, way) ==
  LET lines == SplitLinesWithOffsets(text)
      oldLines == SplitLines(old)
      first == {l \in DOMAIN lines :
                  /\ l + Len(oldLines) - 1 <= Len(lines)
                  /\ \A k \in DOMAIN oldLines :
                       Normalized(lines[l + k - 1].text, way) = Normalized(oldLines[k], way)}
  IN {[start |-> lines[l].start, end |-> MatchEnd(old, lines[l + Len(oldLines) - 1])] :
        l \in first}

Occurrences(text, old) ==
  {[start |-> i, end |-> i + Len(old)] :
     i \in {j \in DOMAIN text : IsPrefix(old, SubSeq(text, j, Len(text)))}}

Leftmost(matches) == CHOOSE m \in matches : \A n \in matches : m.start <= n.start

(* SimpleReplacer looks for the next match behind the one it found.        *)
SimpleMatches(text, old) ==
  LET all == Occurrences(text, old)
      first == Leftmost(all)
      later == {m \in all : m.start >= first.end}
  IN IF all = {} THEN {} ELSE {first} \cup later

(* All matches are replaced, from left to right.                           *)
ReplacedAll(text, old, new) ==
  LET rest[from \in 1..(Len(text) + 1)] ==
        LET ahead == {m \in Occurrences(text, old) : m.start >= from}
        IN IF ahead = {} THEN Cut(text, from, Len(text) + 1)
           ELSE Cut(text, from, Leftmost(ahead).start) \o new \o rest[Leftmost(ahead).end]
  IN rest[1]

(* The matches of the first replacer that has any: more than one is an     *)
(* error, and so is none.                                                  *)
Matches(text, old) ==
  LET simple == SimpleMatches(text, old)
      trimmed == FindLineWindowMatches(text, old, "trimmed")
      collapsed == FindLineWindowMatches(text, old, "collapsed")
  IN IF simple # {} THEN simple ELSE IF trimmed # {} THEN trimmed ELSE collapsed

-----------------------------------------------------------------------------
(* ComputeDiff: the longest common subsequence of the lines, walked from   *)
(* the front; all lines are given up when the matrix would be too large.   *)
CommonFrom(a, b) ==
  LET dp[i \in 1..(Len(a) + 1), j \in 1..(Len(b) + 1)] ==
        IF i > Len(a) \/ j > Len(b) THEN 0
        ELSE IF a[i] = b[j] THEN 1 + dp[i + 1, j + 1]
        ELSE IF dp[i + 1, j] >= dp[i, j + 1] THEN dp[i + 1, j] ELSE dp[i, j + 1]
  IN dp

Op(type, line) == [type |-> type, line |-> line]

RemoveFirstAlways(dp, i, j) == TRUE
RemovesHere(dp, i, j) == dp[i + 1, j] >= dp[i, j + 1]

ComputeOps(a, b) ==
  LET dp == CommonFrom(a, b)
      ops[i \in 1..(Len(a) + 1), j \in 1..(Len(b) + 1)] ==
        IF i > Len(a) THEN [k \in 1..(Len(b) - j + 1) |-> Op("add", b[j + k - 1])]
        ELSE IF j > Len(b) THEN [k \in 1..(Len(a) - i + 1) |-> Op("remove", a[i + k - 1])]
        ELSE IF a[i] = b[j] THEN <<Op("context", a[i])>> \o ops[i + 1, j + 1]
        ELSE IF RemovesHere(dp, i, j) THEN <<Op("remove", a[i])>> \o ops[i + 1, j]
        ELSE <<Op("add", b[j])>> \o ops[i, j + 1]
  IN ops[1, 1]

ContextLines == 3

(* Context further than three lines from a change is left out.             *)
NearChange(ops) ==
  LET changed == {k \in DOMAIN ops : ops[k].type # "context"}
      shown == {k \in DOMAIN ops : \E c \in changed :
                  c <= k + ContextLines /\ k <= c + ContextLines}
  IN IF changed = {} THEN ops ELSE PickedAt(ops, shown)

ComputeDiff(oldText, newText) ==
  LET a == SplitLines(oldText)  b == SplitLines(newText) IN
  IF Len(a) * Len(b) > MaxDiffCells
  THEN [k \in DOMAIN a |-> Op("remove", a[k])] \o [k \in DOMAIN b |-> Op("add", b[k])]
  ELSE NearChange(ComputeOps(a, b))

-----------------------------------------------------------------------------
(* The tools.                                                              *)
ExecuteFileWriteTool(text) ==
  /\ file' = text
  /\ call' = NoCall

Edited(all, old, new, text) ==
  /\ file' = text
  /\ call' = [all |-> all, old |-> old, new |-> new, before |-> file, after |-> text,
              diff |-> ComputeDiff(file, text)]

(* Bound: an edit is of a text just written, never of an edited one.       *)
MayEdit(old, new) ==
  file # None /\ call = NoCall /\ Len(file) <= MaxLength /\ old # <<>> /\ old # new

(* Refusals (no file, no match, several matches, equal texts) change       *)
(* nothing.                                                                *)
ExecuteEditTool(old, new) ==
  /\ MayEdit(old, new)
  /\ Cardinality(Matches(file, old)) = 1
  /\ \E m \in Matches(file, old) : Edited(FALSE, old, new, Replaced(file, m, new))

ExecuteEditToolAll(old, new) ==
  /\ MayEdit(old, new)
  /\ Occurrences(file, old) # {}
  /\ Edited(TRUE, old, new, ReplacedAll(file, old, new))

Next ==
  \/ \E text \in Texts : ExecuteFileWriteTool(text)
  \/ \E old \in OldTexts, new \in NewTexts :
       ExecuteEditTool(old, new) \/ ExecuteEditToolAll(old, new)

Spec == Init /\ [][Next]_vars

-----------------------------------------------------------------------------
TypeOK ==
  /\ file = None \/ Range(file) \subseteq Characters
  /\ \A k \in DOMAIN call.diff : call.diff[k].type \in {"add", "remove", "context"}

Ink(text) == PickedAt(text, {i \in DOMAIN text : text[i] # Blank})

(* An edit takes out one stretch of text that reads like old_string but    *)
(* for blanks, ends a line when old_string does, and leaves all the rest.  *)
EditIsLocal ==
  call # NoCall /\ ~call.all =>
    \E i, j \in 1..(Len(call.before) + 1) :
      /\ i <= j
      /\ call.after = Replaced(call.before, [start |-> i, end |-> j], call.new)
      /\ LET taken == Ink(Cut(call.before, i, j)) IN
         \/ taken = Ink(call.old)
         \/ taken \o <<NewLine>> = Ink(call.old) /\ j = Len(call.before) + 1

Changes(type) == Cardinality({k \in DOMAIN call.diff : call.diff[k].type = type})

(* Lines that both texts have in order; the most there can be.             *)
CommonLines(a, b) ==
  LET ofB == AllSubSeqs(b)
      common == {s \in AllSubSeqs(a) : s \in ofB}
  IN Len(CHOOSE s \in common : \A t \in common : Len(t) <= Len(s))

(* The diff the user is shown counts the lines that really differ, and no  *)
(* more of them.                                                           *)
DiffIsSmallest ==
  call # NoCall =>
    LET a == SplitLines(call.before)  b == SplitLines(call.after) IN
    /\ Len(a) * Len(b) <= MaxDiffCells =>
         /\ Changes("remove") = Len(a) - CommonLines(a, b)
         /\ Changes("add") = Len(b) - CommonLines(a, b)
    /\ Changes("remove") <= Len(a) /\ Changes("add") <= Len(b)
=============================================================================
