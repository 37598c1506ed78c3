------------------------------- MODULE FileIndex ------------------------------
(***************************************************************************)
(* The index behind the "@" menu: FileIndex, whose worker thread walks the *)
(* workspace (workspace_walker.cpp) while other programs change it, and    *)
(* the two walkers, ripgrep and the one of this program with its           *)
(* GitignoreFilter.  A walk sees each file at a moment of its own; a       *)
(* rebuild asked for during a walk must not be lost to that walk.          *)
(*                                                                         *)
(* A path is a sequence of names.  A line of .gitignore is a record: form  *)
(* "dir" for `name/`, "root" for `/name`, "plain" for `name` and "not" for *)
(* `!name`, each with the path it names.                                   *)
(***************************************************************************)
EXTENDS Naturals, FiniteSets, Sequences

CONSTANTS Files,       \* paths of files that may exist
          Lines,       \* lines that .gitignore may hold
          MaxEntries,  \* rows of an index at most
          MaxChanges, MaxRequests

VARIABLES disk,        \* the files that exist
          ignore,      \* the lines of .gitignore, or {"none"} without the file
          requested, state, worker, walker, filter, todo, seen, truncated,
          noRipgrep,   \* g_rg_unavailable
          rows, stale, \* the published rows; their age is beyond kTtl
          callbacks,   \* redraws posted and not yet handled
          stopping, changed, changes, requests

index == <<requested, state, rows, stale, callbacks>>
walk == <<walker, filter, todo, seen, truncated>>
world == <<disk, ignore, changed, changes, requests>>
vars == <<index, walk, world, worker, noRipgrep, stopping>>

NoFile == {[form |-> "none", path |-> <<>>]}

Init ==
  /\ disk \in SUBSET Files /\ ignore \in {NoFile} \cup SUBSET Lines
  /\ requested = FALSE /\ state = "cold" /\ worker = "waiting"
  /\ walker = "rg" /\ filter = {} /\ todo = {} /\ seen = {} /\ truncated = FALSE
  /\ noRipgrep = FALSE /\ rows = {} /\ stale = FALSE /\ callbacks = 0 /\ stopping = FALSE
  /\ changed = {} /\ changes = 0 /\ requests = 0

-----------------------------------------------------------------------------
(* What the walkers list.                                                  *)

Below(p, dir) == Len(p) > Len(dir) /\ SubSeq(p, 1, Len(dir)) = dir
Directories(p) == {SubSeq(p, 1, n) : n \in 1..(Len(p) - 1)}

\* The patterns of a line, for fnmatch on the whole path: `name/` and `/name`
\* stand for the name and for all below it, `name` only for itself.
Matches(line, p) ==
  \/ line.path = p
  \/ line.form \in {"dir", "root"} /\ Below(p, line.path)

FallbackDenyList == {[form |-> "dir", path |-> <<"build">>]}
GitDirectory == [form |-> "dir", path |-> <<".git">>]

Patterns == IF ignore = NoFile THEN FallbackDenyList \cup {GitDirectory}
            ELSE ignore \cup {GitDirectory}

\* ShouldSkip for a file, and for a directory, whose path ends in a slash: only
\* a pattern for all below it matches that.
ShouldSkip(lines, p) ==
  /\ \E l \in lines : l.form # "not" /\ Matches(l, p)
  /\ ~\E l \in lines : l.form = "not" /\ l.path = p
SkipsDirectory(lines, d) ==
  \E l \in lines : l.form \in {"dir", "root"} /\ (l.path = d \/ Below(d, l.path))

StdLists(lines, p) ==
  /\ ~ShouldSkip(lines, p)
  /\ \A d \in Directories(p) : ~SkipsDirectory(lines, d)

\* ripgrep with --hidden and --no-require-git: git's own rules, where a plain
\* name is ignored with all below it; .git itself is listed.
RipgrepLists(p) ==
  \/ ignore = NoFile
  \/ \A l \in ignore :
       l.form # "not" /\ (l.path = p \/ Below(p, l.path))
         => \E n \in ignore : n.form = "not" /\ n.path = p /\ ~Below(p, l.path)

Lists(w, lines, p) == IF w = "rg" THEN RipgrepLists(p) ELSE StdLists(lines, p)

-----------------------------------------------------------------------------
(* Requests.                                                               *)

\* WarmAsync, Invalidate, and a Query that finds the rows older than kTtl.
WarmAsync ==
  /\ requests < MaxRequests /\ ~stopping
  /\ requested' = TRUE /\ changed' = {} /\ requests' = requests + 1
  /\ UNCHANGED <<state, rows, stale, callbacks, walk, disk, ignore, changes, worker,
                 noRipgrep, stopping>>

TimePasses ==
  /\ state = "ready" /\ ~stale /\ stale' = TRUE
  /\ UNCHANGED <<requested, state, rows, callbacks, walk, world, worker, noRipgrep, stopping>>

Query ==
  /\ state = "ready" /\ stale /\ ~requested /\ requests < MaxRequests
  /\ requested' = TRUE /\ changed' = {} /\ requests' = requests + 1
  /\ UNCHANGED <<state, rows, stale, callbacks, walk, disk, ignore, changes, worker,
                 noRipgrep, stopping>>

\* Another program, or a tool, creates or removes a file.
ChangeFile ==
  /\ changes < MaxChanges /\ changes' = changes + 1
  /\ \E f \in Files :
       /\ disk' = IF f \in disk THEN disk \ {f} ELSE disk \cup {f}
       /\ changed' = changed \cup {f}
  /\ UNCHANGED <<ignore, requests, index, walk, worker, noRipgrep, stopping>>

-----------------------------------------------------------------------------
(* The worker.                                                             *)

StartWalk(w) == /\ walker' = w /\ filter' = Patterns
                /\ todo' = Files /\ seen' = {} /\ truncated' = FALSE

TakeRequest ==
  /\ worker = "waiting" /\ requested /\ ~stopping
  /\ requested' = FALSE /\ state' = "warming" /\ worker' = "walking"
  /\ StartWalk(IF noRipgrep THEN "std" ELSE "rg")
  /\ UNCHANGED <<rows, stale, callbacks, world, noRipgrep, stopping>>

\* The walker comes to a place where a file is or is not.
Visit ==
  /\ worker = "walking" /\ ~truncated
  /\ \E f \in todo :
       /\ todo' = todo \ {f}
       /\ seen' = IF f \in disk /\ Lists(walker, filter, f) THEN seen \cup {f} ELSE seen
       /\ truncated' = (Cardinality(seen') >= MaxEntries /\ (walker = "std" \/ todo' # {}))
  /\ UNCHANGED <<walker, filter, index, world, worker, noRipgrep, stopping>>

\* ripgrep cannot be started, which is remembered, or fails or takes too long.
RipgrepFails ==
  /\ worker = "walking" /\ walker = "rg" /\ ~stopping
  /\ noRipgrep' \in {TRUE, noRipgrep} /\ StartWalk("std")
  /\ UNCHANGED <<index, world, worker, stopping>>

\* A mutant: what was asked for in the meantime is forgotten.
Served(b) == FALSE

AfterWalk(b) == b
Publish ==
  /\ worker = "walking" /\ (todo = {} \/ truncated) /\ ~stopping
  /\ requested' = AfterWalk(requested)
  /\ rows' = seen /\ state' = "ready" /\ stale' = FALSE /\ worker' = "published"
  /\ todo' = {} /\ seen' = {}
  /\ UNCHANGED <<callbacks, walker, filter, truncated, world, noRipgrep, stopping>>

\* on_rebuild_complete_, outside the lock.
Callback ==
  /\ worker = "published" /\ worker' = "waiting" /\ callbacks' = 1
  /\ UNCHANGED <<requested, state, rows, stale, walk, world, noRipgrep, stopping>>

Redraw ==
  /\ callbacks = 1 /\ callbacks' = 0
  /\ UNCHANGED <<requested, state, rows, stale, walk, world, worker, noRipgrep, stopping>>

\* ~FileIndex: the stop, then the request that wakes the worker.
Destroy ==
  /\ ~stopping /\ stopping' = TRUE /\ requested' = TRUE
  /\ UNCHANGED <<state, rows, stale, callbacks, walk, world, worker, noRipgrep>>

WorkerEnds ==
  /\ stopping /\ worker \in {"waiting", "walking"} /\ worker' = "gone" /\ todo' = {} /\ seen' = {}
  /\ UNCHANGED <<index, walker, filter, truncated, world, noRipgrep, stopping>>

Next == \/ WarmAsync \/ TimePasses \/ Query \/ ChangeFile \/ TakeRequest \/ Visit
        \/ RipgrepFails \/ Publish \/ Callback \/ Redraw \/ Destroy \/ WorkerEnds

Spec == Init /\ [][Next]_vars

-----------------------------------------------------------------------------

TypeOK ==
  /\ disk \subseteq Files /\ rows \subseteq Files /\ seen \subseteq Files
  /\ state \in {"cold", "warming", "ready"}
  /\ worker \in {"waiting", "walking", "published", "gone"}
  /\ callbacks \in 0..1 /\ Cardinality(rows) <= MaxEntries

\* Rows that are presented as ready, with no rebuild asked for, show the disk as
\* it was when the last rebuild was asked for, or later: a file that has not
\* changed since is listed when it exists and the walker lists it.
RowsAreFresh ==
  state = "ready" /\ ~requested /\ ~truncated
    => \A f \in Files \ changed : f \in rows <=> f \in disk /\ Lists(walker, filter, f)
=============================================================================
