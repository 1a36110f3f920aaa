---------------------------- MODULE SearchTools ----------------------------
(***************************************************************************)
(* Grep and Glob (tools/grep/grep.go, tools/glob/glob.go): one search of a *)
(* small tree.  Grep asks ripgrep where there is one and else walks the    *)
(* tree itself; Glob always walks.  A file is the sequence that says of    *)
(* each of its lines whether the regexp matches it; a binary or unreadable *)
(* file has no line to show.  What ripgrep takes for a match or a wanted   *)
(* file (smart case, its own globs) is taken to be what the walk takes.    *)
(***************************************************************************)
EXTENDS Integers, Sequences, SequencesExt, FiniteSets, FiniteSetsExt, Selections

CONSTANTS
    GlobNames,      \* names and wildcards a glob is made of
    MaxSegments,    \* bound: segments of a glob
    Heads,          \* values of head_limit
    Arounds,        \* lines of context before and after; none is negative
    MaxResults      \* matches Glob returns: 1000

ASSUME SearchAssumption == Heads \subseteq Nat \ {0} /\ Arounds \subseteq Nat /\ MaxResults \in Nat \ {0}

VARIABLES
    fileLines,      \* of each file of the tree, its lines
    ask,         \* the call
    searcher,    \* "rg" or "go"
    unvisited,   \* entries
    rowsFound,   \* rows so far: an entry, and a line, a count or nothing
    cutShort,    \* the answer says it was truncated
    searchEnd    \* "walking", "returned" or "error"

findVars == <<fileLines, ask, searcher, unvisited, rowsFound, cutShort, searchEnd>>

(* The tree in the order of WalkDir, and when each entry was modified. *)
Tree == << <<"a">>, <<"a", "a">>, <<"a", "b">>, <<"vendor">>, <<"vendor", "b">> >>
Modified == <<3, 1, 2, 3, 2>>
Files == {2, 3, 5}
Noisy == {4, 5}   \* a vendor directory and what is in it

-----------------------------------------------------------------------------
(* matchDP, globDP: from where in the path the segments from the s-th on   *)
(* match what is left of it; ** is tried on zero segments or more.         *)
Matches(path, segs) ==
    LET end == Len(path) + 1
        from[s \in 1..(Len(segs) + 1)] ==
            IF s > Len(segs) THEN {end}
            ELSE IF segs[s] = "**" THEN {p \in 1..end : \E k \in p..end : k \in from[s + 1]}
            ELSE {p \in 1..Len(path) : segs[s] \in {"*", path[p]} /\ p + 1 \in from[s + 1]}
    IN  1 \in from[1]

(* globCompile: without a glob every file is searched. *)
Wanted(i) == ask.segs = <<>> \/ Matches(Tree[i], ask.segs)

Hits(i) == {l \in DOMAIN fileLines[i] : fileLines[i][l]}

(* The lines of a match with their context, which end with the file's. *)
Context(i, l) == [k \in 1..(Min({l + ask.after, Len(fileLines[i])}) - Max({l - ask.before, 1}) + 1) |->
                     <<i, Max({l - ask.before, 1}) + k - 1>>]

(* What the walk shows of a file: around each match in turn, so that a     *)
(* line in two contexts comes twice.                                       *)
Shown(i) ==
    IF Hits(i) = {} THEN <<>>
    ELSE CASE ask.mode = "content" -> FlattenSeq([k \in 1..Cardinality(Hits(i)) |->
                                         Context(i, Ascending(Hits(i))[k])])
           [] ask.mode = "files"   -> << <<i, 0>> >>
           [] ask.mode = "count"   -> << <<i, Cardinality(Hits(i))>> >>

(* What is made of ripgrep's output for it: each line once.  With -l and   *)
(* -c it prints no events, and a line that is none is skipped.             *)
ShownByRg(i) ==
    IF ask.mode = "content" /\ Wanted(i)
    THEN LET lines == Ascending({r[2] : r \in ToSet(Shown(i))})
         IN  [k \in DOMAIN lines |-> <<i, lines[k]>>]
    ELSE <<>>

-----------------------------------------------------------------------------
Ask(which, segs, mode, head, around) ==
    [tool |-> which, segs |-> segs, mode |-> mode, head |-> head,
     before |-> around[1], after |-> around[2]]

SearchToolsInit ==
    /\ \E first, second \in {<<>>, <<FALSE>>, <<FALSE, TRUE, FALSE>>, <<TRUE, FALSE, TRUE>>} :
          fileLines = [i \in Files |-> CASE i = 2 -> first [] i = 3 -> second [] i = 5 -> <<TRUE>>]
    /\ \/ /\ \E segs \in BoundedSeq(GlobNames, MaxSegments) :
                ask = Ask("Glob", segs, "files", MaxResults, <<0, 0>>)
          /\ \A i \in {2, 3} : fileLines[i] = <<>>
          /\ searcher = "go" /\ unvisited = DOMAIN Tree
       \/ /\ \E segs \in {<<>>, <<"**", "b">>}, mode \in {"content", "files", "count"},
                head \in Heads, before, after \in Arounds :
                ask = Ask("Grep", segs, mode, head, <<before, after>>)
          /\ searcher \in {"rg", "go"} /\ unvisited = Files \ (IF searcher = "go" THEN Noisy ELSE {})
    /\ rowsFound = <<>> /\ cutShort = FALSE /\ searchEnd = "walking"

AnswerRows(rows, cut) ==
    /\ rowsFound' = rows /\ cutShort' = cut /\ searchEnd' = "returned"
    /\ UNCHANGED <<fileLines, ask, searcher>>

GoOn(rows) ==
    /\ rowsFound' = rows
    /\ UNCHANGED <<fileLines, ask, searcher, cutShort, searchEnd>>

(* rg cannot be started: the one error that lets the walk try. *)
RgStartFails ==
    /\ searchEnd = "walking" /\ searcher = "rg" /\ rowsFound = <<>> /\ unvisited = Files
    /\ searcher' = "go" /\ unvisited' = Files \ Noisy
    /\ UNCHANGED <<fileLines, ask, rowsFound, cutShort, searchEnd>>

(* rg searches files side by side and prints each as a whole; in content   *)
(* mode it is killed at the head limit.                                    *)
RgPrints(i) ==
    /\ searchEnd = "walking" /\ searcher = "rg" /\ i \in unvisited
    /\ unvisited' = unvisited \ {i}
    /\ LET rows == rowsFound \o ShownByRg(i)
       IN IF ask.mode = "content" /\ Len(rows) >= ask.head
          THEN AnswerRows(SubSeq(rows, 1, ask.head), TRUE)
          ELSE GoOn(rows)

(* The output ends: rg is through, or it failed, was cancelled or printed  *)
(* a line that is too long, perhaps in the middle of a file.  Its status   *)
(* is not asked, so that what came is the answer.                          *)
RgEnds ==
    /\ searchEnd = "walking" /\ searcher = "rg" /\ UNCHANGED unvisited
    /\ \/ AnswerRows(rowsFound, FALSE)
       \/ \E i \in unvisited : \E n \in 1..(Len(ShownByRg(i)) - 1) :
             /\ Len(rowsFound) + n < ask.head
             /\ AnswerRows(rowsFound \o SubSeq(ShownByRg(i), 1, n), FALSE)

Visiting(which) ==
    /\ searchEnd = "walking" /\ searcher = "go" /\ ask.tool = which /\ unvisited # {}
    /\ unvisited' = unvisited \ {Min(unvisited)}

(* One file of the walk; the row that reaches the limit ends it. *)
GrepVisit ==
    /\ Visiting("Grep")
    /\ LET i == Min(unvisited)
           new == IF Wanted(i) THEN Shown(i) ELSE <<>>
       IN IF ask.mode = "content" /\ Len(rowsFound \o new) >= ask.head
          THEN AnswerRows(SubSeq(rowsFound \o new, 1, ask.head), TRUE)
          ELSE GoOn(rowsFound \o new)

GrepEnds ==
    /\ searchEnd = "walking" /\ searcher = "go" /\ ask.tool = "Grep" /\ unvisited = {}
    /\ UNCHANGED unvisited
    /\ IF ask.mode = "files" /\ Len(rowsFound) > ask.head
       THEN AnswerRows(SubSeq(rowsFound, 1, ask.head), TRUE)
       ELSE AnswerRows(rowsFound, FALSE)

(* The newest first, in any order when they are of one time. *)
ByAge(rows) ==
    {s \in SetToSeqs(ToSet(rows)) :
        \A i, j \in DOMAIN s : i < j => Modified[s[i][1]] >= Modified[s[j][1]]}

GlobVisit ==
    /\ Visiting("Glob")
    /\ LET i == Min(unvisited)
           rows == IF Matches(Tree[i], ask.segs) THEN Append(rowsFound, <<i, 0>>) ELSE rowsFound
       IN IF rows # rowsFound /\ Len(rows) >= MaxResults
          THEN \E s \in ByAge(rows) : AnswerRows(s, TRUE)
          ELSE GoOn(rows)

GlobEnds ==
    /\ searchEnd = "walking" /\ ask.tool = "Glob" /\ unvisited = {}
    /\ \E s \in ByAge(rowsFound) : AnswerRows(s, FALSE)
    /\ UNCHANGED unvisited

(* A cancelled walk returns an error and nothing else. *)
WalkCancelled ==
    /\ searchEnd = "walking" /\ searcher = "go" /\ unvisited # {}
    /\ searchEnd' = "error"
    /\ UNCHANGED <<fileLines, ask, searcher, unvisited, rowsFound, cutShort>>

FindNext ==
    \/ RgStartFails
    \/ \E i \in Files : RgPrints(i)
    \/ RgEnds
    \/ GrepVisit
    \/ GrepEnds
    \/ GlobVisit
    \/ GlobEnds
    \/ WalkCancelled

FindStopped == searchEnd # "walking"

-----------------------------------------------------------------------------
FindTypeOK ==
    /\ searcher \in {"rg", "go"} /\ searchEnd \in {"walking", "returned", "error"}
    /\ unvisited \subseteq DOMAIN Tree /\ cutShort \in BOOLEAN
    /\ \A k \in DOMAIN rowsFound : rowsFound[k][1] \in DOMAIN Tree

(* What a glob means: the path can be cut so that each segment gets one    *)
(* name and ** any number of them.                                         *)
Means(path, segs) ==
    \E cut \in [1..(Len(segs) + 1) -> 1..(Len(path) + 1)] :
        /\ cut[1] = 1 /\ cut[Len(segs) + 1] = Len(path) + 1
        /\ \A i \in DOMAIN segs :
              /\ cut[i] <= cut[i + 1]
              /\ segs[i] = "**" \/ (cut[i + 1] = cut[i] + 1 /\ segs[i] \in {"*", path[cut[i]]})

(* Rows the call asks for in the files a walk searches. *)
Owed(searched) ==
    LET near(i, l) == \E m \in Hits(i) : l \in (m - ask.before)..(m + ask.after)
        rows(i) == IF Hits(i) = {} THEN {}
                   ELSE CASE ask.mode = "content" -> {<<i, l>> : l \in {k \in DOMAIN fileLines[i] : near(i, k)}}
                          [] ask.mode = "files" -> {<<i, 0>>}
                          [] ask.mode = "count" -> {<<i, Cardinality(Hits(i))>>}
    IN  UNION {rows(i) : i \in {f \in searched : ask.segs = <<>> \/ Means(Tree[f], ask.segs)}}

(* A search says what it found (grep.go:311-415, 490-583).  All its rows   *)
(* are owed and cut only at the limit, when it says so.  The walk is       *)
(* answered from only when it has been through every file; ripgrep may     *)
(* break off and say nothing of it, but then only files it had not done    *)
(* with are incomplete; and when it is asked for files or counts, it       *)
(* always finds nothing.                                                   *)
GrepTellsAll ==
    ask.tool = "Grep" /\ searchEnd = "returned" =>
        LET searched == IF searcher = "rg" THEN Files ELSE Files \ Noisy
        IN  /\ ToSet(rowsFound) \subseteq Owed(searched)
            /\ cutShort => Len(rowsFound) = ask.head /\ ask.mode # "count"
            /\ ~cutShort /\ ask.mode = "content" => Len(rowsFound) < ask.head
            /\ IF searcher = "rg" /\ ask.mode # "content"
               THEN rowsFound = <<>> /\ ~cutShort
               ELSE ~cutShort => Owed(searched \ unvisited) \subseteq ToSet(rowsFound)
            /\ searcher = "go" /\ ~cutShort => unvisited = {}

(* Glob returns the entries its pattern means, newest first, and leaves    *)
(* some out only when it returns as many as it may and says so             *)
(* (glob.go:111-139, 182-230).                                             *)
GlobTellsAll ==
    ask.tool = "Glob" /\ searchEnd = "returned" =>
        LET meant == {<<i, 0>> : i \in {e \in DOMAIN Tree : Means(Tree[e], ask.segs)}}
        IN  /\ ToSet(rowsFound) \subseteq meant
            /\ IF cutShort THEN Len(rowsFound) = MaxResults ELSE ToSet(rowsFound) = meant
            /\ \A i, j \in DOMAIN rowsFound : i < j => Modified[rowsFound[i][1]] >= Modified[rowsFound[j][1]]
============================================================================
