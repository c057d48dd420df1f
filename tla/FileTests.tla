----------------------------- MODULE FileTests -----------------------------
(***************************************************************************)
(* The test programs of p6_file_system (t0, t1, yiyang, qxwang) on a file  *)
(* system that does what BobFS does (modules BobFS and Files), a call in   *)
(* one step and to the byte: sizes and offsets are those of the tests.     *)
(* What is written is kept item by item, a word or a character, at the     *)
(* offset of its first byte; the tests read at no other offsets.           *)
(***************************************************************************)
EXTENDS Naturals, Sequences, FiniteSetsExt, SequencesExt, TLC

CONSTANT Many  \* the files that yiyang makes: 100

VARIABLES
  test,    \* the program: text and ok
  at,      \* its next instruction
  nodes,   \* the i-nodes in the order in which they were made, the root first
  held,    \* the nodes the program holds: from its variables to nodes, 0 for null
  got,     \* what it read last
  printed  \* the lines that begin with ***

vars == <<test, at, nodes, held, got, printed>>

null == 0
Root == 1

-----------------------------------------------------------------------------
(* The tests *)

Found(line) == << <<"print", <<line>> >> >>

\* The image that t0 mounts: two files in the root and in d1, a third one and
\* the first in d2; 1000 zeros and 1000 numbers in the first.
Image == << <<"new", "f1", "root", "abc", "file">>, <<"new", "f2", "root", "xyz", "file">>,
            <<"new", "f3", "root", "pq", "file">>, <<"new", "d1", "root", "d1", "directory">>,
            <<"link", "d1", "was_abc", "f1">>, <<"link", "d1", "was_xyz", "f2">>,
            <<"new", "d2", "root", "d2", "directory">>, <<"link", "d2", "was_pq", "f3">>,
            <<"write", "f1", 4000, [i \in 1..1000 |-> i], 4>>, <<"link", "d2", "abc2", "f1">> >>
Tree(f1, f2, f3, was1, was2, was3, again, n) ==
  << <<"directory", "root", 1>>, <<"file", f1, 3, n>>, <<"file", f2, 2, 0>>, <<"file", f3, 2, 0>>,
     <<"directory", "d1", 1>>, <<"file", was1, 3, n>>, <<"file", was2, 2, 0>>,
     <<"directory", "d2", 1>>, <<"file", was3, 2, 0>>, <<"file", again, 3, n>> >>
Told(name, kind, size, links) ==
  << <<name, "is a", kind>>, <<name, "bytes", size>>, <<name, "links", links>> >>
Missing(name) == << <<name, "is null">> >>

\* The file that two directories share is read to its end.
ReadBack(f, words) ==
  << <<"read", f, 0, 4, 2500>>, <<"print count">>, <<"compare", 0, 999, 0>> >>
  \o Found("found 1000 zero values") \o << <<"compare", 1000, words - 1, 999>> >>
  \o Found("found 1000 sequential values") \o Found("done")
ToldBack(n) == << <<"read", n>>, <<"found 1000 zero values">>,
                  <<"found 1000 sequential values">>, <<"done">> >>

t0 ==
  [text |-> Image
            \o << <<"check", "root", "root">>, <<"dump">>, <<"find", "f", "root", "xyz">>,
                  <<"find", "f", "root", "zztop">>, <<"find", "f", "root", "abc">>,
                  <<"find", "d1", "root", "d1">>, <<"find", "f", "d1", "abc2">>,
                  <<"find", "d2", "root", "d2">>, <<"find", "f", "d2", "abc2">> >>
            \o ReadBack("f", 2000),
   ok   |-> Told("root", "directory", 52, 1)
            \o Tree("abc", "xyz", "pq", "was_abc", "was_xyz", "was_pq", "abc2", 8000)
            \o Told("xyz", "file", 0, 2) \o Missing("zztop") \o Told("abc", "file", 8000, 3)
            \o Told("d1", "directory", 30, 1) \o Missing("abc2")
            \o Told("d2", "directory", 26, 1) \o Told("abc2", "file", 8000, 3)
            \o ToldBack(8000)]

\* The same from an empty disk, which is mounted again before it is read.
t1 ==
  LET tree == Tree("the_who", "deep_purple", "pq", "was_the_who", "was_deep_purple", "was_pq",
                   "the_who2", 6000)
  IN
  [text |-> << <<"new", "f1", "root", "the_who", "file">>,
               <<"new", "f2", "root", "deep_purple", "file">>, <<"new", "f3", "root", "pq", "file">>,
               <<"new", "d1", "root", "d1", "directory">>, <<"link", "d1", "was_the_who", "f1">>,
               <<"link", "d1", "was_deep_purple", "f2">>, <<"new", "d2", "root", "d2", "directory">>,
               <<"link", "d2", "was_pq", "f3">>, <<"write", "f1", 4000, [i \in 1..500 |-> i], 4>>,
               <<"link", "d2", "the_who2", "f1">>, <<"dump">>, <<"mount">>,
               <<"check", "root", "root">>, <<"dump">>,
               <<"find", "f", "root", "deep_purple">>, <<"find", "f", "root", "zztop">>,
               <<"find", "f", "root", "the_who">>, <<"find", "d1", "root", "d1">>,
               <<"find", "f", "d1", "the_who2">>, <<"find", "d2", "root", "d2">>,
               <<"find", "f", "d2", "the_who2">> >>
            \o ReadBack("f", 1500),
   ok   |-> tree \o Told("root", "directory", 64, 1) \o tree
            \o Told("deep_purple", "file", 0, 2) \o Missing("zztop") \o Told("the_who", "file", 6000, 3)
            \o Told("d1", "directory", 42, 1) \o Missing("the_who2")
            \o Told("d2", "directory", 30, 1) \o Told("the_who2", "file", 6000, 3)
            \o ToldBack(6000)]

\* Many files, each with one word far from its start, so that its first blocks
\* are holes; names that are beginnings of each other.
makeName(n) == FoldLeft(LAMBDA s, c : s \o c, "", [i \in 1..n |-> "$"])
node(i) == "node" \o ToString(i)
Far(i) == 1024 * 256 + 42 + i
Each(Text(_)) == FlattenSeq([i \in 1..Many |-> Text(i - 1)])
yiyang ==
  [text |-> Each(LAMBDA i : << <<"new", node(i), "root", makeName(Many - i), "file">>,
                               <<"write", node(i), Far(i), <<37 * i>>, 4>> >>)
            \o Each(LAMBDA i : << <<"read", node(i), 1024 * i + i, 4, 1>>, <<"expect", <<0>> >> >>)
            \o Each(LAMBDA i : << <<"read", node(i), Far(i), 4, 1>>, <<"expect", <<37 * i>> >> >>)
            \o << <<"look", "two", "root", "$$">>, <<"read", "two", 1024 * 256 + 42, 4, 1>> >>
            \o Found("Cash Money") \o << <<"dump">> >>,
   ok   |-> << <<"Cash Money">>, <<"directory", "root", 1>> >>
            \o [i \in 1..Many |-> <<"file", makeName(Many - i + 1), 1, Far(i - 1) + 4>>]]

\* Two users of one disk write a file, and see what the other wrote; a third one
\* mounts it, reads the file and adds to it; then one file of the largest size.
Song == [i \in 1..186 |-> i]
Sung == [i \in 1..186 |-> IF i <= 160 /\ i % 10 = 1 THEN 0 ELSE i]
Improvised == [i \in 1..50 |-> 1000 + i]
qxwang ==
  [text |-> << <<"new", "d1", "root", "Sgt.Peppers", "directory">>,
               <<"new", "d1f1", "d1", "a_day_in_life", "file">>, <<"mount">>,
               <<"new", "d2", "root", "Help!", "directory">>,
               <<"link", "d2", "another_day_in_life", "d1f1">>,
               <<"look", "d2f1", "d2", "another_day_in_life">>, <<"write", "d1f1", 1500, Song, 1>> >>
            \o [i \in 1..16 |-> <<"write", "d2f1", 1490 + 10 * i, <<0>>, 1>>]
            \o << <<"mount">>, <<"seek", "d1", "root", "Sgt.Peppers">>,
                  <<"seek", "f", "d1", "a_day_in_life">>, <<"write", "f", 0, Improvised, 1>>,
                  <<"read", "f", 1500, 1, 300>>, <<"print got">>, <<"print count">>,
                  <<"read", "f", 0, 1, 50>>, <<"print got">>, <<"mount">>,
                  <<"new", "long", "root", "LongLong", "file">> >>
            \o [i \in 1..264 |-> <<"write", "long", 1000 * (i - 1), <<i - 1>>, 4>>]
            \o << <<"dump">> >> \o Found("done"),
   ok   |-> << <<"Sgt.Peppers", "is a", "directory">>, <<"a_day_in_life", "is a", "file">>,
               Sung, <<"read", 186>>, Improvised,
               <<"directory", "root", 1>>, <<"directory", "Sgt.Peppers", 1>>,
               <<"file", "a_day_in_life", 2, 1686>>, <<"directory", "Help!", 1>>,
               <<"file", "another_day_in_life", 2, 1686>>, <<"file", "LongLong", 1, 263004>>,
               <<"done">> >>]

Tests == {t0, t1, yiyang, qxwang}

-----------------------------------------------------------------------------
(* The file system *)

\* initNewNode.  A file has items, a directory entries.
New(kind) == [kind |-> kind, links |-> 1, size |-> 0, items |-> <<>>, entries |-> <<>>]

strlen(str) == Len(str)
streq(a, b) == strlen(a) = strlen(b) /\ a = b

\* An entry is an i-number, the length of the name and the name.
WithEntry(dir, name, n) ==
  [dir EXCEPT !.size = @ + 8 + strlen(name), !.entries = Append(@, [name |-> name, node |-> n])]

\* The first entry of that name.
findNode(d, name) ==
  LET hits == {i \in DOMAIN nodes[d].entries : streq(nodes[d].entries[i].name, name)}
  IN  IF nodes[d].kind = "file" \/ hits = {} THEN null ELSE nodes[d].entries[Min(hits)].node

\* writeAll of values that are width bytes each.
Written(f, offset, values, width) ==
  [f EXCEPT !.size = Max({@, offset + width * Len(values)}),
            !.items = [o \in {offset + width * (k - 1) : k \in DOMAIN values} |->
                         values[(o - offset) \div width + 1]] @@ @]

\* Mutant: nobody looks at the size.
ReadOn(f, offset, width, n) ==
  [k \in 1..n |->
     LET o == offset + width * (k - 1) IN IF o \in DOMAIN f.items THEN f.items[o] ELSE 0]

\* readAll of n values of that width: what was never written is 0, and nothing
\* is behind the end.
Read(f, offset, width, n) ==
  LET left == IF f.size > offset THEN (f.size - offset) \div width ELSE 0
  IN  [k \in 1..Min({n, left}) |->
         LET o == offset + width * (k - 1) IN IF o \in DOMAIN f.items THEN f.items[o] ELSE 0]

\* dump() of a node, and of what is below it.
RECURSIVE dump(_, _)
dump(n, name) ==
  IF nodes[n].kind = "file" THEN << <<"file", name, nodes[n].links, nodes[n].size>> >>
  ELSE << <<"directory", name, nodes[n].links>> >>
       \o FlattenSeq([i \in DOMAIN nodes[n].entries |->
                        dump(nodes[n].entries[i].node, nodes[n].entries[i].name)])

-----------------------------------------------------------------------------
(* The instructions *)

Init(tests) ==
  /\ test \in tests
  /\ at = 1
  /\ nodes = <<New("directory")>>
  /\ held = [v \in {"root"} |-> Root]
  /\ got = <<>>
  /\ printed = <<>>

I == test.text[at]
Does(what) == at \in DOMAIN test.text /\ I[1] = what /\ at' = at + 1 /\ UNCHANGED test
Hold(v, n) == held' = [w \in DOMAIN held \cup {v} |-> IF w = v THEN n ELSE held[w]]
Say(lines) == printed' = printed \o lines

\* newFile and newDirectory; which free number the node gets does not show.
NewNode ==
  /\ Does("new")
  /\ nodes' = Append([nodes EXCEPT ![held[I[3]]] = WithEntry(@, I[4], Len(nodes) + 1)], New(I[5]))
  /\ Hold(I[2], Len(nodes) + 1)
  /\ UNCHANGED <<got, printed>>

LinkNode ==
  LET d == held[I[2]]
      f == held[I[4]]
  IN
  /\ Does("link")
  /\ nodes' = [nodes EXCEPT ![d] = WithEntry(@, I[3], f), ![f].links = @ + 1]
  /\ UNCHANGED <<held, got, printed>>

WriteAll ==
  /\ Does("write")
  /\ nodes' = [nodes EXCEPT ![held[I[2]]] = Written(@, I[3], I[4], I[5])]
  /\ UNCHANGED <<held, got, printed>>

ReadAll ==
  /\ Does("read")
  /\ got' = Read(nodes[held[I[2]]], I[3], I[4], I[5])
  /\ UNCHANGED <<nodes, held, printed>>

\* Nothing is kept in memory but the root's number.
Mount ==
  /\ Does("mount")
  /\ held' = [held EXCEPT !["root"] = Root]
  /\ UNCHANGED <<nodes, got, printed>>

Kind(name, n) == <<name, "is a", nodes[n].kind>>
check(name, n) ==
  IF n = null THEN Missing(name)
  ELSE <<Kind(name, n), <<name, "bytes", nodes[n].size>>, <<name, "links", nodes[n].links>> >>
Check ==
  /\ Does("check")
  /\ Say(check(I[2], held[I[3]]))
  /\ UNCHANGED <<nodes, held, got>>

\* find() of t0 and t1, that of qxwang, which prints less, and findNode alone.
Find ==
  /\ Does("find") \/ Does("seek") \/ Does("look")
  /\ LET n == findNode(held[I[3]], I[4]) IN
       /\ Hold(I[2], n)
       /\ Say(CASE I[1] = "find" -> check(I[4], n)
                [] I[1] = "seek" -> IF n = null THEN Missing(I[4]) ELSE <<Kind(I[4], n)>>
                [] I[1] = "look" -> <<>>)
  /\ UNCHANGED <<nodes, got>>

Dump ==
  /\ Does("dump")
  /\ Say(dump(held["root"], "root"))
  /\ UNCHANGED <<nodes, held, got>>

\* The first value that is not 0, or not the one before and 1, is printed.
Compare ==
  LET wrong == {i \in I[2]..I[3] : got[i + 1] # IF I[4] = 0 THEN 0 ELSE i - I[4]}
  IN
  /\ Does("compare")
  /\ Say(IF wrong = {} THEN <<>> ELSE << <<"data", Min(wrong), got[Min(wrong) + 1]>> >>)
  /\ UNCHANGED <<nodes, held, got>>
Expect ==
  /\ Does("expect")
  /\ Say(IF got = I[2] THEN <<>> ELSE << <<"val", got>> >>)
  /\ UNCHANGED <<nodes, held, got>>

PrintLine ==
  /\ \/ Does("print") /\ Say(<<I[2]>>)
     \/ Does("print got") /\ Say(<<got>>)
     \/ Does("print count") /\ Say(<< <<"read", IF test = qxwang THEN Len(got) ELSE 4 * Len(got)>> >>)
  /\ UNCHANGED <<nodes, held, got>>

Next == NewNode \/ LinkNode \/ WriteAll \/ ReadAll \/ Mount \/ Check \/ Find \/ Dump
        \/ Compare \/ Expect \/ PrintLine

-----------------------------------------------------------------------------
(* Properties *)

\* A test prints what its .ok file says, or the beginning of it.
PrintsWhatIsExpected == IsPrefix(printed, test.ok)

\* It has got to the end of it.
HasEnded == printed = test.ok
=============================================================================
