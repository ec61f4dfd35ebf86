------------------------------ MODULE MCSysprop ------------------------------
\* The instance of Sysprop that TLC checks.
EXTENDS Sysprop

\* Segments: p stands for persist and c for ctl.
p == <<112>>
c == <<99>>
r == <<114>>
a == <<97>>
ab == <<97, 98>>
b == <<98>>
none == <<>>

MCKeys == {<<p, a>>, <<r, ab>>, <<r, ab, b>>}

Rule(prefix, ctx) == [prefix |-> prefix, ctx |-> ctx, exact |-> FALSE]
Exact(name, ctx)  == [prefix |-> name, ctx |-> ctx, exact |-> TRUE]

NoFile      == [is |-> "missing", rules |-> <<>>]
Unreadable  == [is |-> "bad", rules |-> <<>>]
File(rules) == [is |-> "ok", rules |-> rules]
NoInfo      == [is |-> "missing", rules |-> {}]
NoText == [f \in Texts |-> NoFile]

Split(files) == [props_dir |-> "dir", info |-> NoInfo, text |-> files @@ NoText]
Trie(rules)  == [props_dir |-> "dir", info |-> [is |-> "ok", rules |-> rules], text |-> NoText]
PreSplit     == [props_dir |-> "file", info |-> NoInfo, text |-> NoText]
NoDir        == [PreSplit EXCEPT !.props_dir = "missing"]
BadInfo      == [Trie({}) EXCEPT !.info.is = "bad"]

-------------------------------------------------------------------------------
\* Roots on which names are routed: three lines in every order over two files, files that
\* are missing or cannot be read, and up to three rules of every kind in a trie.
LinePrefixes == {<<r, none>>, <<p>>, <<r, ab>>, <<r, ab, none>>, <<c, a>>, Star}

Layouts == {
  Split("plat" :> File(<<Rule(x, 1), Rule(y, 2)>>) @@ "vendor" :> File(<<Rule(z, 3)>>)) :
    x \in LinePrefixes, y \in LinePrefixes, z \in LinePrefixes}
  \cup {
  Split(("plat2" :> f) @@ ("vendor2" :> g) @@ ("nonplat2" :> h)) :
    f \in {NoFile, Unreadable, File(<<Rule(Star, 1)>>)},
    g \in {NoFile, Unreadable, File(<<Rule(<<r, none>>, 2)>>)},
    h \in {NoFile, File(<<Rule(<<r, none>>, 3)>>)}}
  \cup {
  Split(("legacy" :> f) @@ ("plat" :> File(<<Rule(Star, 2)>>)) @@ ("nonplat" :> g)) :
    f \in {NoFile, File(<<Rule(Star, 1)>>)}, g \in {NoFile, File(<<Rule(Star, 3)>>)}}

TrieRules == {
  Rule(<<p, none>>, 1), Rule(<<r, none>>, 2), Rule(<<r, a>>, 3), Rule(<<r, ab>>, 4),
  Rule(<<r, ab, none>>, 5), Rule(<<r, ab, b>>, 6), Exact(<<r, ab>>, 7), Exact(<<r, ab, b>>, 8),
  Rule(<<c, a>>, 3), Rule(<<p>>, 4)}
Tries == {Trie(S) : S \in {x \in SUBSET TrieRules : Cardinality(x) <= 3}}

NoPfile  == [is |-> "missing", props |-> NoProps]
MCPaths  == {0, 1, 2, 3, 9}   \* there is never an area at 3
Empty    == [i \in {} |-> NoPfile]
RoutingDevices ==
  {[root |-> x, areas |-> Empty, pfile |-> NoPfile, calls |-> 1] :
     x \in Layouts \cup Tries \cup {NoDir, BadInfo}}

-------------------------------------------------------------------------------
\* Devices on which commands work: contexts 0 (the default), 1 of persist.* and 2 of r.*,
\* with areas of all kinds and without them, also one that holds a property that is not routed to it.
Rules == <<Rule(<<p, none>>, 1), Rule(<<r, none>>, 2)>>
WorkRoots == {Split("legacy" :> File(Rules)), Trie(Range(Rules)), PreSplit}

Holding(is, props) == [is |-> is, props |-> props @@ NoProps, holes |-> TRUE]
WorkAreas(k, l) ==
  (2 :> Holding(l, <<r, ab>> :> 1)) @@ (0 :> Holding("ok", <<r, ab>> :> 2))
  @@ IF k = "missing" THEN Empty
     ELSE (1 :> Holding(k, <<p, a>> :> 1)) @@ (9 :> Holding(k, <<p, a>> :> 1))
BadPfile == [is |-> "bad", props |-> NoProps]
OkPfile  == [is |-> "ok", props |-> (<<p, a>> :> 2) @@ NoProps]

\* One command in the face of everything, and two where most of them succeed.
WorkDevices ==
  {[root |-> x, areas |-> WorkAreas(k, l), pfile |-> y, calls |-> 1] :
     x \in WorkRoots, k \in AreaKinds \cup {"missing"}, l \in {"ok", "broken"}, y \in {NoPfile, BadPfile, OkPfile}}
  \cup
  {[root |-> x, areas |-> WorkAreas("ok", l), pfile |-> OkPfile, calls |-> 2] :
     x \in WorkRoots, l \in {"ok", "broken"}}

MCDevices == RoutingDevices \cup WorkDevices
===============================================================================
