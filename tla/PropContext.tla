----------------------------- MODULE PropContext -----------------------------
(***************************************************************************)
(* PropertyContext (crates/prop-rs/src/property_context.rs): which area a  *)
(* property lives in.  The rules come from the text files of a system root *)
(* (Split), from the trie of property_info (Serialized), or there are none *)
(* because one file holds all (PreSplit).                                  *)
(*                                                                         *)
(* A name is the sequence of its segments, a segment a sequence of bytes,  *)
(* so that splitting at a dot is taking a segment; a prefix is written the *)
(* same way, and one that ends in a dot has an empty last segment.         *)
(* Contexts are numbers, in the order of their names.                      *)
(***************************************************************************)
EXTENDS Integers, SequencesExt

CONSTANTS
  Keys,   \* the names of the properties
  DEFAULT_CONTEXT, PRE_SPLIT_CONTEXT

\* The files of a root.  A rule is a line of a text, or an entry of property_info; its
\* prefix is a word and so not empty.
Texts   == {"legacy", "plat", "vendor", "nonplat", "plat2", "vendor2", "nonplat2"}
Kinds   == {"missing", "bad", "ok"}
Prefix  == Seq(Seq(Nat)) \ {<<>>, <<<<>>>>}
CNames  == {n \in Prefix : \A i \in DOMAIN n : \A j \in DOMAIN n[i] : n[i][j] # 0}

\* What init has put into property_info: C strings, no two rules of a kind for one prefix.
Serialized(rules) ==
  /\ IsFiniteSet(rules)
  /\ \A r \in rules : r.prefix \in CNames
  /\ \A r, s \in rules : r.prefix = s.prefix /\ r.exact = s.exact => r = s

AnyRule == [prefix : Prefix, ctx : Nat, exact : BOOLEAN]
Root ==
  {x \in [props_dir : {"missing", "dir", "file"},
           info : [is : Kinds, rules : SUBSET AnyRule],
           text : [Texts -> [is : Kinds, rules : Seq(AnyRule)]]] : Serialized(x.info.rules)}

ASSUME ContextsAssumption == {DEFAULT_CONTEXT, PRE_SPLIT_CONTEXT} \subseteq Nat
ASSUME NamesAssumption == Keys \subseteq CNames

VARIABLES
  root,      \* the device, which nothing here changes
  loading,   \* how far PropertyContext::new has come
  storage    \* the rules it has loaded

contextVars == <<root, loading, storage>>

Star    == <<<<42>>>>   \* the prefix "*"
Ctl     == <<99>>       \* the first segment of ctl.*
Persist == <<112>>      \* the first segment of persist.*

NoIndex == -1           \* ~0u, no context

-------------------------------------------------------------------------------
(***************************************************************************)
(* Text.                                                                   *)
(***************************************************************************)
\* name.starts_with(prefix)
StartsWith(name, prefix) ==
  /\ Len(prefix) <= Len(name)
  /\ IsPrefix(Front(prefix), name) /\ IsPrefix(Last(prefix), name[Len(prefix)])

\* A name that begins with the segment and a dot.
Under(segment, name) == Len(name) > 1 /\ name[1] = segment

\* The bytes of a text, the dots among them.
TextLen(name) ==
  LET upTo[i \in 0..Len(name)] == IF i = 0 THEN -1 ELSE upTo[i - 1] + 1 + Len(name[i])
  IN  upTo[Len(name)]

\* The members of a set in order, each after those that go before it.
Listed(S, before(_, _)) ==
  [i \in 1..Cardinality(S) |-> CHOOSE x \in S : Cardinality({y \in S : before(y, x)}) = i - 1]

-------------------------------------------------------------------------------
(***************************************************************************)
(* SplitContext.  A rule is a line of a file.                              *)
(***************************************************************************)
\* The files that load reads for a root, and whether an error of each ends it.
Need(f) == [file |-> f, must |-> TRUE]
Try(f)  == [file |-> f, must |-> FALSE]
Exists(f) == root.text[f].is # "missing"

VendorOr(vendor, nonplat) == Try(IF Exists(vendor) THEN vendor ELSE nonplat)

FilesToLoad ==
  IF Exists("legacy") THEN <<Need("legacy")>>
  ELSE IF Exists("plat")  THEN <<Need("plat"), VendorOr("vendor", "nonplat")>>
  ELSE IF Exists("plat2") THEN <<Need("plat2"), VendorOr("vendor2", "nonplat2")>>
  ELSE <<>>

\* The first of some entries, or the place behind the last.
Position(prefixes, entries) == IF entries = {} THEN Len(prefixes) + 1 ELSE Min(entries)

\* The entry goes before the first that is shorter, or is "*".
InsertBeforeEqual(prefixes, rule) ==   \* faulty variant: also before the first as long
  InsertAt(prefixes, Position(prefixes, {i \in DOMAIN prefixes :
    prefixes[i].prefix = Star \/ TextLen(prefixes[i].prefix) <= TextLen(rule.prefix)}), rule)
InsertByLengthAlone(prefixes, rule) ==   \* faulty variant
  InsertAt(prefixes, Position(prefixes, {i \in DOMAIN prefixes :
    TextLen(prefixes[i].prefix) < TextLen(rule.prefix)}), rule)
Insert(prefixes, rule) ==
  InsertAt(prefixes, Position(prefixes, {i \in DOMAIN prefixes :
    prefixes[i].prefix = Star \/ TextLen(prefixes[i].prefix) < TextLen(rule.prefix)}), rule)

SplitLookup(prefixes, name) ==
  LET i == SelectInSeq(prefixes, LAMBDA e : e.prefix = Star \/ StartsWith(name, e.prefix))
  IN  IF i = 0 THEN DEFAULT_CONTEXT ELSE prefixes[i].ctx

-------------------------------------------------------------------------------
(***************************************************************************)
(* SerializedContext.  The trie of property_info, which init has built: a  *)
(* node for each sequence of segments that a rule goes through, with the   *)
(* context of the prefix that ends there in a dot, the last pieces of the  *)
(* other prefixes, longest first, those of exact names, and its children   *)
(* in order.                                                               *)
(***************************************************************************)
\* strncmp_piece: the sign of the first difference within the piece; a longer child is
\* greater.
ByteOr0(s, i) == IF i <= Len(s) THEN s[i] ELSE 0
strncmp_piece(child, piece) ==
  LET diff == {i \in DOMAIN piece : ByteOr0(child, i) # piece[i]}
      at   == CHOOSE i \in diff : \A j \in diff : i <= j
  IN  IF diff # {} THEN ByteOr0(child, at) - piece[at]
      ELSE IF Len(child) > Len(piece) THEN 1 ELSE 0

LessPiece(x, y) == strncmp_piece(x, y) < 0
LongerPiece(x, y) ==
  \/ Len(x.piece) > Len(y.piece)
  \/ Len(x.piece) = Len(y.piece) /\ LessPiece(x.piece, y.piece)

NodeOf(rules, path) ==
  LET here  == {r \in rules : Front(r.prefix) = path}
      own   == {r \in here : ~r.exact /\ Last(r.prefix) = <<>>}
      Entry(r) == [piece |-> Last(r.prefix), ctx |-> r.ctx]
      paths == {p \in {Front(r.prefix) : r \in rules} : Len(p) > Len(path)}
  IN  [ctx      |-> IF own # {} THEN (CHOOSE r \in own : TRUE).ctx
                    ELSE IF path = <<>> THEN DEFAULT_CONTEXT ELSE NoIndex,
       prefixes |-> Listed({Entry(r) : r \in {x \in here \ own : ~x.exact}}, LongerPiece),
       exact    |-> {Entry(r) : r \in {x \in here : x.exact}},
       children |-> Listed({p[Len(path) + 1] : p \in {x \in paths : IsPrefix(path, x)}},
                           LessPiece)]

TrieOf(rules) ==
  LET through == UNION {{SubSeq(r.prefix, 1, i) : i \in 0..(Len(r.prefix) - 1)} : r \in rules}
  IN  [path \in through \cup {<<>>} |-> NodeOf(rules, path)]

\* find_child: where the binary search ends, 0 for None.
find_child_up_to(children, piece, last) ==
  LET search[lo \in 1..(last + 1)] ==
        [hi \in 0..last |->
          LET mid == (lo + hi) \div 2
              cmp == strncmp_piece(children[mid], piece)
          IN  IF lo > hi THEN 0
              ELSE IF cmp = 0 THEN mid
              ELSE IF cmp < 0 THEN search[mid + 1][hi] ELSE search[lo][mid - 1]]
  IN  search[1][last]
find_child_but_the_last(children, piece) ==   \* faulty variant
  find_child_up_to(children, piece, IF children = <<>> THEN 0 ELSE Len(children) - 1)
find_child(children, piece) == find_child_up_to(children, piece, Len(children))

\* check_prefix_match: the context of the longest prefix of the rest, or the one so far.
check_prefix_match(node, rest, ctx) ==
  LET i == SelectInSeq(node.prefixes, LAMBDA e : IsPrefix(e.piece, rest[1]))
  IN  IF i = 0 THEN ctx ELSE node.prefixes[i].ctx

\* One turn of the loop of get_context_index, which goes on with the child for the next
\* segment of the name.
Turn(trie, x) ==
  LET node  == trie[x.path]
      ctx   == check_prefix_match(node, x.rest, IF node.ctx # NoIndex THEN node.ctx ELSE x.ctx)
      child == find_child(node.children, x.rest[1])
  IN  IF x.done THEN x
      ELSE IF Len(x.rest) = 1 \/ child = 0
      THEN [path |-> x.path, rest |-> x.rest, ctx |-> ctx, done |-> TRUE]
      ELSE [path |-> Append(x.path, node.children[child]), rest |-> Tail(x.rest),
            ctx |-> ctx, done |-> FALSE]

Walk(trie, name) ==
  LET after[i \in 0..Len(name)] ==
        IF i = 0 THEN [path |-> <<>>, rest |-> name, ctx |-> NoIndex, done |-> FALSE]
        ELSE Turn(trie, after[i - 1])
  IN  after[Len(name)]

\* Then the exact names of the last node, and its prefixes again.
get_context_index(trie, name) ==
  LET x     == Walk(trie, name)
      node  == trie[x.path]
      exact == {e \in node.exact : <<e.piece>> = x.rest}
  IN  IF exact # {} THEN (CHOOSE e \in exact : TRUE).ctx
      ELSE check_prefix_match(node, x.rest, x.ctx)

SerializedLookup(trie, name) ==
  LET ctx == get_context_index(trie, name) IN IF ctx = NoIndex THEN DEFAULT_CONTEXT ELSE ctx

-------------------------------------------------------------------------------
(***************************************************************************)
(* PropertyContext.                                                        *)
(***************************************************************************)
NoStorage  == [type |-> "none", prefixes |-> <<>>, trie |-> <<>>]
NotLoading == [pc |-> "start", todo |-> <<>>, lines |-> <<>>]

Ready  == storage.type # "none"
Failed == loading.pc = "failed"

Route(name) ==
  CASE storage.type = "Serialized" -> SerializedLookup(storage.trie, name)
    [] storage.type = "Split"      -> SplitLookup(storage.prefixes, name)
    [] OTHER                       -> PRE_SPLIT_CONTEXT

\* The context table of property_info holds the default, too.
list_all_contexts ==
  CASE storage.type = "Serialized" -> {r.ctx : r \in root.info.rules} \cup {DEFAULT_CONTEXT}
    [] storage.type = "Split"      -> {storage.prefixes[i].ctx : i \in DOMAIN storage.prefixes}
    [] OTHER                       -> {PRE_SPLIT_CONTEXT}

\* The file of a context: a PreSplit directory is one file.
context_file_path(ctx) == IF storage.type = "PreSplit" THEN PRE_SPLIT_CONTEXT ELSE ctx

\* The areas in the order in which they are visited.
Sorted(S) == Listed(S, <)
prop_area_files == Sorted(list_all_contexts)

-------------------------------------------------------------------------------
(***************************************************************************)
(* new and load, file by file and line by line.                            *)
(***************************************************************************)
Fail == loading' = [NotLoading EXCEPT !.pc = "failed"] /\ UNCHANGED <<root, storage>>

Loaded(type, prefixes, trie) ==
  /\ storage' = [type |-> type, prefixes |-> prefixes, trie |-> trie]
  /\ loading' = [NotLoading EXCEPT !.pc = "done"]
  /\ UNCHANGED root

DetectFailure ==
  /\ loading.pc = "start"
  /\ \/ root.props_dir = "missing"
     \/ root.props_dir = "dir" /\ root.info.is = "bad"
     \/ root.props_dir = "dir" /\ root.info.is = "missing" /\ FilesToLoad = <<>>
  /\ Fail

DetectPreSplit ==
  /\ loading.pc = "start" /\ root.props_dir = "file"
  /\ Loaded("PreSplit", <<>>, <<>>)

DetectSerialized ==
  /\ loading.pc = "start" /\ root.props_dir = "dir" /\ root.info.is = "ok"
  /\ Loaded("Serialized", <<>>, TrieOf(root.info.rules))

DetectSplit ==
  /\ loading.pc = "start" /\ root.props_dir = "dir" /\ root.info.is = "missing"
  /\ FilesToLoad # <<>>
  /\ loading' = [NotLoading EXCEPT !.pc = "files", !.todo = FilesToLoad]
  /\ UNCHANGED <<root, storage>>

\* read_to_string: a file that must be read ends the load when it cannot be.
ReadFile ==
  /\ loading.pc = "files" /\ loading.lines = <<>> /\ loading.todo # <<>>
  /\ LET f == Head(loading.todo) IN
     IF root.text[f.file].is = "ok"
     THEN /\ loading' = [loading EXCEPT !.todo = Tail(@), !.lines = root.text[f.file].rules]
          /\ UNCHANGED <<root, storage>>
     ELSE IF f.must THEN Fail
     ELSE loading' = [loading EXCEPT !.todo = Tail(@)] /\ UNCHANGED <<root, storage>>

InsertLine ==
  /\ loading.pc = "files" /\ loading.lines # <<>>
  /\ LET rule == Head(loading.lines) IN
     storage' = IF Under(Ctl, rule.prefix) THEN storage
                ELSE [storage EXCEPT !.prefixes = Insert(@, rule)]
  /\ loading' = [loading EXCEPT !.lines = Tail(@)]
  /\ UNCHANGED root

EndOfFiles ==
  /\ loading.pc = "files" /\ loading.lines = <<>> /\ loading.todo = <<>>
  /\ Loaded("Split", storage.prefixes, <<>>)

LoadStep ==
  \/ DetectFailure \/ DetectPreSplit \/ DetectSerialized \/ DetectSplit
  \/ ReadFile \/ InsertLine \/ EndOfFiles

ContextInit(device) == root = device /\ loading = NotLoading /\ storage = NoStorage

-------------------------------------------------------------------------------
(***************************************************************************)
(* What the lookups are for: the longest rule that fits.                   *)
(***************************************************************************)
\* The lines of the files that could be read, but those of ctl.*: each is known by the
\* place of its file and its place there.
LinesOf(i) == IF root.text[FilesToLoad[i].file].is = "ok" THEN root.text[FilesToLoad[i].file].rules
              ELSE <<>>
Line(l) == LinesOf(l[1])[l[2]]
Given ==
  {l \in UNION {{i} \X DOMAIN LinesOf(i) : i \in DOMAIN FilesToLoad} : ~Under(Ctl, Line(l).prefix)}

Earlier(l, m) == l[1] < m[1] \/ (l[1] = m[1] /\ l[2] < m[2])
Earliest(S) == CHOOSE l \in S : \A m \in S : m = l \/ Earlier(l, m)
Latest(S)   == CHOOSE l \in S : \A m \in S : m = l \/ Earlier(m, l)

\* Of the rules whose prefix the name has, the longest one; of two as long, the one that
\* was given first; or else the last "*".
SplitReference(name) ==
  LET fits == {l \in Given : Line(l).prefix # Star /\ StartsWith(name, Line(l).prefix)}
      size(l) == TextLen(Line(l).prefix)
      longest == {l \in fits : \A m \in fits : size(m) <= size(l)}
      stars   == {l \in Given : Line(l).prefix = Star}
  IN  IF fits # {} THEN Line(Earliest(longest)).ctx
      ELSE IF stars # {} THEN Line(Latest(stars)).ctx ELSE DEFAULT_CONTEXT

\* The rule for exactly this name, or else the longest prefix of it.
TrieReference(name) ==
  LET rules == root.info.rules
      exact == {r \in rules : r.exact /\ r.prefix = name}
      fits  == {r \in rules : ~r.exact /\ StartsWith(name, r.prefix)}
      best  == {r \in fits : \A o \in fits : TextLen(o.prefix) <= TextLen(r.prefix)}
  IN  IF exact # {} THEN (CHOOSE r \in exact : TRUE).ctx
      ELSE IF fits # {} THEN (CHOOSE r \in best : TRUE).ctx ELSE DEFAULT_CONTEXT

\* At every moment of the load the rules stand longest first and "*" last, so that the
\* first that fits is the longest (load_file).
LongestFirst ==
  LET s == storage.prefixes IN
  \A i, j \in DOMAIN s : i < j =>
    \/ s[j].prefix = Star
    \/ s[i].prefix # Star /\ TextLen(s[i].prefix) >= TextLen(s[j].prefix)

\* However the rules are spread over the files and ordered in them, a name gets the
\* context of the longest rule that fits it (SplitContext::get_context_for_name).
SplitFindsBestRule ==
  storage.type = "Split" => \A name \in Keys : Route(name) = SplitReference(name)

\* The walk through the trie, with what it inherits from the nodes on its way and the
\* prefixes that do not end at a dot, finds what a look at all rules would find
\* (get_context_index).
TrieFindsBestRule ==
  storage.type = "Serialized" => \A name \in Keys : Route(name) = TrieReference(name)
===============================================================================
