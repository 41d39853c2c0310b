----------------------------- MODULE MCCommands -----------------------------
(***************************************************************************)
(* Small images and calls for Commands.                                    *)
(***************************************************************************)
EXTENDS CommandPromises

Node(mode, kind, nid, size) ==
    [mode |-> mode, kind |-> kind, nid |-> nid, size |-> size, inline |-> TRUE, layout |-> "inline",
     raw_block |-> 10 * nid, segments |-> <<>>, extents |-> <<>>]

Symlink(nid, inline) == [Node("symlink", "memory", nid, 3) EXCEPT !.inline = inline]
Device(nid) == Node("special", "memory", nid, 0)
InDirectory == [Node("directory", "memory", 9, 0) EXCEPT !.raw_block = 0]

-----------------------------------------------------------------------------
(* EROFS: a tiling of a file by segments, cut at the given places; every   *)
(* other segment is stored plain.                                          *)
Plain(nid, size) == [Node("regular", "file", nid, size) EXCEPT !.layout = "plain"]
Inline(nid, size) == Node("regular", "file", nid, size)

Clustered(nid, cuts, firstKind) ==
    [Node("regular", "file", nid, cuts[Len(cuts)]) EXCEPT
        !.layout = "compressed",
        !.segments = [x \in DOMAIN cuts |->
            [start |-> IF x = 1 THEN 0 ELSE cuts[x - 1], end |-> cuts[x],
             physical |-> 10 * nid + x,
             kind |-> IF (x % 2 = 1) = (firstKind = "head") THEN "head" ELSE "plain"]]]

Cuts == {<<1, 4, 7>>, <<2, 4, 6>>, <<3, 7>>, <<7>>}

Entry(name, dir, to) == [name |-> name, dir |-> dir, to |-> to]
DotEntries(up) == <<Entry(<<".">>, TRUE, up), Entry(<<".", ".">>, TRUE, 1)>>
Dirs(to, others) ==
    <<DotEntries(1) \o <<Entry(<<"a">>, FALSE, 1), Entry(<<"b">>, TRUE, 2), Entry(<<"b", "a">>, TRUE, 3)>> \o others,
      DotEntries(2) \o <<Entry(<<"a">>, FALSE, to), Entry(<<"a", "b", "a">>, TRUE, 4)>>,
      DotEntries(3),
      DotEntries(4) \o <<Entry(<<"a", "a", "b">>, FALSE, 2), Entry(<<"b", "*">>, FALSE, 3)>>>>

Special(to) == <<Entry(<<"c">>, FALSE, to)>>

(* Hard links, but never two in a row to a file of several segments.  *)
CompressedImages ==
    {[fs |-> "erofs", dirs |-> Dirs(3, Special(10)),
      nodes |-> <<Clustered(1, c, k), Clustered(2, <<5>>, "head"), Clustered(2, <<5>>, "head"),
                  InDirectory, Clustered(1, c, k), Plain(3, 5), Inline(4, 3), Symlink(5, TRUE),
                  Symlink(6, FALSE), Device(7)>>] : c \in Cuts, k \in {"head", "plain"}}

PlainImages == {[fs |-> "erofs", dirs |-> Dirs(3, <<>>), nodes |-> <<Plain(1, 6), Plain(3, 0), Inline(4, 3)>>]}

(* Indexes that begin late, or have no head at all.  *)
MalformedImages ==
    {[fs |-> "erofs", dirs |-> Dirs(2, <<>>),
      nodes |-> <<[Clustered(1, c, "head") EXCEPT !.segments = Tail(@)], Clustered(2, <<5>>, "head"),
                  InDirectory>>] : c \in Cuts}

LinkedImages ==
    {[fs |-> "erofs", dirs |-> Dirs(1, <<>>), nodes |-> <<Clustered(1, c, "head"), Clustered(1, c, "head")>>]
        : c \in Cuts}

-----------------------------------------------------------------------------
(* ext4: runs of blocks; the blocks of a file lie in no order.  *)
Run(logical, length, unwritten) ==
    [logical |-> logical, length |-> length, physical |-> 40 - 5 * logical, unwritten |-> unwritten]

Mapped(nid, size, extents) == [Node("regular", "file", nid, size) EXCEPT
    !.extents = [x \in DOMAIN extents |-> [extents[x] EXCEPT !.physical = @ + 50 * nid]]]

Whole == <<Run(0, 2, FALSE), Run(2, 2, FALSE)>>
Holes == <<Run(1, 1, FALSE), Run(3, 1, FALSE)>>
Preallocated == <<Run(0, 1, FALSE), Run(1, 1, TRUE), Run(2, 4, FALSE)>>
GapThenUnwritten == <<Run(0, 1, FALSE), Run(2, 1, TRUE), Run(3, 1, FALSE)>>
BeyondTheEnd == <<Run(0, 1, FALSE), Run(5, 1, TRUE)>>

Ext4Image(extents) ==
    [fs |-> "ext4", dirs |-> Dirs(2, Special(5)),
     nodes |-> <<Mapped(1, 7, extents), Mapped(2, 8, Whole), Symlink(3, TRUE), InDirectory,
                 Device(5), Mapped(6, 0, <<>>), Mapped(1, 7, extents)>>]

Ext4Images == {Ext4Image(e) : e \in {Whole, Holes, Preallocated}}
GappedImages == {Ext4Image(e) : e \in {GapThenUnwritten, BeyondTheEnd}}

(* A directory that lies in itself, beside one that does not.  *)
Cycle ==
    <<DotEntries(1) \o <<Entry(<<"a">>, FALSE, 1), Entry(<<"b">>, TRUE, 2)>>,
      DotEntries(2) \o <<Entry(<<"a">>, TRUE, 3), Entry(<<"b">>, TRUE, 2)>>,
      DotEntries(3) \o <<Entry(<<"a">>, FALSE, 1)>>>>
CyclicImages ==
    {[fs |-> "erofs", dirs |-> Cycle, nodes |-> <<Plain(1, 3)>>],
     [fs |-> "ext4", dirs |-> Cycle, nodes |-> <<Mapped(1, 3, Whole)>>]}

SoundImages == CompressedImages \cup MalformedImages \cup PlainImages \cup Ext4Images \cup GappedImages
AllImages == SoundImages \cup CyclicImages

(* The images the theorems about conversions and about --cat speak of,     *)
(* malformed ones among them, and one they leave out.                      *)
ASSUME SomeImagesAreWellFormed ==
    /\ \A i \in AllImages : WellFormed(i) /\ Readable(i)
    /\ \E i \in LinkedImages : ~WellFormed(i)
    /\ \A i \in SoundImages : Walkable(i)
    /\ \A i \in CyclicImages : ~Walkable(i)

-----------------------------------------------------------------------------
(* The forms of the arguments, and what each call means.  *)
PathArg(path) == [is |-> "text", path |-> path, name |-> <<>>]
HostPath(path) == [is |-> "file", path |-> path, name |-> <<>>]
GlobArg(name) == [is |-> "text", path |-> <<>>, name |-> name]
HostName(name) == [is |-> "file", path |-> <<>>, name |-> name]
Paths == {<<>>, <<<<"a">>>>, <<<<"b">>>>, <<<<"b">>, <<"a">>>>, <<<<"b">>, <<"b">>>>, <<<<"c">>>>}
Globs == {<<"*">>, <<"a">>, <<"*", "a">>, <<"a", "*", "b">>, <<"?", "*", "b", "*">>, <<"*", "a", "b">>}

ReadCall(operations, positional, path, pattern) ==
    [operations |-> operations, inline |-> None, also |-> {}, stdin |-> FALSE,
     positional |-> positional, image |-> ImageArg, path |-> path, pattern |-> pattern]
Piped(c) == [c EXCEPT !.stdin = TRUE, !.image = StdinArg]
Dashed(c) == [c EXCEPT !.image = StdinArg]
Inlined(c) == [c EXCEPT !.inline = GlobArg(c.pattern)]
With(c, what) == [c EXCEPT !.also = what]
Find == <<"find">>

ListAndCatCalls ==
    UNION {{ReadCall(o, <<ImageArg, PathArg(p)>>, p, None), ReadCall(o, <<PathArg(p), ImageArg>>, p, None),
            Piped(ReadCall(o, <<PathArg(p)>>, p, None)), Dashed(ReadCall(o, <<StdinArg, PathArg(p)>>, p, None))}
              : o \in {<<"list">>, <<"cat">>}, p \in Paths}

FindCalls ==
    UNION {{ReadCall(Find, <<ImageArg, PathArg(p)>>, p, None),
            ReadCall(Find, <<ImageArg, HostPath(p)>>, p, None),
            Dashed(ReadCall(Find, <<StdinArg, PathArg(p)>>, p, None))} : p \in Paths}
    \cup {ReadCall(Find, <<ImageArg>>, <<>>, None), Piped(ReadCall(Find, <<>>, <<>>, None))}

PatternCalls(g) ==
    UNION {{ReadCall(Find, <<GlobArg(g), ImageArg, PathArg(p)>>, p, g),
            Piped(ReadCall(Find, <<GlobArg(g), PathArg(p)>>, p, g)),
            Inlined(ReadCall(Find, <<ImageArg, PathArg(p)>>, p, g)),
            Inlined(ReadCall(Find, <<PathArg(p), ImageArg>>, p, g)),
            Inlined(Piped(ReadCall(Find, <<PathArg(p)>>, p, g)))} : p \in Paths}
    \cup {Inlined(ReadCall(Find, <<ImageArg>>, <<>>, g)), Inlined(Piped(ReadCall(Find, <<>>, <<>>, g))),
          ReadCall(Find, <<GlobArg(g), ImageArg>>, <<>>, g)}

(* Those that are refused: a pattern that the host has as a file, "-" with *)
(* a pattern.                                                              *)
RefusedCalls(g) ==
    {ReadCall(Find, <<HostName(g), ImageArg, PathArg(<<>>)>>, <<>>, g),
     Dashed(ReadCall(Find, <<GlobArg(g), StdinArg, PathArg(<<>>)>>, <<>>, g)),
     Inlined(Dashed(ReadCall(Find, <<StdinArg, HostPath(<<>>)>>, <<>>, g)))}

DocumentedCalls == FindCalls \cup UNION {PatternCalls(g) \cup RefusedCalls(g) : g \in Globs}

OtherCalls ==
    LET some == ReadCall(<<>>, <<ImageArg>>, <<>>, None)
    IN  {some, With(some, {"info"}), With(some, {"metadata"}), ReadCall(<<>>, <<>>, <<>>, None),
         [some EXCEPT !.operations = <<"list", "find">>], [some EXCEPT !.operations = <<"find", "cat">>],
         [some EXCEPT !.operations = Find, !.inline = GlobArg(<<>>)],
         With(ReadCall(<<"cat">>, <<ImageArg, PathArg(<<<<"a">>>>)>>, <<<<"a">>>>, None), {"metadata"})}

SmallReadCalls == ListAndCatCalls \cup DocumentedCalls \cup OtherCalls

ASSUME OrdersAreDocumented == \A c \in DocumentedCalls : Documented(c)

Option(opt, value) == [opt |-> opt, value |-> value]
Options == {Option("sparse", "yes"), Option("compact", "yes"), Option("compress", "deflate"),
            Option("compress", "none"), Option("shared", "yes"), Option("shared", "no"),
            Option("reserve", "64M")}
Actions == {Option(a, "") : a \in {"add", "copy", "remove", "set_mode", "set_context"}}
Metadata == {Option("meta", "mode"), Option("meta", "context")}
Conversions == {Option("convert", "erofs"), Option("convert", "ext4")}

SmallWriteCalls ==
    {[stdin |-> FALSE, args |-> a] : a \in TupleOf(Actions \cup Metadata, 3)}
    \cup {[stdin |-> TRUE, args |-> <<o, a, b>>] :
              o \in Options, a \in Actions \cup Options, b \in Actions}
    \cup {[stdin |-> TRUE, args |-> <<c, o>>] :
              c \in Conversions, o \in Options \cup Actions \cup Metadata}
    \cup {[stdin |-> FALSE, args |-> <<o>>] : o \in Conversions \cup Options \cup Metadata}

Conversion == {[stdin |-> FALSE, args |-> <<Option("convert", "ext4")>>]}
Cat == {ReadCall(<<"cat">>, <<ImageArg, PathArg(<<<<"a">>>>)>>, <<<<"a">>>>, None)}
NoCalls == {}
=============================================================================
