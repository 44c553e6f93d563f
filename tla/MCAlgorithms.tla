---------------------------- MODULE MCAlgorithms ----------------------------
(***************************************************************************)
(* The pure algorithms, evaluated on bounded inputs: a step chooses an      *)
(* input, and each invariant compares what an algorithm makes of it with    *)
(* what it should.                                                         *)
(***************************************************************************)
EXTENDS Integers, Sequences, FiniteSets

VARIABLES part, input
vars == <<part, input>>

Strings(S, n) == UNION {[1 .. k -> S] : k \in 0 .. n}
Bytes(n) == [i \in 1 .. n |-> (7 * i) % 128]

-----------------------------------------------------------------------------
(* TLS messages.  Lengths around 128 and 256 take another form in ASN.1.    *)

Tls == INSTANCE TlsMessages
           WITH RandomSize <- 2, BlockSize <- 4, DigestSize <- 2

Hello == Strings({0, 255}, 2) \X Strings({0, 97}, 3)
Key == {Bytes(n) : n \in {1, 2, 126, 130, 256}} \X {Bytes(n) : n \in {1, 127, 128}}
           \X {1, 125, 127, 130, 256}
Payload == Strings({0, 1, 255}, 4) \X {0, 1, 65536} \X {0, 1}
(* Groups of four characters, of which the last may be cut short. *)
Characters == {s \o [i \in 1 .. ((4 - (Len(s) % 4)) % 4) |-> Tls!Pad] :
                  s \in {t \in Strings({0, 37, 63}, 7) : Len(t) % 4 # 1}}
Sizes == (0 .. 3) \X (1 .. 3) \X (1 .. 3)

(* Both hellos, the two kinds of key, an encrypted record and the key block *)
(* are read by TLSHandler's one side as the other side has written them.   *)
TlsMessagesAgree ==
    /\ part = "hello" => Tls!HelloIsRead(input[1], input[2])
    /\ part = "key" => Tls!KeyIsFound(input[1], input[2], input[3])
    /\ part = "payload" => /\ Tls!PaddingComesOff(input[1], input[2], input[3])
                           /\ Tls!RecordsAgree(input[1], input[2])
    /\ part = "characters" => Tls!BitsStay(input)
    /\ part = "sizes" => Tls!KeysAreDisjoint(input[1], input[2], input[3])

-----------------------------------------------------------------------------
(* Integers in units of two bits, so that a unit is often full.            *)

Big == INSTANCE BigIntegers
           WITH UnitBits <- 2, ByteBits <- 1, KaratsubaCount <- 4, Window <- 3

(* Numbers of four units are the least whose halves Karatsuba multiplies.   *)
Pairs == (0 .. 31) \X (0 .. 63) \cup {1023, 4095, 2774} \X (0 .. 90)
             \cup {64, 85, 91, 129, 150, 198, 201, 228, 255} \X (1 .. 255)
Arrays == {<<s, x>> : s \in Strings({0, 1}, 5), x \in {0, 1, 7, 16, 255, 256, 1000}}
Powers == (1 .. 3) \X (0 .. 16) \X {5, 7, 16}

(* MrBigInt's results are those of arithmetic, and where a lost carry or a *)
(* false borrow makes a sum or a difference wrong is known exactly.        *)
NumbersAgree ==
    /\ part = "pair" => Big!NumbersAre(input[1], input[2])
    /\ part = "array" => Big!BytesAre(input[1], input[2])
    /\ part = "power" => Big!PowersAre(input[1], input[2], input[3])

-----------------------------------------------------------------------------
(* Texts. *)

Json == INSTANCE JsonTexts

(* Values in at most three layers, over leaves that need every escape.      *)
Letters == {"a", "\"", "\\", "n"}
Words == Strings(Letters, 2) \cup {<<"\n">>, <<Json!Backspace>>, <<"\f", "\r">>}
Leaves == {<<"Integer", n>> : n \in {0, 7, 10, -25, 300}} \cup {<<"Null">>}
              \cup {<<"Bool", b>> : b \in BOOLEAN} \cup {<<"String", w>> : w \in Words}
FewLeaves == {<<"Null">>, <<"Integer", 12>>, <<"String", <<"}", ",">>>>}
Around(S, names) == {<<"Array", s>> : s \in Strings(S, 2)}
                 \cup {<<"Aggregate", f>> : f \in UNION {[N -> S] : N \in SUBSET names}}
JsonValues == Leaves \cup Around(Leaves, {<<>>, <<"k", "1">>})
                  \cup Around(Around(FewLeaves, {<<"a">>}), {<<"b">>, <<"c">>})
Raw == <<114, 97, 119>>
UbLeaves == {<<"Integer", n>> : n \in {0, 255, 256, 65536}}
              \cup {<<"Null">>, <<"Bool", TRUE>>}
              \cup {<<"String", w>> : w \in Strings({0, 93, 36}, 2)}
UbValues == UbLeaves \cup Around(UbLeaves, {<<>>, Raw})
                \cup Around(Around({<<"Null">>, <<"String", <<0>>>>}, {Raw}), {<<97>>, Raw})

(* Rules of up to two parts, some ranged, over two literals and a name.     *)
Bnf == INSTANCE Grammars
           WITH Literals <- {"'a'", "'b'"}, Numbers <- {}, Names <- {"S", "T"}

Terms == {<<"Literal", "'a'">>, <<"Literal", "'b'">>, <<"Rule", "T">>}
Compound(S) == {<<k, s>> : k \in {"Or", "And"}, s \in [1 .. 2 -> S]}
Ranged(S) == {<<"Range", r, m[1], m[2]>> :
                  r \in S, m \in {<<0, 1>>, <<0, -1>>, <<1, -1>>}}
Rules == Terms \cup Ranged(Terms) \cup Compound(Terms \cup Ranged(Terms) \cup Compound(Terms))
             \cup Ranged(Compound(Terms))
RulePairs == {[S |-> r, T |-> t] : r \in Rules, t \in {<<"Literal", "'b'">>,
                  <<"And", <<<<"Literal", "'b'">>, <<"Literal", "'a'">>>>>>}}
Sentences == Strings({"'a'", "'b'"}, 3)
GrammarIsRead(rules) ==
    /\ Bnf!RulesAreRead(<<"S", "T">>, rules)
    /\ \A s \in Sentences : Bnf!WordIsRead(rules, <<"Rule", "S">>, s)

(* Definitions for the parser generator: any two of some items, and three  *)
(* structs that may be made of each other.                                 *)
Gen == INSTANCE Grammars
           WITH Literals <- {"'a'", "'b'"}, Numbers <- {"1"},
                Names <- {"A", "B", "C", "x", "y", "1", "def", "term", "struct", "List", "Int", "String"}

Member(kind, type, name, default) == [type |-> <<kind, type>>, name |-> name, default |-> default]
SomeMembers == {Member("Struct", "Int", "x", <<"1">>), Member("Raw", <<"y", "1">>, "y", <<>>),
                Member("List", "A", "y", <<>>), Member("Struct", "String", "y", <<"x">>)}
StructItem(name, parent, members) ==
    <<"struct", [name |-> name, parent |-> parent, members |-> members]>>
Component(rule, member, times) == [rule |-> rule, member |-> member, times |-> times]
SomeRules == {<<>>, <<<<Component("A", "", <<1, 1>>), Component("x", "", <<0, -1>>)>>>>,
              <<<<Component("x", "y", <<0, 1>>)>>,
                <<Component("B", "", <<1, -1>>), Component("A", "x", <<1, 1>>)>>>>}
Items == {<<"term", n, "'a'">> : n \in {"A", "x"}} \cup {<<"def", "A", "B">>}
             \cup {<<"rules", n, r>> : n \in {"A", "B"}, r \in SomeRules}
             \cup {StructItem("A", p, <<>>) : p \in {"", "B"}}
             \cup {StructItem("B", "", m) : m \in Strings(SomeMembers, 2)}
Made == {Member(k, n, "x", <<>>) : k \in {"List", "Struct"}, n \in {"A", "B", "C"}}
            \cup {Member("Struct", "Int", "y", d) : d \in {<<>>, <<"1">>}}
Structures == {<<StructItem("A", "", a), StructItem("B", "", b), StructItem("C", "", c)>> :
                   a \in Strings(Made, 1), b \in Strings(Made, 1), c \in Strings(Made, 1)}

(* Pages of a site: links written in every way, and texts that look like    *)
(* the beginning of one.                                                   *)
Site == INSTANCE CrawlPages WITH Domain <- "mrboboget.se", Folder <- <<<<"out">>>>

IsPath(s) == \A i \in 1 .. Len(s) - 1 : ~({s[i], s[i + 1]} \subseteq {".", ".."})
Paths(n) == {s \in Strings({"a", "/", ".", ".."}, n) : IsPath(s)}
Ours(n) == {<<"https://", "mrboboget.se", "/">> \o s : s \in Paths(n)}
Theirs == {<<>>, <<"/", "a">>, <<"http://", "other", "/", "a">>}
Bases == {<<"/">> \o s : s \in {<<>>, <<"a">>, <<"a", "/">>, <<"a", "/", "b">>, <<"b", "/", "a", "/">>}}
LinkParts(links) == {"href=", "src="} \X links
Looks == {<<"text", t>> : t \in {<<"t">>, <<"\"">>, <<"href=", "t">>}}
FewLinks == {<<"..", "/", "a">>, <<"https://", "mrboboget.se", "/", "a">>, <<"/", "a">>, <<>>}
PagesOf == Strings(LinkParts(Paths(4) \cup Ours(2) \cup Theirs), 1) \cup Strings(LinkParts(FewLinks) \cup Looks, 2)
Resources == {Site!lexically_normal(<<"/">> \o s) : s \in Paths(4)}

(* What is written in one of the formats is read again; tokens are parsed   *)
(* as the grammar's rules say, a struct is declared before it is used, and *)
(* a page's links lead the crawler, and its copy, to where they should.    *)
TextsAgree ==
    /\ part = "json" => Json!JsonIsRead(input)
    /\ part = "quoted" => Json!QuotedIsRead(input)
    /\ part = "ubjson" => Json!BinaryIsRead(input, Raw)
    /\ part = "rules" => GrammarIsRead(input)
    /\ part = "base64" => Json!Base64IsRead(input)
    /\ part = "definitions" => \A wide \in BOOLEAN : Gen!DefinitionsAreRead(input, wide)
    /\ part = "structures" => Gen!HeaderIsInOrder(input)
    /\ part = "page" => Site!LinksAreFollowed(input[1], input[2]) /\ Site!CopyLeadsThere(input[2])
    /\ part = "files" => Site!FilesAreApart(input[1], input[2])

-----------------------------------------------------------------------------
(* Messages of other programs' protocols.                                  *)

Dns == INSTANCE DnsMessages
Bt == INSTANCE Bencoding WITH HashSize <- 2

Labels == {<<97>>, <<98, 99>>, [i \in 1 .. 63 |-> 100]}
Domains == {<<l, c, b>> : l \in Strings(Labels, 3) \ {<<>>}, c \in 0 .. 2, b \in {1, 12, 300}}
Headers == {0, 1, 258, 65535} \X {0, 1, 15} \X BOOLEAN \X BOOLEAN \X {0, 3, 15}
Answers == {<<97>>, <<97, 46, 98>>} \X {<<99>>, <<100, 101>>} \X (Strings({0, 255}, 4) \ {<<>>})
Addresses == [1 .. 4 -> {0, 7, 10, 99, 127, 255}]
(* Three servers that may name one another, with answers whole or in pieces. *)
Servers == [1 .. 3 -> 0 .. 3] \X [1 .. 3 -> BOOLEAN]
Keyed(S, n) == UNION {{<<"Dictionary", [i \in 1 .. k |-> <<108 + i, f[i]>>]>> : f \in [1 .. k -> S]} :
                          k \in 0 .. n}
Elements == {<<"String", Bytes(n)>> : n \in {0, 1, 9, 10, 12, 101}}
                \cup {<<"Integer", n>> : n \in {0, 7, 10, 299}}
Bencoded == LET Nested(S, n) == Keyed(S, n) \cup {<<"List", s>> : s \in Strings(S, n)}
            IN  Elements \cup Nested(Elements, 2)
                    \cup Nested(Nested({<<"String", <<101>>>>, <<"Integer", 5>>}, 1), 2)
TorrentFiles == Strings({[FileSize |-> n, SubDirectories |-> d] :
                             n \in {0, 300}, d \in {<<<<97>>>>, <<<<98>>, Bytes(11)>>}}, 2)
Torrents == {Bytes(10)} \X Strings({<<98>>, Bytes(12)}, 2)
                \X Strings({<<0, 255>>, <<101, 58>>}, 1) \X {0, 1000} \X TorrentFiles
Peers == Strings({[Adress |-> <<1, 2, 3, 4>>, Port |-> 80],
                  [Adress |-> <<0, 255, 58, 101>>, Port |-> 65535]}, 2)
Client == INSTANCE HttpChunks
Parts == {<<"a">>, <<"\r", "\n">>, <<"b", "1", "\r", "\n", "a">>}
Responses == Strings(Parts, 2) \X {5, 9, 100}
Trackers == Strings({<<0>>, <<1>>, <<2, 0>>}, 2) \X (0 .. 2) \X (SUBSET {1, 2}) \X Peers

(* Names, records and questions of the domain name system, everything that  *)
(* is bencoded, and the bodies of responses in pieces are read as they are  *)
(* meant; servers and trackers are asked in their order.                   *)
WiresAgree ==
    /\ part = "domain" => Dns!DomainIsRead(input[1], input[2], input[3])
    /\ part = "header" => Dns!HeaderIsRead(input[1], input[2], input[3], input[4], input[5])
    /\ part = "answers" => Dns!AnswersAreRead(input[1], input[2], input[3])
    /\ part = "address" => Dns!AddressIsReversed(input)
    /\ part = "servers" => Dns!QuestionIsFollowed(input[1], input[2])
    /\ part = "bencoded" => Bt!ElementIsCutOut(input)
    /\ part = "torrent" => Bt!TorrentIsRead(input[1], input[2], input[3], input[4], input[5])
    /\ part = "pieces" => Bt!PiecesAreSent(input)
    /\ part = "response" =>
         \A c1, c2 \in 1 .. 36 : /\ c1 <= c2 => Client!ChunksAreRead(input[1], {c1, c2}, input[2])
                                 /\ c1 <= c2 => Client!LengthIsRead(Client!Joined(input[1]), {c1, c2}, input[2])
    /\ part = "trackers" => Bt!TrackersAreAsked(input[1], input[2], input[3], input[4])

-----------------------------------------------------------------------------
(* The search engine, with words of which two differ in capitals only.     *)

Search == INSTANCE SearchIndex
              WITH DocIDs <- 16, MaxResults <- 2,
                   Lower <- LAMBDA w : IF w = "A" THEN "a" ELSE w

SearchTexts == {<<"a">>, <<"A">>, <<"b">>, <<"x">>} \cup
                   {<<Search!Quote>> \o s \o <<Search!Quote>> :
                        s \in {<<"a", "b">>, <<"b", "b">>, <<"A", "c", "a">>}}
Atoms == {Search!Atom(n, t) : n \in BOOLEAN, t \in SearchTexts}
FewAtoms == {Search!Atom(n, t) : n \in BOOLEAN,
                 t \in {<<"a">>, <<Search!Quote, "a", "b", Search!Quote>>}}
Both(n, S, T) == {Search!Compound(m, o, l, r) :
                      m \in n, o \in {Search!And, Search!Or}, l \in S, r \in T}
Plain == Both({FALSE}, Atoms, Atoms)
Nested == Both({FALSE}, Both({FALSE}, FewAtoms, FewAtoms), FewAtoms \cup Both({FALSE}, FewAtoms, FewAtoms))
              \cup Both({FALSE}, FewAtoms, Both({FALSE}, FewAtoms, FewAtoms))
(* Documents in which words follow each other, are repeated and missing.   *)
Few == {<<"a", "b">>, <<"b">>, <<"c", "A", "b", "b">>, <<"A", "c", "a">>}
Documents == Strings(Few, 3)
Libraries == {<<<<"a", "b">>, <<"b">>, <<"c", "A", "b", "b">>, <<"A", "c", "a">>, <<"c">>>>,
              <<<<"A">>, <<"b", "b">>>>}

(* A boolean query is split as its parentheses say, and answered with the   *)
(* documents that satisfy it, by an index also when it was saved and loaded.*)
SearchesAgree ==
    /\ part = "split" => Search!QueryIsRead(input)
    /\ part \in {"atom", "search"} => Search!QueryIsAnswered(input[1], input[2], <<"a", "b", "c">>)
    /\ part = "tokens" => Search!TokensAreWords(input)
    /\ part = "best" => Search!BestAreNamed(input[1], input[2])

-----------------------------------------------------------------------------
Init == part = "none" /\ input = <<>>
Choose(p, inputs) == part = "none" /\ part' = p /\ input' \in inputs
Next == \/ Choose("hello", Hello) \/ Choose("key", Key)
        \/ Choose("characters", Characters)
        \/ Choose("payload", Payload) \/ Choose("sizes", Sizes)
        \/ Choose("pair", Pairs) \/ Choose("array", Arrays) \/ Choose("power", Powers)
        \/ Choose("json", JsonValues) \/ Choose("quoted", Strings(Letters, 4))
        \/ Choose("ubjson", UbValues)
        \/ Choose("rules", RulePairs)
        \/ Choose("base64", Strings({0, 77, 255}, 5))
        \/ Choose("definitions", Strings(Items, 2)) \/ Choose("structures", Structures)
        \/ Choose("page", Bases \X PagesOf) \/ Choose("files", Resources \X Resources)
        \/ Choose("domain", {d \in Domains : d[2] <= Len(d[1])}) \/ Choose("header", Headers)
        \/ Choose("answers", Answers) \/ Choose("address", Addresses)
        \/ Choose("servers", Servers)
        \/ Choose("bencoded", Bencoded) \/ Choose("torrent", Torrents)
        \/ Choose("response", {r \in Responses : Len(Client!Joined(r[1])) <= 6})
        \/ Choose("pieces", Strings(BOOLEAN, 9)) \/ Choose("trackers", Trackers)
        \/ Choose("split", Plain \cup Nested)
        \/ Choose("atom", Documents \X Atoms)
        \/ Choose("search", Libraries \X (Plain \cup Nested))
        \/ Choose("tokens", Strings({"a", "b", " "}, 6))
        \/ Choose("best", (Documents \ {<<>>}) \X {"a", "A", "b", "c"})
Spec == Init /\ [][Next]_vars
=============================================================================
