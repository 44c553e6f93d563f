----------------------------- MODULE CrawlPages -----------------------------
(***************************************************************************)
(* What the crawler reads in a page and makes of it: links, resources and  *)
(* names of files (Crawler/MBCrawler.cpp; CrawlCoordinator has the         *)
(* threads).  A text is a sequence of units: a quotation mark, the ends    *)
(* `href=' and `src=' of what comes before one, "/", the beginnings of     *)
(* absolute links, the domain, and other pieces, of which "." and ".."     *)
(* mean something between slashes.                                         *)
(***************************************************************************)
EXTENDS Integers, Sequences, SequencesExt, FiniteSetsExt

CONSTANTS Domain, \* WebsiteURL, a unit
          Folder  \* the segments of the output folder

Mark == "\""
Protocols == {"http://", "https://"}
Beyond(text, n) == SubSeq(text, n + 1, Len(text))
-----------------------------------------------------------------------------
(* std::filesystem::path: what follows the last slash is a file's name.     *)
FileName(path) == Beyond(path, Max({i \in 1..Len(path) : path[i] = "/"} \cup {0}))
FolderOf(path) == SubSeq(path, 1, Len(path) - Len(FileName(path)))
Segments(path) ==
    LET Cut[n \in 0..Len(path)] ==
            IF n = 0 THEN <<<<>>>>
            ELSE IF path[n] = "/" THEN Append(Cut[n - 1], <<>>)
            ELSE [Cut[n - 1] EXCEPT ![Len(Cut[n - 1])] = Append(@, path[n])]
    IN  Cut[Len(path)]
IsRooted(path) == path # <<>> /\ path[1] = "/"
Push(stack, segment, rooted) ==
    IF segment \in {<<>>, <<".">>} THEN stack
    ELSE IF segment # <<"..">> \/ (stack = <<>> /\ ~rooted) THEN Append(stack, segment)
    ELSE IF stack = <<>> THEN stack
    ELSE IF Last(stack) = <<"..">> THEN Append(stack, segment) ELSE Front(stack)
Pushed(segments, rooted) ==
    LET Stack[n \in 0..Len(segments)] ==
            IF n = 0 THEN <<>> ELSE Push(Stack[n - 1], segments[n], rooted)
    IN  Stack[Len(segments)]
Joined(segments) ==
    LET Text[n \in 0..Len(segments)] ==
            IF n = 0 THEN <<>>
            ELSE Text[n - 1] \o (IF n = 1 THEN <<>> ELSE <<"/">>) \o segments[n]
    IN  Text[Len(segments)]
Put(stack, path) ==
    (IF IsRooted(path) THEN <<"/">> ELSE <<>>) \o Joined(stack)
      \o (IF /\ stack # <<>> /\ Last(stack) # <<"..">>
             /\ FileName(path) \in {<<>>, <<".">>, <<"..">>}
          THEN <<"/">> ELSE <<>>)
lexically_normal(path) ==
    LET normal == Put(Pushed(Segments(path), IsRooted(path)), path)
    IN  IF normal = <<>> /\ path # <<>> THEN <<".">> ELSE normal
-----------------------------------------------------------------------------
(* Links.  One that begins with "/" is neither relative nor on the site.    *)
HyperlinkIsRelative(link) == link # <<>> /\ link[1] \notin {"/"} \cup Protocols
(* A domain that goes on behind ours is taken for ours.                     *)
Without(link, prefix) == IF IsPrefix(prefix, link) THEN Beyond(link, 1) ELSE link
HyperlinkIsOnSite(link) ==
    \/ HyperlinkIsRelative(link)
    \/ IsPrefix(<<Domain>>, Without(Without(link, <<"http://">>), <<"https://">>))

MakePathAbsolute(base, relative) == lexically_normal(FolderOf(base) \o relative)
MakeAbsoluteHTTPLinkRelativeToWebsite(link) ==
    lexically_normal(Beyond(link, CHOOSE i \in 1..Len(link) :
        link[i] = Domain /\ \A j \in 1..i - 1 : link[j] # Domain))

(* A link's key is followed by a mark, and the link by the next one.  A     *)
(* search for a mark that is missing gives -1, and the next starts at 0.    *)
Keys(page, keys, i) == {j \in i..Len(page) - 1 : page[j] \in keys /\ page[j + 1] = Mark}
Marks(page, i) == {j \in i..Len(page) : page[j] = Mark}
ForEver == <<"for ever">>
RECURSIVE LinksFrom(_, _)
LinkAt(page, j, marks) ==
    IF marks = {} THEN <<Beyond(page, j + 1), ForEver>>
    ELSE <<SubSeq(page, j + 2, Min(marks) - 1)>> \o LinksFrom(page, Min(marks) + 1)
LinkOf(page, keys) ==
    IF keys = {} THEN <<>> ELSE LinkAt(page, Min(keys), Marks(page, Min(keys) + 2))
LinksFrom(page, i) == LinkOf(page, Keys(page, {"href=", "src="}, i))
(* The place of a moved page is looked for with a length that is longer     *)
(* than what is looked for, and never found.                                *)
GetHTTPHyperlinks(page) == LinksFrom(page, 1)

GetResponseDocumentType(value) ==
    SubSeq(value, 1, Min({i \in 1..Len(value) : value[i] = ";"} \cup {Len(value) + 1}) - 1)
        = <<"text/html">>

(* What IndexWebsiteResource adds for a page at `base', and where it saves  *)
(* it: a page's file never has the name of a folder.                        *)
ResourceOf(base, link) ==
    IF ~HyperlinkIsOnSite(link) THEN <<>>
    ELSE IF HyperlinkIsRelative(link) THEN <<MakePathAbsolute(base, link)>>
    ELSE <<MakeAbsoluteHTTPLinkRelativeToWebsite(link)>>
ResourcesOf(base, links) == FlattenSeq([i \in 1..Len(links) |-> ResourceOf(base, links[i])])
NewResourcesToIndex(base, value, page) ==
    IF GetResponseDocumentType(value) THEN ResourcesOf(base, GetHTTPHyperlinks(page)) ELSE <<>>

SavedPath(path) ==
    Segments(FolderOf(path) \o <<"__">>
                 \o (IF FileName(path) = <<>> THEN <<"DirectoryResource">> ELSE FileName(path)))
NewFilePath(resource) == SavedPath(lexically_normal(Joined(Folder) \o resource))
-----------------------------------------------------------------------------
(* A copy whose links to the site do not name it.  Only `href=' is a key.   *)
NewLink(link) == IF HyperlinkIsOnSite(link) /\ ~HyperlinkIsRelative(link)
                 THEN MakeAbsoluteHTTPLinkRelativeToWebsite(link) ELSE link
RECURSIVE CopyFrom(_, _)
CopyLink(page, i, j, marks) ==
    SubSeq(page, i, j + 1)
      \o (IF marks = {} THEN NewLink(Beyond(page, j + 1)) \o <<Mark>> \o ForEver
          ELSE NewLink(SubSeq(page, j + 2, Min(marks) - 1)) \o <<Mark>> \o CopyFrom(page, Min(marks) + 1))
CopyAt(page, i, keys) ==
    IF keys = {} THEN Beyond(page, i - 1)
    ELSE CopyLink(page, i, Min(keys), Marks(page, Min(keys) + 2))
CopyFrom(page, i) == CopyAt(page, i, Keys(page, {"href="}, i))
CopyHTMLFileRelative(page) == CopyFrom(page, 1)
-----------------------------------------------------------------------------
(* What should come out.  A page is made of parts: <<"href=", link>>,       *)
(* <<"src=", link>> and <<"text", units>>.                                  *)
IsLink(p) == p[1] # "text"
PartText(p) == IF IsLink(p) THEN <<p[1], Mark>> \o p[2] \o <<Mark>> ELSE p[2]
Page(parts) == FlattenSeq([i \in 1..Len(parts) |-> PartText(parts[i])])

(* Where a link leads, walked from folder to folder.                        *)
Walk(dirs, segment) == CASE segment \in {<<>>, <<".">>} -> dirs
                         [] segment = <<"..">> -> IF dirs = <<>> THEN <<>> ELSE Front(dirs)
                         [] OTHER -> Append(dirs, segment)
Place(dirs) == <<"/">> \o FlattenSeq([i \in 1..Len(dirs) |-> dirs[i] \o <<"/">>])
IsName(segment) == segment \notin {<<>>, <<".">>, <<"..">>}
RECURSIVE Lead(_, _)
Lead(dirs, segments) ==
    IF Len(segments) > 1 THEN Lead(Walk(dirs, segments[1]), Tail(segments))
    ELSE IF IsName(segments[1]) THEN Place(dirs) \o segments[1] ELSE Place(Walk(dirs, segments[1]))
Dirs(base) == SelectSeq(Front(Segments(base)), IsName)
Stays(link) == /\ link # <<>> /\ link[1] # "/"
               /\ link[1] \in Protocols => link[2] = Domain
Target(base, link) ==
    IF link[1] \in Protocols THEN Lead(<<>>, Segments(Beyond(link, 2)))
    ELSE Lead(Dirs(base), Segments(link))

(* Every link that stays on the site, and no other, becomes the resource it *)
(* leads to, whatever the way it is written, and pages are read to their    *)
(* end.  A link of nothing behind the domain is not among `parts'.          *)
LinksAreFollowed(base, parts) ==
    LET links == SelectSeq(parts, IsLink)
        ours == SelectSeq(links, LAMBDA p : Stays(p[2]))
        wanted == [i \in 1..Len(ours) |-> Target(base, ours[i][2])]
    IN  /\ GetHTTPHyperlinks(Page(parts)) = [i \in 1..Len(links) |-> links[i][2]]
        /\ NewResourcesToIndex(base, <<"text/html", ";", "charset">>, Page(parts)) = wanted
        /\ NewResourcesToIndex(base, <<"text/plain">>, Page(parts)) = <<>>

(* Two resources are two files, and no file is where another's folder is.   *)
FilesAreApart(one, other) ==
    one # other => ~IsPrefix(NewFilePath(one), NewFilePath(other))

(* A copied page has the same parts; its links to the site lead where they  *)
(* did, and a copy of the copy is the copy.                                 *)
CopyLeadsThere(parts) ==
    LET Copied(p) == IF p[1] = "href=" /\ Stays(p[2]) /\ p[2][1] \in Protocols
                     THEN <<p[1], Target(<<"/">>, p[2])>> ELSE p
        copy == CopyHTMLFileRelative(Page(parts))
    IN  /\ copy = Page([i \in 1..Len(parts) |-> Copied(parts[i])])
        /\ CopyHTMLFileRelative(copy) = copy
=============================================================================
