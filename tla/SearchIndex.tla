---------------------------- MODULE SearchIndex ----------------------------
(***************************************************************************)
(* The search engine: how a boolean query is read, how documents are       *)
(* entered in the index, saved and loaded, and how a query is answered, by *)
(* iterators or at once (MBSearchEngine/BooleanParse.h, MBSearchEngine.cpp,*)
(* MBISave.h, MBISaveIndexSpec.h).                                         *)
(* A posting list is the sequence of its postings in the order of          *)
(* m_SortedDocumentIDs, an iterator in it a place in it; a posting's       *)
(* NumberOfOccurances is the number of its positions.  A file is a         *)
(* sequence of bytes, of which a word or a name is one.  A word of a text  *)
(* that is indexed is spelled with two letters, which are itself.          *)
(* Operator_Word is a plausible mistake in Operator.                       *)
(***************************************************************************)
EXTENDS Integers, Sequences, FiniteSets

CONSTANTS DocIDs,       (* the number of values of a DocID *)
          MaxResults,   (* 10 *)
          Lower(_)      (* a word in small letters *)

-----------------------------------------------------------------------------
(* A boolean query (BooleanParse.h, MBSearchEngine.cpp:518-633).           *)
(* The text of a query is a sequence of words, of which the parentheses,   *)
(* the quotation mark and the operators with the blanks around them are    *)
(* some; offsets count from 0.  A word stands for itself, without a slash  *)
(* before a mark, and every quotation is closed.                           *)

Open == "("
Close == ")"
Quote == "\""
And == "AND"
Or == "OR"
Not == "NOT"
Npos == 1000000   (* a position that is none; greater than any *)

Least(a, b) == IF a < b THEN a ELSE b
FirstAt(text, S, from) ==
    LET found == {i \in from..(Len(text) - 1) : text[i + 1] \in S}
    IN  IF found = {} THEN Npos ELSE CHOOSE i \in found : \A j \in found : i <= j
GetNextStringBeginning(text, offset) == FirstAt(text, {Quote}, offset)
GetNextStringEnd(text, offset) ==
    LET begin == GetNextStringBeginning(text, offset)
    IN  GetNextStringBeginning(text, IF begin = Npos THEN 0 ELSE begin + 1)
Count(text, c, from, to) == Len(SelectSeq(SubSeq(text, from + 1, Least(to, Len(text))), LAMBDA x : x = c))

(* A quotation's end is taken for the beginning of the next one, so that   *)
(* nothing behind the first quotation mark is counted.                     *)
RECURSIVE Depth(_, _, _)
Depth(text, position, from) ==
    LET end == Least(GetNextStringBeginning(text, from), position)
    IN  IF from >= position THEN 0
        ELSE Count(text, Open, from, end) - Count(text, Close, from, end)
             + Depth(text, position, GetNextStringEnd(text, from))
GetCharacterParenthesisDepth(text, position) == Depth(text, position, 0)

RECURSIVE OperatorsFrom(_, _)
OperatorsFrom(text, from) ==
    LET string == GetNextStringBeginning(text, from)
        operator == FirstAt(text, {And, Or}, from)
    IN  IF from >= Len(text) THEN <<>>
        ELSE IF string = from \/ (operator > string /\ operator # Npos)
        THEN OperatorsFrom(text, GetNextStringEnd(text, string) + 1)
        ELSE IF operator = Npos THEN <<>>
        ELSE <<operator>> \o OperatorsFrom(text, operator + 1)
GetLogicalOperatorPositions(text) == OperatorsFrom(text, 0)
GetLogicOperator(text, position) ==
    IF position < Len(text) /\ text[position + 1] \in {And, Or} THEN text[position + 1] ELSE ""

ParenthesisAreValid(text) ==
    LET Balance(i) == Count(text, Open, 0, i) - Count(text, Close, 0, i)
    IN  (\A i \in 0..Len(text) : Balance(i) >= 0) /\ Balance(Len(text)) = 0
RECURSIVE RemoveRedundatParenthesis(_)
RemoveRedundatParenthesis(text) ==
    LET inner == SubSeq(text, 2, Len(text) - 1)
    IN  IF Len(text) > 1 /\ text[1] = Open /\ text[Len(text)] = Close /\ ParenthesisAreValid(inner)
        THEN RemoveRedundatParenthesis(inner) ELSE text
-----------------------------------------------------------------------------
Invalid == [valid |-> FALSE]
Begins(text, word) == text # <<>> /\ text[1] = word
(* The operator that splits a text is the first of those that are least    *)
(* deep.  Whether neighbours of one depth are the same is asked of the     *)
(* characters at their depth instead of their position, which are the same.*)
SplitAt(given, text, at, depth) ==
    LET differ == \E i \in 1..(Len(at) - 1) :
                      /\ depth[i] = depth[i + 1]
                      /\ GetLogicOperator(text, depth[i]) # GetLogicOperator(text, depth[i + 1])
        first == CHOOSE i \in 1..Len(at) :
                     \A j \in 1..Len(at) : depth[i] < depth[j] \/ (depth[i] = depth[j] /\ i <= j)
    IN  IF at = <<>> THEN [valid |-> TRUE, atomic |-> TRUE, negated |-> Begins(given, Not)]
        ELSE IF (\E i \in 1..Len(at) : depth[i] < 0) \/ differ THEN Invalid
        ELSE [valid |-> TRUE, atomic |-> FALSE, negated |-> depth[first] # 0 /\ Begins(text, Not),
              operator |-> GetLogicOperator(text, at[first]),
              left |-> RemoveRedundatParenthesis(SubSeq(text, 1, at[first])),
              right |-> RemoveRedundatParenthesis(SubSeq(text, at[first] + 2, Len(text)))]
Split(given, text, at) ==
    SplitAt(given, text, at, [i \in 1..Len(at) |-> GetCharacterParenthesisDepth(text, at[i])])
Stripped(given, text) == Split(given, text, GetLogicalOperatorPositions(text))
GetSubquerries(given) == Stripped(given, RemoveRedundatParenthesis(given))

(* A query as a tree: what is said of it, and either the text of an atom   *)
(* or two queries.                                                         *)
Atom(negated, text) == [valid |-> TRUE, atomic |-> TRUE, negated |-> negated, text |-> text]
Compound(negated, operator, left, right) ==
    [valid |-> left.valid /\ right.valid, atomic |-> FALSE, negated |-> negated,
     operator |-> operator, left |-> left, right |-> right]
RECURSIVE BooleanQuerry(_)
TreeOf(text, whole, top) ==
    IF ~top.valid THEN Invalid
    ELSE IF ~top.atomic
    THEN Compound(top.negated, top.operator, BooleanQuerry(top.left), BooleanQuerry(top.right))
    ELSE Atom(top.negated, IF top.negated THEN RemoveRedundatParenthesis(SubSeq(whole, 2, Len(whole)))
                           ELSE text)
BooleanQuerry(text) == TreeOf(text, RemoveRedundatParenthesis(text), GetSubquerries(text))
-----------------------------------------------------------------------------
(* The text of a tree, every compound operand in parentheses.              *)
RECURSIVE TextOf(_)
TextOf(q) ==
    LET Operand(x) == IF x.atomic THEN TextOf(x) ELSE <<Open>> \o TextOf(x) \o <<Close>>
    IN  IF ~q.atomic THEN Operand(q.left) \o <<q.operator>> \o Operand(q.right)
        ELSE IF q.negated THEN <<Not>> \o q.text ELSE q.text
HasPhrase(q) == \E i \in 1..Len(TextOf(q)) : TextOf(q)[i] = Quote
(* No negated compound, and no quotation in a parenthesis that an operator *)
(* follows: what else there is, the code does not read as it is meant.     *)
RECURSIVE Readable(_)
Readable(q) ==
    q.atomic \/ (/\ ~q.negated /\ (q.left.atomic \/ ~HasPhrase(q.left))
                 /\ Readable(q.left) /\ Readable(q.right))

(* A query is split as its parentheses say, and its parentheses can be     *)
(* doubled.                                                                *)
QueryIsRead(q) ==
    Readable(q) =>
        /\ BooleanQuerry(TextOf(q)) = q
        /\ ~q.atomic => BooleanQuerry(<<Open, Open>> \o TextOf(q) \o <<Close, Close>>) = q

-----------------------------------------------------------------------------
(* The index.                                                              *)

NoDoc == DocIDs - 1     (* -1 *)
Blank == " "
Letters(text, from, to) == SubSeq(text, from + 1, Least(to, Len(text)))
(* A word of one letter is passed unless it ends the text; a text that     *)
(* ends with a blank has an empty word at its end.                         *)
RECURSIVE TokensFrom(_, _)
TokensFrom(text, from) ==
    LET next == FirstAt(text, {Blank, "\n", "\r"}, from)
    IN  IF next - from > 1
        THEN <<Letters(text, from, next)>> \o (IF next = Npos THEN <<>> ELSE TokensFrom(text, next + 1))
        ELSE TokensFrom(text, next + 1)
SearchToken(letters) == Lower(letters[1])
TokenizeString(text) == TokensFrom(text, 0)

(* The documents are numbered from 0, the posting lists by their words'    *)
(* first occurrence.                                                       *)
Posting(doc, position) == [DocumentReference |-> doc, m_DocumentPositions |-> <<position>>]
AddPosting(list, doc, position) ==
    IF \E i \in 1..Len(list) : list[i].DocumentReference = doc
    THEN [i \in 1..Len(list) |->
             IF list[i].DocumentReference = doc
             THEN [list[i] EXCEPT !.m_DocumentPositions = Append(@, position)] ELSE list[i]]
    ELSE Append(list, Posting(doc, position))
EmptyIndex == [docs |-> <<>>, dictionary |-> [w \in {} |-> 0], lists |-> <<>>, disk |-> <<>>]
Enter(index, word, doc, position) ==
    LET known == word \in DOMAIN index.dictionary
        id == IF known THEN index.dictionary[Lower(word)] ELSE Len(index.lists) + 1
    IN  [index EXCEPT
            !.dictionary = IF known THEN @ ELSE [w \in DOMAIN @ \cup {word} |-> IF w = word THEN id ELSE @[w]],
            !.lists = IF known THEN [@ EXCEPT ![id] = AddPosting(@, doc, position)]
                      ELSE Append(@, <<Posting(doc, position)>>)]
UpdatePostings(index, words, doc) ==
    LET Done[i \in 0..Len(words)] ==
            IF i = 0 THEN index ELSE Enter(Done[i - 1], words[i], doc, i - 1)
    IN  Done[Len(words)]
IndextTextData(index, text, name) ==
    LET words == TokenizeString(text)
    IN  UpdatePostings([index EXCEPT !.docs = Append(@, name)],
                       [i \in 1..Len(words) |-> SearchToken(words[i])], Len(index.docs))
-----------------------------------------------------------------------------
(* A number in groups of seven bits, the last of which is marked.  The      *)
(* documents' lengths are not saved here: no search reads them.            *)
RECURSIVE SaveInteger(_)
SaveInteger(n) == IF n < 128 THEN <<n + 128>> ELSE <<n % 128>> \o SaveInteger(n \div 128)
RECURSIVE ReadInteger(_, _)
ReadInteger(file, at) ==
    IF file[at + 1] >= 128 THEN <<file[at + 1] - 128, at + 1>>
    ELSE LET rest == ReadInteger(file, at + 1) IN <<file[at + 1] + 128 * rest[1], rest[2]>>
(* Four bytes, by way of an array of one, behind which others must fit.    *)
SaveFixedSizeInteger(n) == [i \in 1..4 |-> (n \div 256 ^ (i - 1)) % 256]
ReadFixedSizeInteger(file, at) ==
    file[at + 1] + 256 * (file[at + 2] + 256 * (file[at + 3] + 256 * file[at + 4]))
SaveString(word) == SaveInteger(1) \o <<word>>
ReadString(file, at) == LET size == ReadInteger(file, at) IN <<file[size[2] + 1], size[2] + size[1]>>
(* A sequence is its length and its elements.                              *)
SaveVector(Save(_), v) ==
    LET Saved[i \in 0..Len(v)] == IF i = 0 THEN SaveInteger(Len(v)) ELSE Saved[i - 1] \o Save(v[i])
    IN  Saved[Len(v)]
ReadVector(Read(_, _), file, at) ==
    LET size == ReadInteger(file, at)
        Got[i \in 0..size[1]] ==
            IF i = 0 THEN <<<<>>, size[2]>>
            ELSE LET next == Read(file, Got[i - 1][2]) IN <<Append(Got[i - 1][1], next[1]), next[2]>>
    IN  Got[size[1]]
SavePosting(p) == SaveInteger(p.DocumentReference) \o SaveInteger(Len(p.m_DocumentPositions))
                  \o SaveVector(SaveInteger, p.m_DocumentPositions)
ReadPosting(file, at) ==
    LET reference == ReadInteger(file, at)
        occurrences == ReadInteger(file, reference[2])
        positions == ReadVector(ReadInteger, file, occurrences[2])
    IN  <<[DocumentReference |-> reference[1], m_DocumentPositions |-> positions[1]], positions[2]>>
SavePostingsList(list) ==
    SaveVector(SavePosting, list)
    \o SaveVector(SaveInteger, [i \in 1..Len(list) |-> list[i].DocumentReference])
    \o SaveInteger(Len(list))
(* A list is read into a map and given back in the order of the documents. *)
ReadPostingsList(file, at) ==
    LET postings == ReadVector(ReadPosting, file, at)
        sorted == ReadVector(ReadInteger, file, postings[2])[1]
        Of(doc) == CHOOSE p \in {postings[1][i] : i \in 1..Len(postings[1])} : p.DocumentReference = doc
    IN  [i \in 1..Len(sorted) |-> Of(sorted[i])]
SaveEntry(e) == SaveString(e[1]) \o SaveInteger(e[2])
ReadEntry(file, at) ==
    LET word == ReadString(file, at)
        id == ReadInteger(file, word[2])
    IN  <<<<word[1], id[1]>>, id[2]>>
(* words: the dictionary's words in their order.                           *)
SaveDictionary(dictionary, words) ==
    SaveVector(SaveEntry, [i \in 1..Len(words) |-> <<words[i], dictionary[words[i]] - 1>>])
ReadDictionary(file, at) ==
    LET entries == ReadVector(ReadEntry, file, at)
        e == entries[1]
    IN  <<[w \in {e[i][1] : i \in 1..Len(e)} |-> (CHOOSE x \in {e[i] : i \in 1..Len(e)} : x[1] = w)[2] + 1],
          entries[2]>>
(* Before the lists come their places in the file.  A list on disk is       *)
(* copied, up to the place of the next one: the last has none behind it,   *)
(* and what the code takes for its end is undefined.                       *)
NumberOfPostings(index) == IF index.disk = <<>> THEN Len(index.lists) ELSE Len(index.disk[2])
Written(index, id) ==
    IF id <= Len(index.lists) THEN SavePostingsList(index.lists[id])
    ELSE SubSeq(index.disk[1], index.disk[2][id] + 1, index.disk[2][id + 1])
EndIsThere(index, id) == id <= Len(index.lists) \/ id < NumberOfPostings(index)
p_MergeFilesAndCache(index, begin) ==
    LET number == NumberOfPostings(index)
        Place[i \in 0..number] ==
            IF i = 0 THEN begin + 4 * number ELSE Place[i - 1] + Len(Written(index, i))
        Places[i \in 0..number] ==
            IF i = 0 THEN <<>> ELSE Places[i - 1] \o SaveFixedSizeInteger(Place[i - 1])
        Lists[i \in 0..number] == IF i = 0 THEN <<>> ELSE Lists[i - 1] \o Written(index, i)
    IN  IF \A id \in 1..number : EndIsThere(index, id) THEN Places[number] \o Lists[number]
        ELSE <<"undefined">>
Save(index, words) ==
    LET head == SaveVector(SaveString, index.docs) \o SaveDictionary(index.dictionary, words)
                \o SaveInteger(NumberOfPostings(index))
    IN  head \o p_MergeFilesAndCache(index, Len(head))
(* No list is kept in memory, MaxPostingsToRead being 0: disk has their    *)
(* places in the file.                                                     *)
Load(file) ==
    LET docs == ReadVector(ReadString, file, 0)
        dictionary == ReadDictionary(file, docs[2])
        number == ReadInteger(file, dictionary[2])
    IN  [docs |-> docs[1], dictionary |-> dictionary[1], lists |-> <<>>,
         disk |-> <<file, [i \in 1..number[1] |-> ReadFixedSizeInteger(file, number[2] + 4 * (i - 1))]>>]
GetPostinglist(index, id) ==
    IF id <= Len(index.lists) THEN index.lists[id] ELSE ReadPostingsList(index.disk[1], index.disk[2][id])
ListOf(index, word) ==
    IF Lower(word) \in DOMAIN index.dictionary
    THEN GetPostinglist(index, index.dictionary[Lower(word)]) ELSE <<>>
-----------------------------------------------------------------------------
(* Places in several lists, of documents or of a word's positions in one,  *)
(* moved on until they agree, or follow each other: until the value in     *)
(* each is gap more than in the one before.                                *)
Valid(lists, pos) == \A i \in 1..Len(lists) : pos[i] <= Len(lists[i])
RECURSIVE Agree(_, _, _, _)
Agree(lists, pos, k, gap) ==
    LET l == lists[k][pos[k]]
        r == lists[k + 1][pos[k + 1]] - gap
    IN  IF ~Valid(lists, pos) THEN pos
        ELSE IF l = r THEN IF k + 1 = Len(lists) THEN pos ELSE Agree(lists, pos, k + 1, gap)
        ELSE IF l > r THEN Agree(lists, [pos EXCEPT ![k + 1] = @ + 1], k, gap)
        ELSE Agree(lists, [pos EXCEPT ![1] = @ + 1], 1, gap)
Docs(list) == [i \in 1..Len(list) |-> list[i].DocumentReference]
IterateToNextCommonDocument(lists, pos) == Agree([k \in 1..Len(lists) |-> Docs(lists[k])], pos, 1, 0)
Positions(lists, pos) == [k \in 1..Len(lists) |-> lists[k][pos[k]].m_DocumentPositions]
Begin(lists) == [k \in 1..Len(lists) |-> 1]
p_PhraseIsInDocument(lists, pos) ==
    LET positions == Positions(lists, pos)
    IN  Valid(lists, pos) /\ Valid(positions, Agree(positions, Begin(lists), 1, 1))
Moved(pos) == [k \in 1..Len(pos) |-> pos[k] + 1]

WordsOf(text) == IF text # <<>> /\ text[1] = Quote THEN SubSeq(text, 2, Len(text) - 1) ELSE text

(* Iterators.  An atom has lists and places in them, a compound has left   *)
(* and right; cur is the last document found, excluded the one that a      *)
(* negated iterator stands at.                                             *)
HasEnded(it) == it.finished
Value(it) == IF it.negated THEN it.excluded ELSE it.cur
RECURSIVE NextPhrase(_, _), PhraseFound(_, _)
NextPhrase(lists, pos) ==
    IF ~Valid(lists, pos) THEN <<NoDoc, pos>>
    ELSE PhraseFound(lists, IterateToNextCommonDocument(lists, pos))
PhraseFound(lists, at) ==
    IF p_PhraseIsInDocument(lists, at) THEN <<lists[1][at[1]].DocumentReference, Moved(at)>>
    ELSE NextPhrase(lists, Moved(at))
WithPhrase(it, phrase) ==
    [it EXCEPT !.cur = phrase[1], !.pos = phrase[2], !.finished = phrase[1] = NoDoc]
p_AtomicIncrement(it) ==
    LET word == it.pos[1] <= Len(it.lists[1])
    IN  IF HasEnded(it) THEN it
        ELSE IF Len(it.lists) = 1
        THEN IF ~word /\ ~it.negated THEN [it EXCEPT !.finished = TRUE, !.cur = NoDoc]
             ELSE [it EXCEPT !.cur = IF word THEN it.lists[1][it.pos[1]].DocumentReference ELSE NoDoc,
                             !.pos = Moved(it.pos)]
        ELSE WithPhrase(it, NextPhrase(it.lists, it.pos))

RECURSIVE Increment(_), p_NonAtomicIncrement(_), p_Union_IterateToNext(_, _), PastExcluded(_)
p_Union_IterateToNext(left, right) ==
    IF HasEnded(left) \/ HasEnded(right) \/ Value(left) = Value(right) THEN <<left, right>>
    ELSE IF Value(left) < Value(right) THEN p_Union_IterateToNext(Increment(left), right)
    ELSE p_Union_IterateToNext(left, Increment(right))
p_IncrementOperands_Left(operator, left, right) ==
    IF operator = And THEN <<Increment(left), Increment(right)>>
    ELSE IF Value(left) <= Value(right) THEN <<Increment(left), right>> ELSE <<left, Increment(right)>>
p_IncrementOperands(operator, left, right) ==
    IF operator = And \/ Value(left) = Value(right) THEN <<Increment(left), Increment(right)>>
    ELSE IF Value(left) < Value(right) THEN <<Increment(left), right>> ELSE <<left, Increment(right)>>
(* here: the operands where the next document is found, or one has ended.  *)
WithOperands(it, operands) == [it EXCEPT !.left = operands[1], !.right = operands[2]]
Combined(it, here) ==
    LET over == IF it.operator = And THEN HasEnded(here[1]) \/ HasEnded(here[2])
                ELSE HasEnded(here[1]) /\ HasEnded(here[2])
    IN  IF over THEN [WithOperands(it, here) EXCEPT !.finished = TRUE, !.cur = NoDoc]
        ELSE [WithOperands(it, p_IncrementOperands(it.operator, here[1], here[2]))
                 EXCEPT !.cur = Least(Value(here[1]), Value(here[2]))]
p_NonAtomicIncrement(it) ==
    IF HasEnded(it) THEN it
    ELSE Combined(it, IF it.operator = And THEN p_Union_IterateToNext(it.left, it.right)
                                           ELSE <<it.left, it.right>>)
Step(it) == IF it.atomic THEN p_AtomicIncrement(it) ELSE p_NonAtomicIncrement(it)
(* A negated iterator goes to the next number, unless that is one found.   *)
NextDoc(doc) == (doc + 1) % DocIDs
Stepped(it) ==
    IF it.excluded # it.cur THEN [it EXCEPT !.finished = FALSE] ELSE PastExcluded(it)
PastExcluded(it) == Stepped(Step([it EXCEPT !.excluded = NextDoc(it.cur)]))
Past(it) ==
    IF NextDoc(it.excluded) # it.cur THEN [it EXCEPT !.excluded = NextDoc(@)] ELSE PastExcluded(it)
(* It ends before the last document.                                       *)
Bounded(it) ==
    IF NextDoc(it.excluded) >= it.max \/ it.excluded = NoDoc
    THEN [it EXCEPT !.excluded = NoDoc, !.finished = TRUE] ELSE it
Increment(it) ==
    IF HasEnded(it) THEN it
    ELSE IF ~it.negated THEN Step(it)
    ELSE Bounded(Past([(IF it.cur = NoDoc THEN Step(it) ELSE it) EXCEPT !.finished = FALSE]))
RECURSIVE BooleanQuerryIterator(_, _)
BooleanQuerryIterator(index, q) ==
    LET words == IF q.text # <<>> /\ q.text[1] = Quote THEN WordsOf(q.text)
                 ELSE IF Len(q.text) = 1 THEN q.text ELSE <<"">>
        lists == [i \in 1..Len(words) |-> ListOf(index, words[i])]
        common == [finished |-> FALSE, negated |-> q.negated, excluded |-> NoDoc, cur |-> NoDoc,
                   max |-> Len(index.docs), atomic |-> q.atomic,
                   operator |-> IF q.atomic THEN "" ELSE q.operator,
                   lists |-> IF q.atomic THEN lists ELSE <<>>,
                   pos |-> IF q.atomic THEN [i \in 1..Len(words) |-> 1] ELSE <<>>,
                   left |-> IF q.atomic THEN <<>> ELSE BooleanQuerryIterator(index, q.left),
                   right |-> IF q.atomic THEN <<>> ELSE BooleanQuerryIterator(index, q.right)]
    IN  Increment(common)
(* The search command's loop.                                              *)
RECURSIVE ResultsFrom(_)
ResultsFrom(it) == IF HasEnded(it) THEN <<>> ELSE <<Value(it)>> \o ResultsFrom(Increment(it))
m_ExecuteSearchCommand(index, text) == ResultsFrom(BooleanQuerryIterator(index, BooleanQuerry(text)))
-----------------------------------------------------------------------------
(* At once.  Negations are left out of account.                            *)
RECURSIVE Intersect(_, _), Union(_, _)
Intersect(a, b) ==
    IF a = <<>> \/ b = <<>> THEN <<>>
    ELSE IF a[1] = b[1] THEN <<a[1]>> \o Intersect(Tail(a), Tail(b))
    ELSE IF a[1] < b[1] THEN Intersect(Tail(a), b) ELSE Intersect(a, Tail(b))
Union(a, b) ==
    IF a = <<>> \/ b = <<>> THEN a \o b
    ELSE IF a[1] = b[1] THEN <<a[1]>> \o Union(Tail(a), Tail(b))
    ELSE IF a[1] < b[1] THEN <<a[1]>> \o Union(Tail(a), b) ELSE <<b[1]>> \o Union(a, Tail(b))
(* One turn of the loop looks three times: whether the next word follows,  *)
(* whether it is behind and whether it is in front; the third look may be  *)
(* past the first word's last position, and then changes nothing.          *)
RECURSIVE Follows(_, _, _)
Follows(positions, at, k) ==
    LET Distance(p, j) == positions[j + 1][p[j + 1]] - positions[j][p[j]]
        j == IF Distance(at, k) = 1 THEN k + 1 ELSE k
        behind == Distance(at, j) > 1
        moved == IF behind THEN [at EXCEPT ![1] = @ + 1] ELSE at
        here == IF behind THEN 1 ELSE j
        front == Valid(positions, moved) /\ Distance(moved, here) < 1
    IN  /\ Valid(positions, at)
        /\ j = Len(positions) \/ Follows(positions, IF front THEN [moved EXCEPT ![here + 1] = @ + 1] ELSE moved, here)
PhraseInDocument(lists, pos) == Follows(Positions(lists, pos), Begin(lists), 1)
RECURSIVE PhraseFrom(_, _)
PhrasesBehind(lists, at) ==
    IF ~Valid(lists, at) THEN <<>>
    ELSE (IF PhraseInDocument(lists, at) THEN <<lists[1][at[1]].DocumentReference>> ELSE <<>>)
         \o PhraseFrom(lists, [at EXCEPT ![1] = @ + 1])
PhraseFrom(lists, pos) == PhrasesBehind(lists, IterateToNextCommonDocument(lists, pos))
EvaluatePhraseQuerry(index, text) ==
    LET words == WordsOf(text)
        lists == [i \in 1..Len(words) |-> ListOf(index, words[i])]
    IN  IF text = <<>> \/ \E i \in 1..Len(words) : Lower(words[i]) \notin DOMAIN index.dictionary THEN <<>>
        ELSE PhraseFrom(lists, [i \in 1..Len(words) |-> 1])
RECURSIVE Evaluate(_, _)
Evaluate(index, q) ==
    IF ~q.atomic
    THEN LET left == Evaluate(index, q.left)
             right == Evaluate(index, q.right)
         IN  IF q.operator = And THEN Intersect(left, right) ELSE Union(left, right)
    ELSE IF GetNextStringBeginning(q.text, 0) # Npos THEN EvaluatePhraseQuerry(index, q.text)
    ELSE Docs(ListOf(index, IF Len(q.text) = 1 THEN q.text[1] ELSE ""))
(* The documents with the greatest scores, of equal ones any; all words    *)
(* must be known.  Weight(n, f) stands for the logarithm of n / f.  No     *)
(* score is divided by its document's length: the loop that would do that  *)
(* is over the results, of which there are none yet.                       *)
Weight(n, f) == n - f
Score(index, words, doc) ==
    LET Occurrences(list) ==
            LET here == {i \in 1..Len(list) : list[i].DocumentReference = doc}
            IN  IF here = {} THEN 0 ELSE Len(list[CHOOSE i \in here : TRUE].m_DocumentPositions)
        Sum[i \in 0..Len(words)] ==
            IF i = 0 THEN 0
            ELSE LET list == GetPostinglist(index, index.dictionary[Lower(words[i])])
                 IN  Sum[i - 1] + Weight(Len(index.docs), Len(list)) * Occurrences(list)
    IN  Sum[Len(words)]
Ranked(scores, number) ==
    LET Left(named, i) == DOMAIN scores \ {named[j] : j \in 1..(i - 1)}
    IN  {named \in [1..number -> DOMAIN scores] :
            \A i \in 1..number : /\ named[i] \in Left(named, i)
                                 /\ \A d \in Left(named, i) : scores[named[i]] >= scores[d]}
EvaluteVectorModelQuerry(index, words) ==
    Ranked([doc \in 0..(Len(index.docs) - 1) |-> Score(index, words, doc)],
           Least(MaxResults, Len(index.docs)))
-----------------------------------------------------------------------------
(* What a query asks for, of documents that are sequences of words.        *)
RECURSIVE Satisfies(_, _, _)
Satisfies(q, doc, negations) ==
    LET words == WordsOf(q.text)
        In(ws) == \E at \in 0..(Len(doc) - Len(ws)) : \A i \in 1..Len(ws) : Lower(doc[at + i]) = Lower(ws[i])
        positive == IF q.atomic THEN In(words)
                    ELSE IF q.operator = And
                    THEN Satisfies(q.left, doc, negations) /\ Satisfies(q.right, doc, negations)
                    ELSE Satisfies(q.left, doc, negations) \/ Satisfies(q.right, doc, negations)
    IN  IF q.negated /\ negations THEN ~positive ELSE positive
RECURSIVE Negates(_)
Negates(q) == q.negated \/ (~q.atomic /\ (Negates(q.left) \/ Negates(q.right)))
RECURSIVE Spelled(_)
Spelled(words) ==
    IF Len(words) = 1 THEN <<words[1], words[1]>> ELSE <<words[1], words[1], Blank>> \o Spelled(Tail(words))
IndexOf(documents) ==
    LET Done[i \in 0..Len(documents)] ==
            IF i = 0 THEN EmptyIndex ELSE IndextTextData(Done[i - 1], Spelled(documents[i]), i)
    IN  Done[Len(documents)]

AnswersAgree(documents, q, index, loaded, found, all) ==
    LET ids == 0..(Len(documents) - 1)
        Increases(s) == \A i, j \in 1..Len(s) : i < j => s[i] < s[j]
        Elements(s) == {s[i] : i \in 1..Len(s)}
    IN  /\ Increases(found)
        /\ \A d \in ids : d + 1 < Len(documents) \/ ~Negates(q) =>
               (d \in Elements(found) <=> Satisfies(q, documents[d + 1], TRUE))
        /\ Elements(found) \subseteq ids
        /\ Increases(all)
        /\ Elements(all) = {d \in ids : Satisfies(q, documents[d + 1], FALSE)}
        /\ ResultsFrom(BooleanQuerryIterator(loaded, q)) = found
        /\ loaded.docs = index.docs /\ NumberOfPostings(loaded) = NumberOfPostings(index)
        /\ \A id \in 1..NumberOfPostings(loaded) :
               EndIsThere(loaded, id) => Written(loaded, id) = Written(index, id)
        /\ Readable(q) => m_ExecuteSearchCommand(loaded, TextOf(q)) = found
IndexAnswers(documents, q, words, index) ==
    AnswersAgree(documents, q, index,
                 Load(Save(index, SelectSeq(words, LAMBDA w : w \in DOMAIN index.dictionary))),
                 ResultsFrom(BooleanQuerryIterator(index, q)), Evaluate(index, q))

(* A query is answered with the documents that satisfy it, each once and   *)
(* in their order, by an index as well as by the same index when it has    *)
(* been saved and loaded.  A negation never finds the last document, and   *)
(* Evaluate takes no notice of it.  A loaded index would save each list    *)
(* that has another behind it as it was.  words: the documents' words.     *)
QueryIsAnswered(documents, q, words) == IndexAnswers(documents, q, words, IndexOf(documents))

(* The words of a text are those between its blanks, without those of one  *)
(* letter but for one at its end.                                          *)
TokensAreWords(text) ==
    LET words == TokenizeString(text)
        Joined[i \in 0..Len(words)] ==
            IF i = 0 THEN <<>> ELSE Joined[i - 1] \o words[i]
        letters == SelectSeq(text, LAMBDA c : c # Blank)
        cuts == {0, Len(text) + 1} \cup {i \in 1..Len(text) : text[i] = Blank}
        ends == {<<a, b>> \in cuts \X cuts : a < b /\ \A c \in cuts : c <= a \/ b <= c}
        kept == {p \in ends : p[2] - p[1] > 2 \/ p[2] > Len(text)}
    IN  {words[i] : i \in 1..Len(words)} = {SubSeq(text, p[1] + 1, p[2] - 1) : p \in kept}

(* Of a search for one word, no document that is left out has the word     *)
(* more often than one that is named, unless all documents have it.        *)
NamedAreBest(documents, word, named) ==
    LET Times(d) == Cardinality({i \in 1..Len(documents[d + 1]) : Lower(documents[d + 1][i]) = Lower(word)})
        everywhere == \A d \in 0..(Len(documents) - 1) : Times(d) > 0
    IN  ~everywhere =>
            \A i \in 1..Len(named), d \in 0..(Len(documents) - 1) :
                (\A j \in 1..i : named[j] # d) => Times(named[i]) >= Times(d)
BestAreNamed(documents, word) ==
    LET index == IndexOf(documents)
    IN  Lower(word) \in DOMAIN index.dictionary =>
            \A named \in EvaluteVectorModelQuerry(index, <<word>>) : NamedAreBest(documents, word, named)
=============================================================================
