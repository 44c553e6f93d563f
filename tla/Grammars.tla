----------------------------- MODULE Grammars ------------------------------
(***************************************************************************)
(* MBParsing's BNFParser (MBParsing.cpp): it reads rules and parses tokens *)
(* by them, without ever going back on an alternative.  The text of the    *)
(* rules is a sequence of signs, names and literals, " " for a blank; a    *)
(* rule is its kind and what it is made of, a tree is a token, an array of *)
(* trees or a name and its trees.                                          *)
(*                                                                         *)
(* Below it, the definitions that MBParsing's parser generator (MBCC.cpp)  *)
(* reads in the same manner: terminals, structs, rules and the structs     *)
(* that rules fill, and the header it writes with the structs in an order  *)
(* in which C++ knows each before it is used.  A member's default value,   *)
(* and a type in braces, are the words they are written in.                *)
(*                                                                         *)
(* MBCCDefinitions refuses definitions WITH rules (603-606, where a test   *)
(* for none is meant), so what is done with rules that were read (482-598, *)
(* the look-ahead and the parser's source) is never reached.               *)
(***************************************************************************)
EXTENDS Integers, Sequences, SequencesExt, FiniteSetsExt, TLC

CONSTANTS Literals,     \* what stands in quotes in the rules' text
          Names,        \* of rules, and whatever else is defined
          Numbers       \* the names that are numbers

At(t, i) == IF i \in DOMAIN t THEN t[i] ELSE ""
Got(v, i) == [ok |-> TRUE, value |-> v, at |-> i]
Fails(i) == [ok |-> FALSE, value |-> <<"Array", <<>>>>, at |-> i]
Skip(t, i) == Min({k \in i .. Max({i, Len(t) + 1}) : At(t, k) # " "})

-----------------------------------------------------------------------------
(* What a rule makes of the tokens. *)
RECURSIVE Parse(_, _, _, _), AllOf(_, _, _, _, _, _), Repeated(_, _, _, _, _, _, _),
          FirstOf(_, _, _, _, _), Flatten(_)

FirstOf(rules, alternatives, k, tokens, i) ==
    LET first == Parse(rules, alternatives[k], tokens, i)
    IN CASE k > Len(alternatives) -> Fails(i)
         [] k <= Len(alternatives) /\ first.ok -> first
         [] OTHER -> FirstOf(rules, alternatives, k + 1, tokens, i)

AllOf(rules, parts, k, tokens, i, read) ==
    LET next == Parse(rules, parts[k], tokens, i)
    IN CASE k > Len(parts) -> Got(<<"Array", read>>, i)
         [] k <= Len(parts) /\ next.ok ->
                AllOf(rules, parts, k + 1, tokens, next.at, Append(read, next.value))
         [] OTHER -> Fails(i)

Repeated(rules, rule, min, max, tokens, i, read) ==
    LET next == Parse(rules, rule, tokens, i)
    IN IF (max # -1 /\ Len(read) >= max) \/ ~next.ok
       THEN IF Len(read) < min THEN Fails(i) ELSE Got(<<"Array", read>>, i)
       ELSE Repeated(rules, rule, min, max, tokens, next.at, Append(read, next.value))

Flatten(tree) ==
    IF tree[1] = "Array"
    THEN FlattenSeq([k \in DOMAIN tree[2] |-> Flatten(tree[2][k])]) ELSE <<tree>>

Parse(rules, rule, tokens, i) ==
    LET inner == Parse(rules, rules[rule[2]], tokens, i)
        result ==
            CASE rule[1] = "Literal" ->
                     IF At(tokens, i) = rule[2] THEN Got(rule, i + 1) ELSE Fails(i)
              [] rule[1] = "Or" -> FirstOf(rules, rule[2], 1, tokens, i)
              [] rule[1] = "And" -> AllOf(rules, rule[2], 1, tokens, i, <<>>)
              [] rule[1] = "Range" ->
                     Repeated(rules, rule[2], rule[3], rule[4], tokens, i, <<>>)
              [] rule[1] = "Rule" ->
                     IF inner.ok THEN Got(<<"Rule", rule[2], Flatten(inner.value)>>, inner.at)
                                 ELSE inner
    IN IF result.ok THEN result ELSE Fails(i)

-----------------------------------------------------------------------------
(* How the rules are read.  A range in figures is read and forgotten. *)
ParseRange(t, i) ==
    LET end == Min({k \in i .. (Len(t) + 1) : At(t, k) \in {"", "}"}})
        middle == Min({k \in (i + 1) .. end : k = end \/ At(t, k) = ","})
    IN IF At(t, end) = "}" /\ middle # end /\ At(t, i + 1) \in {"0", "1", "2"}
           /\ At(t, middle + 1) \in {"0", "1", "2"}
       THEN Got(<<"Array", <<>>>>, end + 1) ELSE Fails(i)

ParseTerm(t, i) ==
    CASE At(t, i) \in Literals -> Got(<<"Literal", t[i]>>, i + 1)
      [] At(t, i) \in Names -> Got(<<"Rule", t[i]>>, i + 1)
      [] OTHER -> Fails(i)

Combined(clauses) == IF Len(clauses) = 1 THEN clauses[1] ELSE <<"And", clauses>>

RECURSIVE ExpressionRest(_, _, _, _)
ParseExpression(t, i) ==
    IF i > Len(t) THEN Fails(i) ELSE ExpressionRest(t, i, <<>>, <<>>)

(* Any closing sign ends an expression, whichever opened it. *)
ExpressionRest(t, from, alternatives, clauses) ==
    LET i == Skip(t, from)
        inner == ParseExpression(t, i + 1)
        ranged(r, min, max) == [r EXCEPT !.value = <<"Range", @, min, max>>]
        term == CASE At(t, i) = "(" -> inner
                  [] At(t, i) = "[" -> ranged(inner, 0, 1)
                  [] At(t, i) = "{" -> ranged(inner, 0, -1)
                  [] OTHER -> ParseTerm(t, i)
        after == At(t, term.at)
        one == CASE after = "+" -> [ranged(term, 1, -1) EXCEPT !.at = @ + 1]
                 [] after = "*" -> [ranged(term, 0, -1) EXCEPT !.at = @ + 1]
                 [] after = "{" -> LET range == ParseRange(t, term.at)
                                   IN [term EXCEPT !.ok = range.ok, !.at = range.at]
                 [] OTHER -> term
        ends == from > Len(t) \/ At(t, i) \in {";", ")", "]", "}"}
    IN IF ends
       THEN IF clauses = <<>> THEN Fails(i)
            ELSE Got(IF alternatives = <<>> THEN Combined(clauses)
                     ELSE <<"Or", Append(alternatives, Combined(clauses))>>,
                     IF from > Len(t) THEN from ELSE i + 1)
       ELSE IF At(t, i) = "|"
            THEN IF clauses = <<>> THEN Fails(i)
                 ELSE ExpressionRest(t, i + 1, Append(alternatives, Combined(clauses)), <<>>)
       ELSE IF ~term.ok \/ ~one.ok THEN Fails(i)
       ELSE ExpressionRest(t, one.at, alternatives, Append(clauses, one.value))

(* A name ends at a delimiter, which an = is not. *)
Delimiters == {" ", "*", "+", "{", "}", "(", ")", ";"}
ParseNamedRule(t, i) ==
    LET end == Min({k \in i .. (Len(t) + 1) : At(t, k) \in Delimiters \cup {""}})
        equals == Skip(t, end)
        expression == ParseExpression(t, equals + 1)
    IN IF end > Len(t) \/ At(t, equals) # "=" THEN Fails(i)
       ELSE IF ~expression.ok THEN Fails(i)
       ELSE Got(<<SubSeq(t, i, end - 1), expression.value>>, expression.at)

RECURSIVE RulesRest(_, _, _)
RulesRest(t, i, rules) ==
    LET next == ParseNamedRule(t, Skip(t, i))
    IN CASE i > Len(t) -> [ok |-> TRUE, rules |-> rules]
         [] i <= Len(t) /\ ~next.ok -> [ok |-> FALSE, rules |-> rules]
         [] OTHER -> RulesRest(t, Skip(t, next.at),
                               (next.value[1][1] :> next.value[2]) @@ rules)
InitializeRules(t) == RulesRest(t, 1, <<>>)

-----------------------------------------------------------------------------
(* Reference: how a rule is written, and what it stands for.               *)
RECURSIVE Written(_), Language(_, _, _)
Listed(rules, separator) ==
    FlattenSeq([k \in DOMAIN rules |->
        (IF k = 1 THEN <<>> ELSE separator) \o Written(rules[k])])
Written(rule) ==
    CASE rule[1] \in {"Literal", "Rule"} -> <<rule[2]>>
      [] rule[1] = "Or" -> <<"(">> \o Listed(rule[2], <<" ", "|", " ">>) \o <<")">>
      [] rule[1] = "And" -> <<"(">> \o Listed(rule[2], <<" ">>) \o <<")">>
      [] rule[1] = "Range" /\ rule[4] = 1 -> <<"[">> \o Written(rule[2]) \o <<"]">>
      [] rule[1] = "Range" /\ rule[4] # 1 ->
             <<"(">> \o Written(rule[2]) \o <<")", IF rule[3] = 1 THEN "+" ELSE "*">>

Joined(S, T) == {s \o t : s \in S, t \in T}
Language(rules, rule, n) ==        \* of length up to n
    LET short(S) == {s \in S : Len(s) <= n}
        all[k \in 0 .. 4] ==
            IF k = 0 THEN {<<>>}
            ELSE short(Joined(all[k - 1], Language(rules, rule[2][k], n)))
        times[k \in 0 .. n] ==
            IF k = 0 THEN {<<>>}
            ELSE short(Joined(times[k - 1], Language(rules, rule[2], n)))
    IN CASE rule[1] = "Literal" -> short({<<rule[2]>>})
         [] rule[1] = "Or" ->
                UNION {Language(rules, rule[2][k], n) : k \in DOMAIN rule[2]}
         [] rule[1] = "And" -> all[Len(rule[2])]
         [] rule[1] = "Range" ->
                UNION {times[k] : k \in {m \in rule[3] .. n : rule[4] = -1 \/ m <= rule[4]}}
         [] rule[1] = "Rule" -> Language(rules, rules[rule[2]], n)

(* Rules are read as they were written; what a rule then takes of the      *)
(* tokens is one of its words, and its tree's leaves are that word.        *)
RECURSIVE Leaves(_)
Leaves(tree) ==
    CASE tree[1] = "Literal" -> <<tree[2]>>
      [] tree[1] = "Rule" -> FlattenSeq([k \in DOMAIN tree[3] |-> Leaves(tree[3][k])])
      [] OTHER -> FlattenSeq([k \in DOMAIN tree[2] |-> Leaves(tree[2][k])])
RulesAreRead(names, rules) ==
    InitializeRules(FlattenSeq([k \in DOMAIN names |->
        <<names[k], " ", "=", " ">> \o Written(rules[names[k]]) \o <<";", " ">>]))
        = [ok |-> TRUE, rules |-> rules]
WordIsRead(rules, rule, tokens) ==
    LET result == Parse(rules, rule, tokens, 1)
        word == SubSeq(tokens, 1, result.at - 1)
    IN result.ok => /\ word \in Language(rules, rule, Len(tokens))
                    /\ Leaves(result.value) = word

-----------------------------------------------------------------------------
(* Definitions for the parser generator.                                   *)

(* What comes after r, if r was read.                                      *)
Then(r, Rest(_, _)) == IF r.ok THEN Rest(r.value, r.at) ELSE r

(* What must follow, blanks aside: a name, a literal or a sign; the result *)
(* is the names and literals.                                              *)
Fits(sign, kind) == CASE kind = "name" -> sign \in Names
                      [] kind = "literal" -> sign \in Literals
                      [] OTHER -> sign = kind
RECURSIVE Match(_, _, _, _)
MatchAt(t, i, pattern, read) ==
    IF Fits(At(t, i), pattern[1])
    THEN Match(t, i + 1, Tail(pattern),
               IF pattern[1] \in {"name", "literal"} THEN Append(read, t[i]) ELSE read)
    ELSE Fails(i)
Match(t, from, pattern, read) ==
    IF pattern = <<>> THEN Got(read, from) ELSE MatchAt(t, Skip(t, from), pattern, read)
Find(t, from, sign) == Min({k \in from .. Max({from, Len(t) + 1}) : At(t, k) \in {"", sign}})

p_ParseIdentifier(t, i) ==
    Then(Match(t, i, <<"name">>, <<>>), LAMBDA names, j : Got(names[1], j))
p_ParseTerminal(t, i) == Match(t, i, <<"name", "=", "literal", ";">>, <<>>)
p_ParseDef(t, i) == Match(t, i, <<"name", "=", "name", ";">>, <<>>)

(* The type of a member, then its name and default value: both a type in   *)
(* braces and a value go on to the sign that ends them.                    *)
UpTo(t, i, end) == IF end > Len(t) THEN Fails(end) ELSE Got(SubSeq(t, i, end - 1), end + 1)
MemberType(t, i) ==
    CASE At(t, i) = "{" ->
             Then(UpTo(t, i + 1, Find(t, i + 1, "}")), LAMBDA raw, j : Got(<<"Raw", raw>>, j))
      [] At(t, i) = "List" ->
             Then(Match(t, i, <<"name", "<", "name", ">">>, <<>>),
                  LAMBDA names, j : Got(<<"List", names[2]>>, j))
      [] OTHER -> Then(p_ParseIdentifier(t, i), LAMBDA name, j : Got(<<"Struct", name>>, j))
Default(t, i) ==
    CASE At(t, i) = ";" -> Got(<<>>, i + 1)
      [] At(t, i) = "=" -> UpTo(t, i + 1, Find(t, i + 1, ";"))
      [] OTHER -> Fails(i)
p_ParseMemberVariable(t, from) ==
    Then(MemberType(t, Skip(t, from)), LAMBDA type, i :
    Then(p_ParseIdentifier(t, i), LAMBDA name, j :
    Then(Default(t, Skip(t, j)), LAMBDA value, k :
    Got([type |-> type, name |-> name, default |-> value], k))))

RECURSIVE Members(_, _, _)
Members(t, i, members) ==
    IF At(t, i) = "}" THEN Got(members, i + 1)
    ELSE IF i > Len(t) THEN Fails(i)
    ELSE Then(p_ParseMemberVariable(t, i), LAMBDA member, j :
              Members(t, Skip(t, j), Append(members, member)))
Parent(t, i) == IF At(t, i) = ":" THEN p_ParseIdentifier(t, i + 1) ELSE Got("", i)
p_ParseStruct(t, from) ==
    Then(p_ParseIdentifier(t, from), LAMBDA name, i :
    Then(Parent(t, Skip(t, i)), LAMBDA parent, j :
    Then(Match(t, j, <<"{">>, <<>>), LAMBDA open, k :
    Then(Members(t, Skip(t, k), <<>>), LAMBDA members, l :
    Got([name |-> name, parent |-> parent, members |-> members], l)))))

(* One component of a rule, with the member it is assigned to and how often*)
(* it may come.                                                            *)
Times(sign) == CASE sign = "+" -> <<1, -1>> [] sign = "?" -> <<0, 1>>
                 [] sign = "*" -> <<0, -1>> [] OTHER -> <<1, 1>>
Referred(t, i, name) ==
    IF At(t, i) = "="
    THEN Then(p_ParseIdentifier(t, i + 1), LAMBDA rule, j : Got(<<name, rule>>, Skip(t, j)))
    ELSE Got(<<"", name>>, i)
Component(t, from) ==
    Then(p_ParseIdentifier(t, from), LAMBDA name, i :
    Then(Referred(t, Skip(t, i), name), LAMBDA r, j :
    IF j > Len(t) THEN Fails(j)
    ELSE Got([rule |-> r[2], member |-> r[1], times |-> Times(t[j])],
             IF Times(t[j]) = <<1, 1>> THEN j ELSE j + 1)))

(* A last alternative that is empty is dropped, and the text may end       *)
(* instead of the rule.                                                    *)
Ended(rules, rule) == IF rule = <<>> THEN rules ELSE Append(rules, rule)
RECURSIVE Alternatives(_, _, _, _)
Alternatives(t, i, rules, rule) ==
    CASE i > Len(t) -> Got(Ended(rules, rule), i)
      [] At(t, i) = ";" -> Got(Ended(rules, rule), i + 1)
      [] At(t, i) = "|" -> IF rule = <<>> THEN Fails(i)
                           ELSE Alternatives(t, Skip(t, i + 1), Ended(rules, rule), <<>>)
      [] OTHER -> Then(Component(t, i), LAMBDA next, j :
                       Alternatives(t, Skip(t, j), rules, Append(rule, next)))
p_ParseParseRules(t, from) ==
    Then(Match(t, from, <<"=">>, <<>>), LAMBDA begin, i :
         Alternatives(t, Skip(t, i), <<>>, <<>>))

-----------------------------------------------------------------------------
Nothing == [Terminals |-> <<>>, NonTerminals |-> <<>>, Structs |-> <<>>, defs |-> <<>>]
Named(seq, name) == \E k \in DOMAIN seq : seq[k].name = name
IndexOf(seq, name) == CHOOSE k \in DOMAIN seq : seq[k].name = name

(* What is defined once an item's keyword or name has been read; rules of  *)
(* one name may come in several items.                                     *)
AddTerminal(d, term, i) ==
    IF Named(d.Terminals, term[1]) \/ Named(d.NonTerminals, term[1]) THEN Fails(i)
    ELSE Got([d EXCEPT !.Terminals = Append(@, [name |-> term[1], regex |-> term[2]])], i)
AddStruct(d, struct, i) ==
    IF Named(d.Structs, struct.name) THEN Fails(i)
    ELSE Got([d EXCEPT !.Structs = Append(@, struct)], i)
AddRules(d, name, rules, i) ==
    IF Named(d.NonTerminals, name)
    THEN Got([d EXCEPT !.NonTerminals[IndexOf(d.NonTerminals, name)].rules = @ \o rules], i)
    ELSE IF Named(d.Terminals, name) THEN Fails(i)
    ELSE Got([d EXCEPT !.NonTerminals = Append(@, [name |-> name, rules |-> rules])], i)
Item(t, from, word, d) ==
    CASE word = "def" -> Then(p_ParseDef(t, from), LAMBDA def, i :
                              Got([d EXCEPT !.defs = Append(@, def)], i))
      [] word = "term" -> Then(p_ParseTerminal(t, from), LAMBDA term, i : AddTerminal(d, term, i))
      [] word = "struct" -> Then(p_ParseStruct(t, from), LAMBDA struct, i : AddStruct(d, struct, i))
      [] OTHER -> Then(p_ParseParseRules(t, from), LAMBDA rules, i : AddRules(d, word, rules, i))
RECURSIVE Items(_, _, _)
Items(t, i, d) ==
    IF i > Len(t) THEN Got(d, i)
    ELSE Then(p_ParseIdentifier(t, i), LAMBDA word, j :
         Then(Item(t, j, word, d), LAMBDA more, k : Items(t, Skip(t, k), more)))

(* A struct with a parent is always refused: the test compares one look-up *)
(* with itself.  Int and String are types only of plain members.           *)
h_TypeIsBuiltin(type) == type \in {"String", "Int"}
MemberIsKnown(structs, m) ==
    CASE m.type[1] = "List" -> Named(structs, m.type[2])
      [] m.type[1] = "Struct" ->
             \/ m.type[2] = "Int" /\ At(m.default, Skip(m.default, 1)) \in Numbers
             \/ m.type[2] = "String"
             \/ ~h_TypeIsBuiltin(m.type[2]) /\ Named(structs, m.type[2])
      [] OTHER -> TRUE
p_VerifyStructs(structs) ==
    \A k \in DOMAIN structs :
        /\ structs[k].parent = ""
        /\ \A j \in DOMAIN structs[k].members : MemberIsKnown(structs, structs[k].members[j])

DefsAreResolved(d) ==
    \A k \in DOMAIN d.defs : Named(d.NonTerminals, d.defs[k][1]) /\ Named(d.Structs, d.defs[k][2])
p_UpdateReferencesAndVerify(d) == d.NonTerminals = <<>> /\ p_VerifyStructs(d.Structs)
ParseDefinitions(t) ==
    Then(Items(t, Skip(t, 1), Nothing), LAMBDA d, i :
         IF DefsAreResolved(d) /\ p_UpdateReferencesAndVerify(d) THEN Got(d, i) ELSE Fails(i))

-----------------------------------------------------------------------------
(* The structs in the header: those that others are made of come first,    *)
(* and a cycle is refused.  Of the same depth, any may come first.         *)
h_CalculateStructDependancies(structs) ==
    [k \in DOMAIN structs |->
        {IndexOf(structs, structs[k].parent) : parent \in {structs[k].parent} \ {""}}
            \cup {IndexOf(structs, m.type[2]) :
                     m \in {n \in Range(structs[k].members) :
                               /\ n.type[1] \in {"Struct", "List"}
                               /\ ~h_TypeIsBuiltin(n.type[2])}}]
Cyclic == -1
RECURSIVE h_CalculateDepth(_, _, _)
Above(depths) == IF Cyclic \in depths THEN Cyclic ELSE Max(depths) + 1
h_CalculateDepth(dependencies, k, busy) ==
    IF k \in busy THEN Cyclic
    ELSE IF dependencies[k] = {} THEN 0
    ELSE Above({h_CalculateDepth(dependencies, j, busy \cup {k}) : j \in dependencies[k]})
Sorted(depth) ==
    {order \in SetToSeqs(DOMAIN depth) :
        /\ Cyclic \notin Range(depth)
        /\ \A i, j \in DOMAIN order : i < j => depth[order[i]] <= depth[order[j]]}
Depths(dependencies) ==
    [k \in DOMAIN dependencies |-> h_CalculateDepth(dependencies, k, {})]
h_CalculateDependancyInfo(structs) == Sorted(Depths(h_CalculateStructDependancies(structs)))
HeaderMember(m) ==
    [type |-> IF m.type[1] = "List" THEN <<"std::vector", m.type[2]>> ELSE m.type,
     name |-> m.name, default |-> m.default]
Class(s) == <<s.name, [j \in DOMAIN s.members |-> HeaderMember(s.members[j])]>>
h_WriteStructures(structs, order) == [k \in DOMAIN order |-> Class(structs[order[k]])]

-----------------------------------------------------------------------------
(* Definitions are written with as few blanks as possible or with one      *)
(* before and after everything.                                            *)
MemberText(m) ==
    (CASE m.type[1] = "Raw" -> <<"{">> \o m.type[2] \o <<"}">>
       [] m.type[1] = "List" -> <<"List", "<", m.type[2], ">">>
       [] OTHER -> <<m.type[2]>>)
    \o <<m.name>> \o (IF m.default = <<>> THEN <<>> ELSE <<"=">> \o m.default) \o <<";">>
ComponentText(c) ==
    (IF c.member = "" THEN <<>> ELSE <<c.member, "=">>) \o <<c.rule>>
        \o SelectSeq(<<"+", "?", "*">>, LAMBDA s : Times(s) = c.times)
RuleText(r) == FlattenSeq([k \in DOMAIN r |-> ComponentText(r[k])])
ItemText(item) ==
    CASE item[1] \in {"term", "def"} -> <<item[1], item[2], "=", item[3], ";">>
      [] item[1] = "struct" ->
             <<"struct", item[2].name>>
                 \o (IF item[2].parent = "" THEN <<>> ELSE <<":", item[2].parent>>)
                 \o <<"{">> \o FlattenSeq([k \in DOMAIN item[2].members |->
                                               MemberText(item[2].members[k])]) \o <<"}">>
      [] OTHER -> <<item[2], "=">>
                      \o FlattenSeq([k \in DOMAIN item[3] |->
                             IF k = 1 THEN RuleText(item[3][k]) ELSE <<"|">> \o RuleText(item[3][k])])
                      \o <<";">>
Spaced(t, wide) ==
    FlattenSeq([k \in DOMAIN t |->
        IF k < Len(t) /\ (wide \/ {t[k], t[k + 1]} \subseteq Names) THEN <<t[k], " ">> ELSE <<t[k]>>])
Text(items, wide) == Spaced(FlattenSeq([k \in DOMAIN items |-> ItemText(items[k])]), wide)
Bare(value) == SelectSeq(value, LAMBDA c : c # " ")
BareStruct(s) ==
    [s EXCEPT !.members = [k \in DOMAIN @ |->
        [@[k] EXCEPT !.default = Bare(@),
                     !.type = IF @[1] = "Raw" THEN <<"Raw", Bare(@[2])>> ELSE @]]]

Of(items, kind) == SelectSeq(items, LAMBDA i : i[1] = kind)
NamesOf(items, kind) == {i[2] : i \in Range(Of(items, kind))}
Distinct(seq) == \A i, j \in DOMAIN seq : i # j => seq[i] # seq[j]
Structs(items) == [k \in DOMAIN Of(items, "struct") |-> Of(items, "struct")[k][2]]
StructNames(items) == [k \in DOMAIN Structs(items) |-> Structs(items)[k].name]
TermNames(items) == [k \in DOMAIN Of(items, "term") |-> Of(items, "term")[k][2]]
(* Every name stands for one thing. *)
NamesAreClear(items) ==
    /\ Distinct(StructNames(items))
    /\ Distinct(TermNames(items))
    /\ NamesOf(items, "term") \cap NamesOf(items, "rules") = {}

RulesOf(items, name) ==
    FlattenSeq([k \in DOMAIN items |->
        IF items[k][1] = "rules" /\ items[k][2] = name THEN items[k][3] ELSE <<>>])
IsWritten(d, items) ==
    /\ [k \in DOMAIN d.Structs |-> BareStruct(d.Structs[k])] = Structs(items)
    /\ [k \in DOMAIN d.Terminals |-> <<"term", d.Terminals[k].name, d.Terminals[k].regex>>]
           = Of(items, "term")
    /\ {n.name : n \in Range(d.NonTerminals)} = NamesOf(items, "rules")
    /\ \A n \in Range(d.NonTerminals) : n.rules = RulesOf(items, n.name)
ReadAsWritten(read, items) ==
    (read.ok <=> NamesAreClear(items)) /\ (read.ok => IsWritten(read.value, items))

NoneIsRead(text, i) == i \in 1 .. (Len(text) - 1) => ~Items(SubSeq(text, 1, i), 1, Nothing).ok

(* Definitions whose names are clear, and no others, are read, each as it  *)
(* was written; those with rules are refused, and so is a definition that  *)
(* is cut short, of a rule excepted.                                       *)
DefinitionsAreRead(items, wide) ==
    /\ ReadAsWritten(Items(Text(items, wide), 1, Nothing), items)
    /\ ParseDefinitions(Text(items, wide)).ok => Of(items, "rules") = <<>>
    /\ Len(items) = 1 /\ items[1][1] # "rules" =>
           \A i \in DOMAIN ItemText(items[1]) : NoneIsRead(Text(items, FALSE), i)

Uses(struct) == {m.type[2] : m \in {n \in Range(struct.members) : n.type[1] \in {"Struct", "List"}}}
                    \ {"Int", "String"}
(* What a struct is made of, n steps down.                                 *)
Reached(structs, k, n) ==
    LET Step[i \in 0 .. n] ==
            IF i = 0 THEN Uses(structs[k])
            ELSE Step[i - 1] \cup UNION {Uses(s) : s \in {r \in Range(structs) : r.name \in Step[i - 1]}}
    IN Step[n]
IsInOrder(header) ==
    \A k \in DOMAIN header : \A m \in Range(header[k][2]) :
        \/ m.type[1] = "Raw" \/ h_TypeIsBuiltin(m.type[2])
        \/ \E j \in 1 .. (k - 1) : header[j][1] = m.type[2]
OrdersAgree(structs, orders) ==
    /\ (orders = {}) <=> \E k \in DOMAIN structs :
                            structs[k].name \in Reached(structs, k, Len(structs))
    /\ \A order \in orders :
         /\ {structs[k].name : k \in Range(order)} = {s.name : s \in Range(structs)}
         /\ IsInOrder(h_WriteStructures(structs, order))

(* The header of definitions that are accepted names every type before it  *)
(* is used; if it cannot, there is none.                                   *)
StructsAgree(read) ==
    read.ok => OrdersAgree(read.value.Structs, h_CalculateDependancyInfo(read.value.Structs))
HeaderIsInOrder(items) == StructsAgree(ParseDefinitions(Text(items, FALSE)))
=============================================================================
