----------------------------- MODULE MatchRules -----------------------------
(***************************************************************************)
(* The rules of intent matching (genx/src/match): how a rule file is read  *)
(* and written, compiled into the prompt that tells the model the answer   *)
(* format, and how an answer line is parsed back into typed arguments.     *)
(*                                                                         *)
(* A pattern is a sequence of words and of variables in brackets.  An      *)
(* answer line is a rule name and a sequence of comma-separated pieces     *)
(* <<key, value>>; a piece without "=" has the key "".  The model is       *)
(* external: it may answer any line of the format of a pattern of the      *)
(* prompt, with values of its own.                                         *)
(***************************************************************************)
EXTENDS Integers, Sequences, SequencesExt, FiniteSets, FiniteSetsExt

CONSTANTS
    RuleFiles,  \* sequences of rules in their JSON form
    Vars,       \* names of variables
    Values      \* values in an answer: sequences of comma-separated texts

VARIABLES
    file,       \* the rules as JSON
    rules,      \* the rules read
    matcher,    \* [state, prompt, specs], state "none", "error" or "ok"
    asked,      \* the pattern answered: [rule, vars, values]
    line,       \* the answer
    result      \* the MatchResult

vars == <<file, rules, matcher, asked, line, result>>

Nothing == [rule |-> "", args |-> << >>]
NoMatcher(state) == [state |-> state, prompt |-> {}, specs |-> << >>]

Init ==
    /\ file \in RuleFiles
    /\ rules = << >> /\ matcher = NoMatcher("none") /\ asked = Nothing /\ line = Nothing /\ result = Nothing

----------------------------------------------------------------------------
(* Reading and writing rules *)

\* Deserialize of a Pattern: a string, or an array of one or two strings.
ReadPattern(j) == [input |-> j[1], output |-> IF Len(j) > 1 THEN j[2] ELSE << >>]
PatternValid(j) == Len(j) \in 1 .. 2

\* Serialize: without an output, the input alone.
WritePattern(p) == IF p.output = << >> THEN <<p.input>> ELSE <<p.input, p.output>>

\* Deserialize of an Example: an array of one to three strings.
ReadExample(j) ==
    [subject |-> j[1], user_text |-> IF Len(j) > 1 THEN j[2] ELSE "",
     formatted_to |-> IF Len(j) > 2 THEN j[3] ELSE ""]
ExampleValid(j) == Len(j) \in 1 .. 3

\* Not the code: the output is written only behind a user text.
WriteExampleShort(e) ==
    IF e.user_text = "" THEN <<e.subject>>
    ELSE IF e.formatted_to = "" THEN <<e.subject, e.user_text>>
    ELSE <<e.subject, e.user_text, e.formatted_to>>

\* Serialize: the shortest array that holds the last text that is not empty.
WriteExample(e) ==
    IF e.formatted_to # "" THEN <<e.subject, e.user_text, e.formatted_to>>
    ELSE IF e.user_text # "" THEN <<e.subject, e.user_text>>
    ELSE <<e.subject>>

ReadRule(j) ==
    [name |-> j.name, vars |-> j.vars,
     patterns |-> [i \in DOMAIN j.patterns |-> ReadPattern(j.patterns[i])],
     examples |-> [i \in DOMAIN j.examples |-> ReadExample(j.examples[i])]]
RuleValid(j) == /\ \A i \in DOMAIN j.patterns : PatternValid(j.patterns[i])
                /\ \A i \in DOMAIN j.examples : ExampleValid(j.examples[i])

\* Rule::from_json: an error leaves no rules.
Load ==
    /\ rules = << >> /\ matcher.state = "none"
    /\ IF \A i \in DOMAIN file : RuleValid(file[i])
       THEN rules' = [i \in DOMAIN file |-> ReadRule(file[i])] /\ UNCHANGED matcher
       ELSE matcher' = NoMatcher("error") /\ UNCHANGED rules
    /\ UNCHANGED <<file, asked, line, result>>

----------------------------------------------------------------------------
(* Compiling *)

Placeholders(input) == {x \in Vars : \E i \in DOMAIN input : input[i] = x}
Declared(r) == DOMAIN r.vars
Labelled(r, x) == x \in Declared(r) /\ r.vars[x].label # ""

\* The checks of build_prompt_data: types, labels without brackets, and no
\* placeholder without a variable.  (Newlines in patterns are refused as well.)
Valid(r) ==
    /\ \A x \in Declared(r) : r.vars[x].type \in {"", "string", "int", "float", "bool"}
    /\ \A x \in Declared(r) : r.vars[x].label # "[bracket]"
    /\ \A i \in DOMAIN r.patterns : Placeholders(r.patterns[i].input) \subseteq Declared(r)

\* expand_pattern: the variables the generated output asks for, in the order of
\* the input; a variable without a label stays in the input and is not asked for.
Expand(r, input) == SelectSeq(input, LAMBDA x : x \in Vars /\ Labelled(r, x))

\* build_prompt_data: what the prompt says of each pattern of each rule.
PromptData(rs) ==
    UNION { { [rule |-> rs[i].name, from |-> i,
               keys |-> IF rs[i].patterns[p].output = << >>
                        THEN Expand(rs[i], rs[i].patterns[p].input)
                        ELSE rs[i].patterns[p].output]
              : p \in DOMAIN rs[i].patterns } : i \in DOMAIN rs }

\* The first rule of a name gives the specs; the prompt has the patterns of all.
Spec1(rs, name) == rs[Min({i \in DOMAIN rs : rs[i].name = name})].vars
Specs(rs) == [n \in {rs[i].name : i \in DOMAIN rs} |-> Spec1(rs, n)]

\* Matcher::compile.
Compile ==
    /\ rules # << >> /\ matcher.state = "none"
    /\ matcher' = IF \A i \in DOMAIN rules : Valid(rules[i])
                  THEN [state |-> "ok", prompt |-> PromptData(rules), specs |-> Specs(rules)]
                  ELSE NoMatcher("error")
    /\ UNCHANGED <<file, rules, asked, line, result>>

----------------------------------------------------------------------------
(* Answer and result *)

\* The model (external) answers in the format of some pattern; a text with a
\* comma becomes several pieces, the first one with the key.
Pieces(key, value) == [i \in DOMAIN value |-> IF i = 1 THEN <<key, value[1]>> ELSE <<"", value[i]>>]
Answer ==
    /\ matcher.state = "ok" /\ line = Nothing
    /\ \E f \in matcher.prompt : \E vals \in [DOMAIN f.keys -> Values] :
         /\ asked' = [rule |-> f.rule, from |-> f.from, keys |-> f.keys, vals |-> vals]
         /\ line' = [rule |-> f.rule,
                     args |-> FlattenSeq([i \in DOMAIN f.keys |-> Pieces(f.keys[i], vals[i])])]
    /\ UNCHANGED <<file, rules, matcher, result>>

\* parse_bool, and the conversion by the variable's type; what does not
\* convert stays a text.
ParseBool(v) == CASE v \in {"yes", "1"} -> "true"
                  [] v \in {"no", "0"}  -> "false"
                  [] OTHER -> ""
Typed(type, v) ==
    CASE type = "bool" /\ ParseBool(v) # "" -> <<"bool", ParseBool(v)>>
      [] type \in {"int", "float"} /\ v \in {"0", "1"} -> <<type, v>>
      [] OTHER -> <<"text", v>>

\* Not the code: a piece counts only when a comma follows it.
LastOfClosed(parts, k) == LET at == {i \in DOMAIN parts : parts[i][1] = k /\ i < Len(parts)}
                          IN  IF at = {} THEN 0 ELSE Max(at)

\* The last piece of a key wins.
LastOf(parts, k) == LET at == {i \in DOMAIN parts : parts[i][1] = k}
                    IN  IF at = {} THEN 0 ELSE Max(at)

\* parse_kv_to_args: every variable of the rule has an entry; pieces without a
\* key or with an unknown one are skipped.
ParseKv(parts, spec) ==
    [x \in DOMAIN spec |->
        IF LastOf(parts, x) = 0 THEN << >> ELSE Typed(spec[x].type, parts[LastOf(parts, x)][2])]

\* parse_line on the answer.
ParseLine ==
    /\ line # Nothing /\ result = Nothing
    /\ result' = IF line.rule \in DOMAIN matcher.specs
                 THEN [rule |-> line.rule, args |-> ParseKv(line.args, matcher.specs[line.rule])]
                 ELSE [rule |-> "raw", args |-> << >>]
    /\ UNCHANGED <<file, rules, matcher, asked, line>>

Next == Load \/ Compile \/ Answer \/ ParseLine

Spec == Init /\ [][Next]_vars

----------------------------------------------------------------------------
(* Properties *)

Distinct == \A i, j \in DOMAIN rules : rules[i].name = rules[j].name => i = j

\* A model that keeps to the format the prompt gave it is understood: the answer
\* is matched to the rule of the pattern and every value it gave arrives under
\* its own variable, as text or as the type the rule declares, and no other
\* variable has a value.  For rules with distinct names and values without
\* commas (matcher.rs:82-103, 204-292, 393-430).
AnswersUnderstood ==
    result # Nothing /\ Distinct /\ (\A i \in DOMAIN asked.vals : Len(asked.vals[i]) = 1) =>
        /\ result.rule = asked.rule
        /\ \A x \in DOMAIN result.args :
              LET at   == {i \in DOMAIN asked.keys : asked.keys[i] = x}
                  type == rules[asked.from].vars[x].type
              IN  IF at = {} THEN result.args[x] = << >>
                  ELSE result.args[x] = Typed(type, asked.vals[Max(at)][1])
        /\ \A i \in DOMAIN asked.keys : asked.keys[i] \in DOMAIN result.args

\* A rule written back and read again is the rule (rule.rs:34-190).
RulesReadBack ==
    \A i \in DOMAIN rules :
        /\ \A p \in Range(rules[i].patterns) : ReadPattern(WritePattern(p)) = p
        /\ \A e \in Range(rules[i].examples) : ReadExample(WriteExample(e)) = e
=============================================================================
